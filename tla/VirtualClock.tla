----------------------------- MODULE VirtualClock -----------------------------
(***************************************************************************)
(* The clock the program sees (src/kkapturedll/timing.cpp):                *)
(* QueryPerformanceCounter, timeGetTime, GetTickCount and the file time    *)
(* are a seed, taken from the real clock, plus the length of the captured  *)
(* frames. Any thread may ask, and any thread may present a frame; a       *)
(* program that asks too often within a frame advances it by asking.       *)
(*                                                                         *)
(* The barrier and the timers of nextFrameTiming are in FrameSync and      *)
(* EventTimers; here it is the increment of currentFrame, which is not     *)
(* interlocked, and the reset of the counter.                              *)
(***************************************************************************)
EXTENDS Integers

CONSTANTS
  Threads, NoThread,
  MAX_TIMERQUERY_PER_FRAME, \* 256*1024 in the code
  FrequentTimerCheck,       \* params.FrequentTimerCheck
  Frequency, Denom, Scaled, \* of the counter; frameRateDenom, frameRateScaled
  MaxFrames, MaxNow         \* bounds: frames, readings of the real clock

VARIABLES
  now,            \* the real clock
  currentFrame, timerHammeringCounter,
  TimersSeeded, TimerSeedLock, \* the latter is its owner
  firstTimeQPC, firstTimeTGT,  \* the file time is seeded with the latter
  pc, frame,      \* where a thread is, and the frame it has read
  counted,        \* currentFrame as read by the increment
  skipping,       \* threads that advance the frame from inside a query
  base, latest    \* history: seeds of the first answer after a picture; the last answer

seeds == <<TimersSeeded, firstTimeQPC, firstTimeTGT>>
frames == <<currentFrame, timerHammeringCounter, counted, skipping>>
answers == <<base, latest>>
vars == <<now, frames, seeds, TimerSeedLock, pc, frame, answers>>

Points == {"idle", "hammer", "load", "store", "reset", "frame", "test", "enter", "recheck", "seedQPC", "seedTGT",
           "mark", "leave", "answer"}
Unseeded == <<>>
Times == 0..MaxNow
Elapsed(f, unit) == (f * Denom * unit) \div Scaled

TypeOK ==
  /\ {now, firstTimeQPC, firstTimeTGT} \subseteq Times
  /\ currentFrame \in Nat \* three threads can lose increments and get beyond any bound
  /\ timerHammeringCounter \in 0..MAX_TIMERQUERY_PER_FRAME + 1
  /\ TimersSeeded \in BOOLEAN /\ TimerSeedLock \in Threads \union {NoThread}
  /\ pc \in [Threads -> Points] /\ {frame, counted} \subseteq [Threads -> Nat]
  /\ skipping \subseteq Threads
  /\ base \in {Unseeded} \union (Times \X Times) /\ latest \in Nat \X Nat

Init ==
  /\ now = 0 /\ currentFrame = 0 /\ timerHammeringCounter = 0
  /\ TimersSeeded = FALSE /\ TimerSeedLock = NoThread /\ firstTimeQPC = 0 /\ firstTimeTGT = 0
  /\ pc = [t \in Threads |-> "idle"] /\ frame = [t \in Threads |-> 0]
  /\ counted = [t \in Threads |-> 0] /\ skipping = {}
  /\ base = Unseeded /\ latest = <<0, 0>>

Go(t, from, to) == pc[t] = from /\ pc' = [pc EXCEPT ![t] = to]

-----------------------------------------------------------------------------
TimePasses ==
  /\ now < MaxNow /\ now' = now + 1
  /\ UNCHANGED <<frames, seeds, TimerSeedLock, pc, frame, answers>>

(* nextFrameTiming. *)

\* The program presents a frame.
Present(t) ==
  /\ currentFrame < MaxFrames
  /\ Go(t, "idle", "load")
  /\ UNCHANGED <<now, frames, seeds, TimerSeedLock, frame, answers>>

\* skipFrame, from a query.
skipFrame(t) ==
  /\ currentFrame < MaxFrames
  /\ Go(t, "hammer", "load") /\ skipping' = skipping \union {t}
  /\ UNCHANGED <<now, currentFrame, timerHammeringCounter, counted, seeds, TimerSeedLock, frame, answers>>

LoadFrame(t) ==
  /\ Go(t, "load", "store")
  /\ counted' = [counted EXCEPT ![t] = currentFrame]
  /\ UNCHANGED <<now, currentFrame, timerHammeringCounter, skipping, seeds, TimerSeedLock, frame, answers>>

StoreFrame(t) ==
  /\ Go(t, "store", "reset")
  /\ currentFrame' = counted[t] + 1
  /\ counted' = [counted EXCEPT ![t] = 0]
  /\ UNCHANGED <<now, timerHammeringCounter, skipping, seeds, TimerSeedLock, frame, answers>>

Resume(t) ==
  /\ Go(t, "reset", IF t \in skipping THEN "frame" ELSE "idle")
  /\ skipping' = skipping \ {t}
  /\ UNCHANGED <<now, currentFrame, counted, seeds, TimerSeedLock, frame, answers>>

\* Mutant: the counter stays what it was.
EndFrameKeepsCounter(t) == Resume(t) /\ UNCHANGED timerHammeringCounter

EndFrame(t) == Resume(t) /\ timerHammeringCounter' = 0

-----------------------------------------------------------------------------
(* getFrameTimingAndSeed, seedAllTimers and the answer. *)

\* The count goes no further than one beyond the threshold.
Query(t) ==
  /\ timerHammeringCounter' =
       IF FrequentTimerCheck /\ timerHammeringCounter <= MAX_TIMERQUERY_PER_FRAME
       THEN timerHammeringCounter + 1 ELSE timerHammeringCounter
  /\ Go(t, "idle", IF FrequentTimerCheck /\ timerHammeringCounter + 1 = MAX_TIMERQUERY_PER_FRAME
                   THEN "hammer" ELSE "frame")
  /\ UNCHANGED <<now, currentFrame, counted, skipping, seeds, TimerSeedLock, frame, answers>>

getFrameTiming(t) ==
  /\ Go(t, "frame", "test")
  /\ frame' = [frame EXCEPT ![t] = currentFrame]
  /\ UNCHANGED <<now, frames, seeds, TimerSeedLock, answers>>

Test(t) ==
  /\ Go(t, "test", IF TimersSeeded THEN "answer" ELSE "enter")
  /\ UNCHANGED <<now, frames, seeds, TimerSeedLock, frame, answers>>

EnterSeedLock(t) ==
  /\ TimerSeedLock = NoThread /\ TimerSeedLock' = t
  /\ Go(t, "enter", "recheck")
  /\ UNCHANGED <<now, frames, seeds, frame, answers>>

\* Mutant: the second test is left out.
NoTestInside(t) ==
  /\ Go(t, "recheck", "seedQPC")
  /\ UNCHANGED <<now, frames, seeds, TimerSeedLock, frame, answers>>

TestInside(t) ==
  /\ Go(t, "recheck", IF TimersSeeded THEN "leave" ELSE "seedQPC")
  /\ UNCHANGED <<now, frames, seeds, TimerSeedLock, frame, answers>>

SeedTimers(t) ==
  /\ \/ Go(t, "seedQPC", "seedTGT") /\ firstTimeQPC' = now /\ UNCHANGED firstTimeTGT
     \/ Go(t, "seedTGT", "mark") /\ firstTimeTGT' = now /\ UNCHANGED firstTimeQPC
  /\ UNCHANGED <<now, frames, TimersSeeded, TimerSeedLock, frame, answers>>

\* Seeds taken before the first picture are taken again.
MarkSeeded(t) ==
  /\ Go(t, "mark", "leave") /\ TimersSeeded' = (currentFrame # 0)
  /\ UNCHANGED <<now, frames, firstTimeQPC, firstTimeTGT, TimerSeedLock, frame, answers>>

LeaveSeedLock(t) ==
  /\ Go(t, "leave", "answer") /\ TimerSeedLock' = NoThread
  /\ UNCHANGED <<now, frames, seeds, frame, answers>>

\* What QueryPerformanceCounter and timeGetTime return.
QueryPerformanceCounter(t) == firstTimeQPC + Elapsed(frame[t], Frequency)
timeGetTime(t) == firstTimeTGT + Elapsed(frame[t], 1)

Answer(t) ==
  /\ Go(t, "answer", "idle")
  /\ frame' = [frame EXCEPT ![t] = 0]
  /\ base' = IF base = Unseeded /\ frame[t] > 0 THEN <<firstTimeQPC, firstTimeTGT>> ELSE base
  /\ latest' = IF frame[t] = 0 THEN <<QueryPerformanceCounter(t), timeGetTime(t)>> ELSE latest
  /\ UNCHANGED <<now, frames, seeds, TimerSeedLock>>

-----------------------------------------------------------------------------
nextFrameTiming(t) == LoadFrame(t) \/ StoreFrame(t) \/ EndFrame(t)

Asking(t) ==
  \/ Query(t) \/ skipFrame(t) \/ getFrameTiming(t) \/ Test(t) \/ EnterSeedLock(t) \/ TestInside(t)
  \/ SeedTimers(t) \/ MarkSeeded(t) \/ LeaveSeedLock(t) \/ Answer(t)

Next == TimePasses \/ \E t \in Threads : Present(t) \/ nextFrameTiming(t) \/ Asking(t)

Spec == Init /\ [][Next]_vars

-----------------------------------------------------------------------------
(* Properties; Timekeeping adds TimeMovesOn, under its fairness. *)

\* The program's clocks follow the pictures: whichever threads asked first, an answer
\* that has seen a picture is the seeds of the first such answer plus the length of
\* the frames it has seen, the same seeds for every clock; one that has seen none is
\* not before an earlier one (timing.cpp:72-104).
ClockFollowsFrames ==
  /\ TypeOK
  /\ \A t \in Threads : pc[t] = "answer" =>
       IF frame[t] > 0
       THEN base # Unseeded =>
              /\ QueryPerformanceCounter(t) = base[1] + Elapsed(frame[t], Frequency)
              /\ timeGetTime(t) = base[2] + Elapsed(frame[t], 1)
       ELSE QueryPerformanceCounter(t) >= latest[1] /\ timeGetTime(t) >= latest[2]
=============================================================================
