----------------------------- MODULE HookProofs -----------------------------
(***************************************************************************)
(* Theorems about the hooks: the clock and the timers, for any number of   *)
(* threads and of timer slots, any frame rate and any delays; the          *)
(* references of a Direct3D device that is the only one, after any number  *)
(* of others, for any numbers of capture surfaces, of references and of    *)
(* failures and any word that is long enough; and the frames of a          *)
(* DirectDraw program, for any number of pictures.                         *)
(***************************************************************************)
EXTENDS Timekeeping, Graphics, FiniteSetTheorems, SequenceTheorems, TLAPS

-----------------------------------------------------------------------------
(* The clock. *)

Inside == {"recheck", "seedQPC", "seedTGT", "mark", "leave"}
Seeding == {"seedQPC", "seedTGT", "mark"}

SeedLockHeld == \A t \in Threads : at[t] \in Inside <=> TimerSeedLock = t

\* The test under the lock: once the seeds are final nobody is about to take them again.
SeededOnce == TimersSeeded => \A t \in Threads : at[t] \notin Seeding

\* A thread that has read a later frame than the first is past the point where
\* unfinished seeds would have been left for the next thread.
PictureSeen ==
  \A t \in Threads : frame[t] > 0 => currentFrame > 0 /\ (at[t] \in {"leave", "answer"} => TimersSeeded)

SeedsKept == base # Clock!Unseeded => TimersSeeded /\ base = <<firstTimeQPC, firstTimeTGT>>

SeedsAdvance ==
  /\ firstTimeQPC <= now /\ firstTimeTGT <= now
  /\ latest[1] <= firstTimeQPC /\ latest[2] <= firstTimeTGT

ClockInv == Clock!TypeOK /\ SeedLockHeld /\ SeededOnce /\ PictureSeen /\ SeedsKept /\ SeedsAdvance

LEMMA NothingElapsed ==
  ASSUME NEW unit \in Nat
  PROVE  Clock!Elapsed(0, unit) = 0
  BY ClockAssumption, SMT DEF Clock!Elapsed

\* What a thread reads off the clock follows from the invariant.
LEMMA ClockAnswers == ClockInv => Clock!ClockFollowsFrames
<1> SUFFICES ASSUME ClockInv PROVE Clock!ClockFollowsFrames
  OBVIOUS
<1>1. SUFFICES ASSUME NEW t \in Threads, at[t] = "answer"
               PROVE  IF frame[t] > 0
                      THEN base # Clock!Unseeded =>
                             /\ Clock!QueryPerformanceCounter(t) = base[1] + Clock!Elapsed(frame[t], Frequency)
                             /\ Clock!timeGetTime(t) = base[2] + Clock!Elapsed(frame[t], 1)
                      ELSE /\ Clock!QueryPerformanceCounter(t) >= latest[1]
                           /\ Clock!timeGetTime(t) >= latest[2]
  BY DEF Clock!ClockFollowsFrames, ClockInv
<1>2. CASE frame[t] > 0
  BY <1>2 DEF ClockInv, SeedsKept, Clock!QueryPerformanceCounter, Clock!timeGetTime
<1>3. CASE ~(frame[t] > 0)
  <2>1. frame[t] = 0 /\ Frequency \in Nat
    BY <1>3, ClockAssumption DEF ClockInv, Clock!TypeOK
  <2>2. Clock!Elapsed(frame[t], Frequency) = 0 /\ Clock!Elapsed(frame[t], 1) = 0
    BY <2>1, NothingElapsed
  <2>3. /\ firstTimeQPC \in Nat /\ firstTimeTGT \in Nat /\ latest[1] \in Nat /\ latest[2] \in Nat
        /\ latest[1] <= firstTimeQPC /\ latest[2] <= firstTimeTGT
    BY ClockAssumption DEF ClockInv, SeedsAdvance, Clock!TypeOK, Clock!Times
  <2> QED
    BY <1>3, <2>2, <2>3 DEF Clock!QueryPerformanceCounter, Clock!timeGetTime
<1> QED
  BY <1>2, <1>3

\* Before the first call there is nothing to seed and nobody to ask.
LEMMA ClockInit == Clock!Init => ClockInv
<1> SUFFICES ASSUME Clock!Init PROVE ClockInv
  OBVIOUS
<1>1. Clock!TypeOK
  <2> USE ClockAssumption DEF Clock!Init
  <2>1. /\ {now, firstTimeQPC, firstTimeTGT} \subseteq Clock!Times
        /\ currentFrame \in Nat /\ timerHammeringCounter \in 0..MAX_TIMERQUERY_PER_FRAME + 1
    BY DEF Clock!Times
  <2>2. TimersSeeded \in BOOLEAN /\ TimerSeedLock \in Threads \union {NoThread} /\ skipping \subseteq Threads
    OBVIOUS
  <2>3. at \in [Threads -> Clock!Points] /\ frame \in [Threads -> Nat] /\ counted \in [Threads -> Nat]
    BY DEF Clock!Points
  <2>4. base \in {Clock!Unseeded} \union (Clock!Times \X Clock!Times) /\ latest \in Nat \X Nat
    OBVIOUS
  <2> QED
    BY <2>1, <2>2, <2>3, <2>4 DEF Clock!TypeOK
<1>2. SeedLockHeld /\ SeededOnce /\ PictureSeen
  BY ClockAssumption DEF Clock!Init, SeedLockHeld, SeededOnce, PictureSeen, Inside, Seeding
<1>3. SeedsKept /\ SeedsAdvance
  BY DEF Clock!Init, SeedsKept, SeedsAdvance
<1> QED
  BY <1>1, <1>2, <1>3 DEF ClockInv

\* The types, step by step. The counter of a frame stops one beyond its threshold.
LEMMA ClockType ==
  ASSUME Clock!TypeOK, Clock!Next PROVE Clock!TypeOK'
<1> USE ClockAssumption DEF Clock!frames, Clock!seeds, Clock!answers
<1>0. /\ {now, firstTimeQPC, firstTimeTGT} \subseteq Clock!Times
      /\ currentFrame \in Nat /\ timerHammeringCounter \in 0..MAX_TIMERQUERY_PER_FRAME + 1
      /\ TimersSeeded \in BOOLEAN /\ TimerSeedLock \in Threads \union {NoThread} /\ skipping \subseteq Threads
      /\ at \in [Threads -> Clock!Points] /\ frame \in [Threads -> Nat] /\ counted \in [Threads -> Nat]
      /\ base \in {Clock!Unseeded} \union (Clock!Times \X Clock!Times) /\ latest \in Nat \X Nat
  BY DEF Clock!TypeOK
<1>1. CASE Clock!TimePasses
  <2>1. now' \in Clock!Times
    BY <1>0, <1>1 DEF Clock!TimePasses, Clock!Times
  <2> QED
    BY <1>0, <1>1, <2>1 DEF Clock!TimePasses, Clock!TypeOK
<1>2. ASSUME NEW t \in Threads,
             Clock!Present(t) \/ Clock!skipFrame(t) \/ Clock!LoadFrame(t) \/ Clock!StoreFrame(t)
      PROVE  Clock!TypeOK'
  <2> USE DEF Clock!Go
  <2>1. at' \in [Threads -> Clock!Points]
    BY <1>0, <1>2 DEF Clock!Present, Clock!skipFrame, Clock!LoadFrame, Clock!StoreFrame, Clock!Points
  <2>2. currentFrame' \in Nat /\ counted' \in [Threads -> Nat] /\ skipping' \subseteq Threads
    BY <1>0, <1>2 DEF Clock!Present, Clock!skipFrame, Clock!LoadFrame, Clock!StoreFrame
  <2>3. UNCHANGED <<now, timerHammeringCounter, TimersSeeded, firstTimeQPC, firstTimeTGT, TimerSeedLock, frame,
                    base, latest>>
    BY <1>2 DEF Clock!Present, Clock!skipFrame, Clock!LoadFrame, Clock!StoreFrame
  <2> QED
    BY <1>0, <2>1, <2>2, <2>3 DEF Clock!TypeOK
<1>3. ASSUME NEW t \in Threads,
             Clock!EndFrame(t) \/ Clock!Query(t)
      PROVE  Clock!TypeOK'
  <2> USE DEF Clock!Go
  <2>1. at' \in [Threads -> Clock!Points]
    BY <1>0, <1>3 DEF Clock!EndFrame, Clock!Resume, Clock!Query, Clock!Points
  <2>2. timerHammeringCounter' \in 0..MAX_TIMERQUERY_PER_FRAME + 1 /\ skipping' \subseteq Threads
    BY <1>0, <1>3 DEF Clock!EndFrame, Clock!Resume, Clock!Query
  <2>3. UNCHANGED <<now, currentFrame, counted, TimersSeeded, firstTimeQPC, firstTimeTGT, TimerSeedLock, frame,
                    base, latest>>
    BY <1>3 DEF Clock!EndFrame, Clock!Resume, Clock!Query
  <2> QED
    BY <1>0, <2>1, <2>2, <2>3 DEF Clock!TypeOK
<1>4. ASSUME NEW t \in Threads,
             \/ Clock!getFrameTiming(t) \/ Clock!Test(t) \/ Clock!EnterSeedLock(t) \/ Clock!TestInside(t)
             \/ Clock!SeedTimers(t) \/ Clock!MarkSeeded(t) \/ Clock!LeaveSeedLock(t)
      PROVE  Clock!TypeOK'
  <2> USE DEF Clock!Go, Clock!getFrameTiming, Clock!Test, Clock!EnterSeedLock, Clock!TestInside, Clock!SeedTimers,
        Clock!MarkSeeded, Clock!LeaveSeedLock
  <2>1. at' \in [Threads -> Clock!Points]
    BY <1>0, <1>4 DEF Clock!Points
  <2>2. /\ frame' \in [Threads -> Nat] /\ TimersSeeded' \in BOOLEAN
        /\ TimerSeedLock' \in Threads \union {NoThread}
    BY <1>0, <1>4
  <2>3. {now', firstTimeQPC', firstTimeTGT'} \subseteq Clock!Times
    <3>1. {now, firstTimeQPC, firstTimeTGT} \subseteq Clock!Times
      BY <1>0
    <3>2. /\ now' = now /\ firstTimeQPC' \in {firstTimeQPC, now}
          /\ firstTimeTGT' \in {firstTimeTGT, now}
      BY <1>4
    <3> QED
      BY <3>1, <3>2
  <2>4. UNCHANGED <<currentFrame, timerHammeringCounter, counted, skipping, base, latest>>
    BY <1>4
  <2> QED
    BY <1>0, <2>1, <2>2, <2>3, <2>4 DEF Clock!TypeOK, Clock!Times
<1>5. ASSUME NEW t \in Threads, Clock!Answer(t)
      PROVE  Clock!TypeOK'
  <2>1. at' \in [Threads -> Clock!Points] /\ frame' \in [Threads -> Nat]
    BY <1>0, <1>5 DEF Clock!Answer, Clock!Go, Clock!Points
  <2>2. base' \in {Clock!Unseeded} \union (Clock!Times \X Clock!Times)
    BY <1>0, <1>5 DEF Clock!Answer
  <2>3. latest' \in Nat \X Nat
    <3>1. CASE frame[t] = 0
      <4>1. latest' = <<Clock!QueryPerformanceCounter(t), Clock!timeGetTime(t)>>
        BY <1>5, <3>1 DEF Clock!Answer
      <4>2. Clock!Elapsed(frame[t], Frequency) = 0 /\ Clock!Elapsed(frame[t], 1) = 0
        BY <3>1, NothingElapsed
      <4>3. firstTimeQPC \in Nat /\ firstTimeTGT \in Nat
        BY <1>0 DEF Clock!Times
      <4> QED
        BY <4>1, <4>2, <4>3 DEF Clock!QueryPerformanceCounter, Clock!timeGetTime
    <3>2. CASE frame[t] # 0
      BY <1>0, <1>5, <3>2 DEF Clock!Answer
    <3> QED
      BY <3>1, <3>2
  <2>4. UNCHANGED <<now, currentFrame, timerHammeringCounter, counted, skipping, TimersSeeded, firstTimeQPC,
                    firstTimeTGT, TimerSeedLock>>
    BY <1>5 DEF Clock!Answer
  <2> QED
    BY <1>0, <2>1, <2>2, <2>3, <2>4 DEF Clock!TypeOK
<1> QED
  BY <1>1, <1>2, <1>3, <1>4, <1>5 DEF Clock!Next, Clock!Asking, Clock!nextFrameTiming

\* The lock has one owner, and a thread that takes seeds found, under the lock, that
\* they were not final.
LEMMA SeedsUnderLock ==
  ASSUME ClockInv, Clock!Next PROVE SeedLockHeld' /\ SeededOnce'
<1> USE ClockAssumption DEF Inside, Seeding, Clock!Go
<1>0. /\ at \in [Threads -> Clock!Points] /\ SeedLockHeld /\ SeededOnce
      /\ TimerSeedLock \in Threads \union {NoThread}
  BY DEF ClockInv, Clock!TypeOK
<1>1. CASE Clock!TimePasses
  BY <1>0, <1>1 DEF Clock!TimePasses, SeedLockHeld, SeededOnce, Clock!seeds
<1>2. ASSUME NEW t \in Threads, NEW to \in Clock!Points, at[t] \notin Inside, to \notin Inside,
             at' = [at EXCEPT ![t] = to], UNCHANGED <<TimersSeeded, TimerSeedLock>>
      PROVE  SeedLockHeld' /\ SeededOnce'
  BY <1>0, <1>2 DEF SeedLockHeld, SeededOnce
<1>3. ASSUME NEW t \in Threads, Clock!EnterSeedLock(t)
      PROVE  SeedLockHeld' /\ SeededOnce'
  BY <1>0, <1>3 DEF Clock!EnterSeedLock, SeedLockHeld, SeededOnce, Clock!seeds
<1>4. ASSUME NEW t \in Threads, Clock!TestInside(t) \/ Clock!SeedTimers(t)
      PROVE  SeedLockHeld' /\ SeededOnce'
  BY <1>0, <1>4 DEF Clock!TestInside, Clock!SeedTimers, SeedLockHeld, SeededOnce, Clock!seeds
<1>5. ASSUME NEW t \in Threads, Clock!MarkSeeded(t)
      PROVE  SeedLockHeld' /\ SeededOnce'
  BY <1>0, <1>5 DEF Clock!MarkSeeded, SeedLockHeld, SeededOnce
<1>6. ASSUME NEW t \in Threads, Clock!LeaveSeedLock(t)
      PROVE  SeedLockHeld' /\ SeededOnce'
  BY <1>0, <1>6 DEF Clock!LeaveSeedLock, SeedLockHeld, SeededOnce, Clock!seeds
<1>7. ASSUME NEW t \in Threads,
             \/ Clock!Present(t) \/ Clock!nextFrameTiming(t)
             \/ Clock!Query(t) \/ Clock!skipFrame(t) \/ Clock!getFrameTiming(t) \/ Clock!Test(t) \/ Clock!Answer(t)
      PROVE  SeedLockHeld' /\ SeededOnce'
  <2>1. \E to \in Clock!Points : at[t] \notin Inside /\ to \notin Inside /\ at' = [at EXCEPT ![t] = to]
    BY <1>7 DEF Clock!Present, Clock!nextFrameTiming, Clock!LoadFrame, Clock!StoreFrame, Clock!EndFrame, Clock!Resume,
      Clock!Query, Clock!skipFrame, Clock!getFrameTiming, Clock!Test, Clock!Answer, Clock!Points
  <2>2. UNCHANGED <<TimersSeeded, TimerSeedLock>>
    BY <1>7 DEF Clock!Present, Clock!nextFrameTiming, Clock!LoadFrame, Clock!StoreFrame, Clock!EndFrame, Clock!Resume,
      Clock!Query, Clock!skipFrame, Clock!getFrameTiming, Clock!Test, Clock!Answer, Clock!seeds
  <2> QED
    BY <1>2, <2>1, <2>2
<1> QED
  BY <1>1, <1>3, <1>4, <1>5, <1>6, <1>7 DEF Clock!Next, Clock!Asking

\* Frames are counted from 0 and never come back to it, however increments are lost;
\* seeds taken after the first one stay.
LEMMA PicturesAreSeen ==
  ASSUME ClockInv, Clock!Next PROVE PictureSeen'
<1> USE ClockAssumption DEF Clock!Go, Clock!frames, Clock!seeds
<1>0. /\ at \in [Threads -> Clock!Points] /\ frame \in [Threads -> Nat] /\ counted \in [Threads -> Nat]
      /\ currentFrame \in Nat /\ PictureSeen
  BY DEF ClockInv, Clock!TypeOK
<1>1. CASE Clock!TimePasses
  BY <1>0, <1>1 DEF Clock!TimePasses, PictureSeen
<1>2. ASSUME NEW t \in Threads,
             Clock!Present(t) \/ Clock!LoadFrame(t) \/ Clock!EndFrame(t) \/ Clock!Query(t) \/ Clock!skipFrame(t)
      PROVE  PictureSeen'
  BY <1>0, <1>2 DEF Clock!Present, Clock!LoadFrame, Clock!EndFrame, Clock!Resume, Clock!Query, Clock!skipFrame,
    PictureSeen
<1>3. ASSUME NEW t \in Threads, Clock!StoreFrame(t)
      PROVE  PictureSeen'
  BY <1>0, <1>3 DEF Clock!StoreFrame, PictureSeen
<1>4. ASSUME NEW t \in Threads, Clock!getFrameTiming(t) \/ Clock!EnterSeedLock(t) \/ Clock!SeedTimers(t)
      PROVE  PictureSeen'
  BY <1>0, <1>4 DEF Clock!getFrameTiming, Clock!EnterSeedLock, Clock!SeedTimers, PictureSeen
<1>5. ASSUME NEW t \in Threads, Clock!Test(t) \/ Clock!TestInside(t) \/ Clock!LeaveSeedLock(t)
      PROVE  PictureSeen'
  BY <1>0, <1>5 DEF Clock!Test, Clock!TestInside, Clock!LeaveSeedLock, PictureSeen
<1>6. ASSUME NEW t \in Threads, Clock!MarkSeeded(t)
      PROVE  PictureSeen'
  <2>1. at' = [at EXCEPT ![t] = "leave"] /\ at[t] = "mark" /\ UNCHANGED <<currentFrame, frame>>
    BY <1>6 DEF Clock!MarkSeeded
  <2>2. currentFrame > 0 => TimersSeeded'
    <3>1. currentFrame > 0 => currentFrame # 0
      BY <1>0
    <3>2. TimersSeeded' = (currentFrame # 0)
      BY <1>6, Zenon DEF Clock!MarkSeeded
    <3> QED
      BY <3>1, <3>2, Zenon
  <2> QED
    BY <1>0, <2>1, <2>2 DEF PictureSeen
<1>7. ASSUME NEW t \in Threads, Clock!Answer(t)
      PROVE  PictureSeen'
  BY <1>0, <1>7 DEF Clock!Answer, PictureSeen
<1> QED
  BY <1>1, <1>2, <1>3, <1>4, <1>5, <1>6, <1>7 DEF Clock!Next, Clock!Asking, Clock!nextFrameTiming

\* The seeds of the first answer that has seen a picture are the last ones; until
\* then seeds only move on with the real clock.
LEMMA SeedsAreKept ==
  ASSUME ClockInv, Clock!Next PROVE SeedsKept' /\ SeedsAdvance'
<1> USE ClockAssumption DEF Clock!frames, Clock!seeds, Clock!answers
<1>0. /\ frame \in [Threads -> Nat] /\ SeededOnce /\ PictureSeen /\ SeedsKept /\ SeedsAdvance
      /\ now \in Nat /\ firstTimeQPC \in Nat /\ firstTimeTGT \in Nat
      /\ latest[1] \in Nat /\ latest[2] \in Nat
  BY DEF ClockInv, Clock!TypeOK, Clock!Times
<1>1. CASE Clock!TimePasses
  BY <1>0, <1>1 DEF Clock!TimePasses, SeedsKept, SeedsAdvance
<1>2. ASSUME UNCHANGED <<now, TimersSeeded, firstTimeQPC, firstTimeTGT, base, latest>>
      PROVE  SeedsKept' /\ SeedsAdvance'
  BY <1>0, <1>2 DEF SeedsKept, SeedsAdvance
<1>3. ASSUME NEW t \in Threads, Clock!SeedTimers(t)
      PROVE  SeedsKept' /\ SeedsAdvance'
  <2>1. at[t] \in Seeding /\ base = Clock!Unseeded
    BY <1>0, <1>3 DEF Clock!SeedTimers, Clock!Go, Seeding, SeededOnce, SeedsKept
  <2>2. base' = base /\ latest' = latest /\ now' = now
    BY <1>3 DEF Clock!SeedTimers
  <2>3. firstTimeQPC' \in {firstTimeQPC, now} /\ firstTimeTGT' \in {firstTimeTGT, now}
    BY <1>3 DEF Clock!SeedTimers
  <2> QED
    BY <1>0, <2>1, <2>2, <2>3 DEF SeedsKept, SeedsAdvance
<1>4. ASSUME NEW t \in Threads, Clock!MarkSeeded(t)
      PROVE  SeedsKept' /\ SeedsAdvance'
  <2>1. at[t] \in Seeding /\ base = Clock!Unseeded
    BY <1>0, <1>4 DEF Clock!MarkSeeded, Clock!Go, Seeding, SeededOnce, SeedsKept
  <2> QED
    BY <1>0, <1>4, <2>1 DEF Clock!MarkSeeded, SeedsKept, SeedsAdvance
<1>5. ASSUME NEW t \in Threads, Clock!Answer(t)
      PROVE  SeedsKept' /\ SeedsAdvance'
  <2>1. UNCHANGED <<now, TimersSeeded, firstTimeQPC, firstTimeTGT>>
    BY <1>5 DEF Clock!Answer
  <2>2. SeedsKept'
    BY <1>0, <1>5, <2>1 DEF Clock!Answer, Clock!Go, PictureSeen, SeedsKept
  <2>3. CASE frame[t] = 0
    <3>1. latest' = <<firstTimeQPC + Clock!Elapsed(0, Frequency), firstTimeTGT + Clock!Elapsed(0, 1)>>
      BY <1>5, <2>3 DEF Clock!Answer, Clock!QueryPerformanceCounter, Clock!timeGetTime
    <3>2. latest' = <<firstTimeQPC, firstTimeTGT>>
      BY <1>0, <3>1, NothingElapsed
    <3> QED
      BY <1>0, <2>1, <2>2, <3>2 DEF SeedsAdvance
  <2>4. CASE frame[t] # 0
    BY <1>0, <1>5, <2>1, <2>2, <2>4 DEF Clock!Answer, SeedsAdvance
  <2> QED
    BY <2>3, <2>4
<1>6. ASSUME NEW t \in Threads,
             \/ Clock!Present(t) \/ Clock!nextFrameTiming(t)
             \/ Clock!Query(t) \/ Clock!skipFrame(t) \/ Clock!getFrameTiming(t) \/ Clock!Test(t)
             \/ Clock!EnterSeedLock(t) \/ Clock!TestInside(t) \/ Clock!LeaveSeedLock(t)
      PROVE  UNCHANGED <<now, TimersSeeded, firstTimeQPC, firstTimeTGT, base, latest>>
  BY <1>6 DEF Clock!Present, Clock!nextFrameTiming, Clock!LoadFrame, Clock!StoreFrame, Clock!EndFrame, Clock!Resume,
    Clock!Query, Clock!skipFrame, Clock!getFrameTiming, Clock!Test, Clock!EnterSeedLock, Clock!TestInside,
    Clock!LeaveSeedLock
<1> QED
  BY <1>1, <1>2, <1>3, <1>4, <1>5, <1>6 DEF Clock!Next, Clock!Asking

LEMMA ClockStep ==
  ASSUME ClockInv, Clock!Next PROVE ClockInv'
  BY ClockType, SeedsUnderLock, PicturesAreSeen, SeedsAreKept DEF ClockInv

\* The program's clocks follow the pictures, whichever of its threads ask and present.
THEOREM ClockCorrect == TimeSpec => []ClockFollowsFrames
<1> DEFINE Inv == asks => ClockInv
<1>1. TimeInit => Inv
  BY ClockInit DEF TimeInit
<1>2. Inv /\ [TimeNext]_allVars => Inv'
  <2> SUFFICES ASSUME Inv, [TimeNext]_allVars, asks' PROVE ClockInv'
    OBVIOUS
  <2>1. CASE Asks(Clock!Next)
    BY <2>1, ClockStep DEF Asks
  <2>2. CASE IsCalled(Next)
    BY <2>2 DEF IsCalled
  <2>3. CASE UNCHANGED allVars
    <3>1. ClockInv
      BY <2>3 DEF allVars
    <3>2. UNCHANGED <<currentFrame, clock>>
      BY <2>3 DEF allVars
    <3> QED
      BY <3>1, <3>2 DEF clock, ClockInv, Clock!TypeOK, SeedLockHeld, SeededOnce, PictureSeen, SeedsKept, SeedsAdvance
  <2> QED
    BY <2>1, <2>2, <2>3 DEF TimeNext
<1>3. Inv => ClockFollowsFrames
  BY ClockAnswers DEF ClockFollowsFrames
<1> QED
  BY <1>1, <1>2, <1>3, PTL DEF TimeSpec

-----------------------------------------------------------------------------
(* The timers. *)

\* The time up to which a timer has been brought: ProcessEventTimers moves the slots
\* it has passed on to the next frame.
TimeSeen(i) ==
  IF pc # "idle" /\ (i < slot \/ (i = slot /\ pc \in {"test", "callback"}))
  THEN TimeOf(currentFrame + 1) ELSE TimeOf(currentFrame)

\* The number of periods its Counter counts down to the end of.
Owed(i) == IF pc = "callback" /\ i = slot THEN fired[i] ELSE fired[i] + 1

\* A timer that is waiting has as much left of its period as has not passed since it
\* was set; it is overdue only while it is being looked at. One that is dead has
\* fired once, not too early.
KeepsTime(i) ==
  IF Dead[i]
  THEN /\ ~Periodic[i] /\ fired[i] = 1 /\ TimeSeen(i) - Start(i) >= Delay[i]
       /\ i = slot => pc \notin {"test", "callback"}
  ELSE /\ Counter[i] + (TimeSeen(i) - Start(i)) = Owed(i) * Delay[i]
       /\ Counter[i] <= Delay[i]
       /\ i = slot /\ pc = "callback" => Counter[i] <= 0 /\ fired[i] > 0
       /\ ~(i = slot /\ pc \in {"test", "callback"}) => Counter[i] > 0
       /\ ~Periodic[i] => Owed(i) = 1

TimersKept ==
  \A i \in Slots : Used[i] /\ setDuring[i] # "callback" =>
    Delay[i] > 0 /\ Start(i) <= TimeSeen(i) /\ KeepsTime(i)

\* Where ProcessEventTimers is.
Underway ==
  /\ pc = "idle" => slot = 0
  /\ pc \in {"test", "callback"} => slot < MaxEventTimers
  /\ pc = "left" => slot = MaxEventTimers

TimersInv == TypeOK /\ Underway /\ TimersKept

\* Division by what is left over: a quotient and a remainder below the divisor.
LEMMA Quotient ==
  ASSUME NEW q \in Nat, NEW d \in Nat, d > 0, NEW r \in Nat, r < d
  PROVE  (q * d + r) \div d = q
  OBVIOUS

LEMMA QuotientGrows ==
  ASSUME NEW a \in Nat, NEW c \in Nat, NEW d \in Nat, d > 0
  PROVE  a \div d \in Nat /\ a \div d <= (a + c) \div d
  OBVIOUS

\* Frames do not take time back.
LEMMA TimeMoves ==
  ASSUME NEW f \in Nat
  PROVE  TimeOf(f) \in Nat /\ TimeOf(f + 1) \in Nat /\ TimeOf(f) <= TimeOf(f + 1)
<1>1. Millis \in Nat /\ FrameSpan \in Nat /\ FrameSpan > 0 /\ f * Millis \in Nat
  BY TimersAssumption
<1>2. (f + 1) * Millis = f * Millis + Millis /\ (f + 1) * Millis \in Nat
  BY <1>1
<1>3. (f * Millis) \div FrameSpan <= (f * Millis + Millis) \div FrameSpan
      /\ (f * Millis) \div FrameSpan \in Nat
  BY <1>1, QuotientGrows
<1>4. ((f + 1) * Millis) \div FrameSpan \in Nat
  BY <1>1, <1>2, QuotientGrows
<1> QED
  BY <1>2, <1>3, <1>4 DEF TimeOf

\* So no timer is counted from before time began.
LEMMA StartIsTime ==
  ASSUME TypeOK, NEW i \in Slots
  PROVE  Start(i) \in Nat /\ (setDuring[i] # "left" => Start(i) = TimeOf(setIn[i]))
<1>1. setIn[i] \in Nat /\ setIn[i] + 1 \in Nat
  BY DEF TypeOK
<1> QED
  BY <1>1, TimeMoves DEF Start

\* Between two frames the invariant says how often a timer has fired.
LEMMA TimersFired == TimersInv => FiredOnTime
<1> SUFFICES ASSUME TimersInv PROVE FiredOnTime
  OBVIOUS
<1>1. SUFFICES ASSUME pc = "idle", NEW i \in Slots, Used[i], setDuring[i] # "callback"
               PROVE  LET due == (TimeOf(currentFrame) - Start(i)) \div Delay[i]
                      IN  fired[i] = IF Periodic[i] \/ due = 0 THEN due ELSE 1
  BY DEF FiredOnTime, TimersInv
<1> DEFINE span == TimeOf(currentFrame) - Start(i)
           due == span \div Delay[i]
<1>2. /\ Delay[i] \in Nat /\ Delay[i] > 0 /\ Start(i) \in Nat /\ fired[i] \in Nat /\ Counter[i] \in Int
      /\ TimeOf(currentFrame) \in Nat /\ Start(i) <= TimeOf(currentFrame) /\ KeepsTime(i)
      /\ TimeSeen(i) = TimeOf(currentFrame) /\ Owed(i) = fired[i] + 1
  <2>1. Start(i) \in Nat
    BY StartIsTime DEF TimersInv
  <2> QED
    BY <1>1, <2>1, TimeMoves DEF TimersInv, TimersKept, TypeOK, TimeSeen, Owed
<1>3. span \in Nat
  BY <1>2
<1>4. CASE Dead[i]
  <2>1. ~Periodic[i] /\ fired[i] = 1 /\ span >= Delay[i]
    BY <1>2, <1>4 DEF KeepsTime
  <2>2. due # 0
    <3>1. Delay[i] \div Delay[i] = 1
      <4>1. (1 * Delay[i] + 0) \div Delay[i] = 1
        BY <1>2, Quotient
      <4> QED
        BY <1>2, <4>1
    <3>2. span = Delay[i] + (span - Delay[i]) /\ span - Delay[i] \in Nat
      BY <1>2, <1>3, <2>1
    <3>3. Delay[i] \div Delay[i] <= (Delay[i] + (span - Delay[i])) \div Delay[i]
      BY <1>2, <3>2, QuotientGrows
    <3> QED
      BY <3>1, <3>2, <3>3
  <2> QED
    BY <2>1, <2>2
<1>5. CASE ~Dead[i]
  <2>1. /\ Counter[i] + span = (fired[i] + 1) * Delay[i] /\ Counter[i] > 0
        /\ ~Periodic[i] => fired[i] = 0
    BY <1>1, <1>2, <1>5 DEF KeepsTime
  <2>2. span = fired[i] * Delay[i] + (Delay[i] - Counter[i])
    BY <1>2, <2>1
  <2>3. Delay[i] - Counter[i] \in Nat /\ Delay[i] - Counter[i] < Delay[i]
    BY <1>2, <1>5, <2>1 DEF KeepsTime
  <2>4. due = fired[i]
    BY <1>2, <2>2, <2>3, Quotient
  <2> QED
    BY <2>1, <2>4
<1> QED
  BY <1>4, <1>5

LEMMA TimersType ==
  ASSUME TypeOK, Underway, Next PROVE TypeOK' /\ Underway'
<1> USE TimersAssumption DEF TypeOK, Underway, fields, history, Slots
<1>1. ASSUME NEW d \in Delays, timeSetEvent(d) PROVE TypeOK' /\ Underway'
  <2>1. PICK i \in Slots, periodic \in BOOLEAN : FillSlot(i, d, periodic)
    BY <1>1 DEF timeSetEvent
  <2>2. pc \in {"idle", "callback", "left"}
    BY <2>1 DEF FillSlot
  <2>3. /\ Used' \in [Slots -> BOOLEAN] /\ Dead' \in [Slots -> BOOLEAN]
        /\ Periodic' \in [Slots -> BOOLEAN] /\ setDuring' \in [Slots -> {"idle", "callback", "left"}]
    BY <2>1, <2>2 DEF FillSlot
  <2>4. /\ Counter' \in [Slots -> Int] /\ Delay' \in [Slots -> Nat]
        /\ setIn' \in [Slots -> Nat] /\ fired' \in [Slots -> Nat]
    BY <2>1 DEF FillSlot
  <2> QED
    BY <2>1, <2>2, <2>3, <2>4 DEF FillSlot
<1>2. ASSUME NEW i \in Slots, timeKillEvent(i) PROVE TypeOK' /\ Underway'
  BY <1>2 DEF timeKillEvent
<1>3. CASE BeginProcess
  BY <1>3 DEF BeginProcess
<1>4. CASE Visit
  <2>0. TimeOf(currentFrame) \in Nat /\ TimeOf(currentFrame + 1) \in Nat
    BY TimeMoves
  <2>1. TimeElapsed \in Int
    BY <2>0 DEF TimeElapsed
  <2>2. Counter' \in [Slots -> Int]
    BY <1>4, <2>1 DEF Visit
  <2>3. slot' \in 0..MaxEventTimers /\ pc' \in {"test", "visit"} /\ (pc' = "test" => slot' < MaxEventTimers)
    BY <1>4 DEF Visit
  <2>4. UNCHANGED <<Used, Dead, Delay, Periodic, currentFrame, setIn, fired, setDuring>>
    BY <1>4 DEF Visit
  <2> QED
    BY <2>2, <2>3, <2>4
<1>5. CASE FireTimer
  <2>0. slot \in Slots /\ fired[slot] + 1 \in Nat /\ fired' = [fired EXCEPT ![slot] = fired[slot] + 1]
    BY <1>5 DEF FireTimer
  <2>1. fired' \in [Slots -> Nat]
    BY <2>0
  <2> QED
    BY <1>5, <2>1 DEF FireTimer
<1>6. CASE NotDue
  BY <1>6 DEF NotDue
<1>7. CASE AfterCallback
  <2>1. Counter' \in [Slots -> Int]
    BY <1>7 DEF AfterCallback
  <2>2. Dead' \in [Slots -> BOOLEAN]
    BY <1>7 DEF AfterCallback
  <2> QED
    BY <1>7, <2>1, <2>2 DEF AfterCallback
<1>8. CASE EndProcess
  BY <1>8 DEF EndProcess
<1>9. CASE CountFrame
  BY <1>9 DEF CountFrame
<1> QED
  BY <1>1, <1>2, <1>3, <1>4, <1>5, <1>6, <1>7, <1>8, <1>9 DEF Next, ProcessEventTimers

\* A step that leaves a timer's fields alone and moves it neither on in time nor
\* through its callback.
LEMMA Untouched ==
  ASSUME NEW j \in Slots, KeepsTime(j),
         Dead'[j] = Dead[j], Periodic'[j] = Periodic[j], Counter'[j] = Counter[j], Delay'[j] = Delay[j],
         Start(j)' = Start(j), fired'[j] = fired[j],
         TimeSeen(j)' = TimeSeen(j),
         j = slot \/ j = slot' => pc \notin {"test", "callback"} /\ pc' \notin {"test", "callback"}
  PROVE  KeepsTime(j)'
<1>1. Owed(j)' = Owed(j)
  BY DEF Owed
<1>2. CASE Dead[j]
  BY <1>2 DEF KeepsTime
<1>3. CASE ~Dead[j]
  <2>1. Counter'[j] + (TimeSeen(j)' - Start(j)') = Owed(j)' * Delay'[j]
    BY <1>1, <1>3 DEF KeepsTime
  <2>2. Counter'[j] <= Delay'[j] /\ (~Periodic'[j] => Owed(j)' = 1)
    BY <1>1, <1>3 DEF KeepsTime
  <2>3. ~Dead'[j] /\ ~(j = slot' /\ pc' = "callback")
    BY <1>3
  <2>4. ~(j = slot' /\ pc' \in {"test", "callback"}) => Counter'[j] > 0
    BY <1>3 DEF KeepsTime
  <2> QED
    BY <2>1, <2>2, <2>3, <2>4 DEF KeepsTime
<1> QED
  BY <1>2, <1>3

\* The program's calls concern one slot.
LEMMA SetAndKillKeep ==
  ASSUME TimersInv,
         (\E d \in Delays : timeSetEvent(d)) \/ (\E i \in Slots : timeKillEvent(i))
  PROVE  TimersKept'
<1> USE DEF history, fields
<1>0. TypeOK /\ Underway /\ TimersKept /\ TimeOf(currentFrame) \in Nat /\ TimeOf(currentFrame + 1) \in Nat
  BY TimeMoves DEF TimersInv, TypeOK
<1>1. ASSUME NEW d \in Delays, timeSetEvent(d) PROVE TimersKept'
  <2>1. PICK i \in Slots, periodic \in BOOLEAN : FillSlot(i, d, periodic)
    BY <1>1 DEF timeSetEvent
  <2>2. d \in Nat /\ d > 0
    BY <1>1, TimersAssumption DEF timeSetEvent
  <2>3. UNCHANGED <<currentFrame, pc, slot>> /\ pc \in {"idle", "callback", "left"} /\ ~Used[i]
    BY <2>1 DEF FillSlot
  <2>4. SUFFICES ASSUME NEW j \in Slots, Used'[j], setDuring'[j] # "callback"
                 PROVE  Delay'[j] > 0 /\ Start(j)' <= TimeSeen(j)' /\ KeepsTime(j)'
    BY DEF TimersKept
  <2>5. CASE j = i
    <3>1. /\ ~Dead'[j] /\ Counter'[j] = d /\ Delay'[j] = d /\ fired'[j] = 0
          /\ setIn'[j] = currentFrame /\ setDuring'[j] = pc /\ pc # "callback"
      BY <1>0, <2>1, <2>4, <2>5 DEF FillSlot, TypeOK
    <3>2. ASSUME pc = "idle" PROVE Start(j)' \in Nat /\ TimeSeen(j)' = Start(j)'
      <4>1. Start(j)' = TimeOf(currentFrame) /\ TimeSeen(j)' = TimeOf(currentFrame)
        BY <2>3, <3>1, <3>2 DEF TimeSeen, Start, TimeOf
      <4> QED
        BY <1>0, <4>1
    <3>3. ASSUME pc = "left" PROVE Start(j)' \in Nat /\ TimeSeen(j)' = Start(j)'
      <4>1. j < slot'
        BY <1>0, <2>3, <3>3, TimersAssumption DEF Underway, Slots
      <4>2. Start(j)' = TimeOf(currentFrame + 1) /\ TimeSeen(j)' = TimeOf(currentFrame + 1)
        BY <2>3, <3>1, <3>3, <4>1 DEF TimeSeen, Start, TimeOf
      <4> QED
        BY <1>0, <4>2
    <3>4. Start(j)' \in Nat /\ TimeSeen(j)' = Start(j)'
      BY <2>3, <3>1, <3>2, <3>3
    <3>5. Owed(j)' = 1
      BY <2>3, <3>1 DEF Owed
    <3>6. Counter'[j] + (TimeSeen(j)' - Start(j)') = Owed(j)' * Delay'[j]
      BY <2>2, <3>1, <3>4, <3>5
    <3> QED
      BY <2>2, <2>3, <3>1, <3>4, <3>5, <3>6 DEF KeepsTime
  <2>6. CASE j # i
    <3>1. /\ Dead'[j] = Dead[j] /\ Periodic'[j] = Periodic[j] /\ Counter'[j] = Counter[j]
          /\ Delay'[j] = Delay[j] /\ setIn'[j] = setIn[j] /\ setDuring'[j] = setDuring[j]
          /\ fired'[j] = fired[j] /\ Used[j] /\ setDuring[j] # "callback"
      BY <1>0, <2>1, <2>4, <2>6 DEF FillSlot, TypeOK
    <3>2. TimeSeen(j)' = TimeSeen(j) /\ Start(j)' = Start(j) /\ Owed(j)' = Owed(j)
      BY <2>3, <3>1 DEF TimeSeen, Start, TimeOf, Owed
    <3>3. Delay[j] > 0 /\ Start(j) <= TimeSeen(j) /\ KeepsTime(j)
      BY <1>0, <3>1 DEF TimersKept
    <3> QED
      BY <2>3, <3>1, <3>2, <3>3 DEF KeepsTime
  <2> QED
    BY <2>5, <2>6
<1>2. ASSUME NEW i \in Slots, timeKillEvent(i) PROVE TimersKept'
  <2>1. UNCHANGED <<Dead, Counter, Delay, Periodic, currentFrame, pc, slot, setIn, fired, setDuring>>
    BY <1>2 DEF timeKillEvent
  <2>2. ASSUME NEW j \in Slots, Used'[j] PROVE Used[j]
    BY <1>0, <1>2, <2>2 DEF timeKillEvent, TypeOK
  <2>3. \A j \in Slots : KeepsTime(j)' = KeepsTime(j)
    BY <2>1 DEF KeepsTime, TimeSeen, Start, Owed, TimeOf
  <2>4. \A j \in Slots : Start(j)' = Start(j) /\ TimeSeen(j)' = TimeSeen(j)
    BY <2>1 DEF TimeSeen, Start, TimeOf
  <2> QED
    BY <1>0, <2>1, <2>2, <2>3, <2>4 DEF TimersKept
<1> QED
  BY <1>1, <1>2

\* No step takes back the time a timer has been brought to.
LEMMA TimeSeenGrows ==
  ASSUME TypeOK, Underway, BeginProcess \/ ProcessEventTimers \/ CountFrame, NEW j \in Slots
  PROVE  TimeSeen(j) \in Nat /\ TimeSeen(j)' \in Nat /\ TimeSeen(j) <= TimeSeen(j)'
<1>0. /\ TimeOf(currentFrame) \in Nat /\ TimeOf(currentFrame + 1) \in Nat
      /\ TimeOf(currentFrame) <= TimeOf(currentFrame + 1)
      /\ j \in Nat /\ slot \in Nat
  <2>1. currentFrame \in Nat /\ j \in Nat /\ slot \in Nat
    BY TimersAssumption DEF TypeOK, Slots
  <2> QED
    BY <2>1, TimeMoves
<1>1. CASE CountFrame
  <2>1. TimeSeen(j)' = TimeOf(currentFrame + 1)
    BY <1>1 DEF CountFrame, TimeSeen, TimeOf
  <2> QED
    BY <1>0, <2>1 DEF TimeSeen
<1>2. CASE BeginProcess
  <2>1. currentFrame' = currentFrame /\ pc = "idle"
    BY <1>2 DEF BeginProcess
  <2>2. TimeSeen(j) = TimeOf(currentFrame)
        /\ TimeSeen(j)' \in {TimeOf(currentFrame), TimeOf(currentFrame + 1)}
    BY <2>1 DEF TimeSeen, TimeOf
  <2> QED
    BY <1>0, <2>2
<1>3. CASE ProcessEventTimers
  <2>1. /\ currentFrame' = currentFrame /\ pc # "idle" /\ pc' # "idle"
        /\ \/ slot' = slot /\ (pc \in {"test", "callback"} => pc' \in {"test", "callback"})
           \/ slot' = slot + 1
    BY <1>3 DEF ProcessEventTimers, Visit, FireTimer, NotDue, AfterCallback, EndProcess
  <2>2. j < slot \/ (j = slot /\ pc \in {"test", "callback"}) =>
          j < slot' \/ (j = slot' /\ pc' \in {"test", "callback"})
    BY <1>0, <2>1
  <2>3. TimeSeen(j)' = TimeOf(currentFrame + 1) \/ TimeSeen(j)' = TimeSeen(j)
    BY <2>1, <2>2 DEF TimeSeen, TimeOf
  <2>4. TimeSeen(j) \in {TimeOf(currentFrame), TimeOf(currentFrame + 1)}
    BY DEF TimeSeen
  <2> QED
    BY <1>0, <2>3, <2>4
<1> QED
  BY <1>1, <1>2, <1>3

\* ProcessEventTimers, slot by slot.
LEMMA ProcessKeeps ==
  ASSUME TimersInv, BeginProcess \/ ProcessEventTimers \/ CountFrame
  PROVE  TimersKept'
<1> USE DEF history, fields
<1>0. /\ TypeOK /\ Underway /\ TimersKept
      /\ TimeOf(currentFrame) \in Nat /\ TimeOf(currentFrame + 1) \in Nat
      /\ TimeOf(currentFrame) <= TimeOf(currentFrame + 1)
      /\ slot \in Nat /\ MaxEventTimers \in Nat /\ \A j \in Slots : j \in Nat /\ j < MaxEventTimers
  <2>1. TypeOK /\ Underway /\ TimersKept /\ currentFrame \in Nat
    BY DEF TimersInv, TypeOK
  <2>2. slot \in Nat /\ MaxEventTimers \in Nat /\ \A j \in Slots : j \in Nat /\ j < MaxEventTimers
    BY <2>1, TimersAssumption DEF TypeOK, Slots
  <2> QED
    BY <2>1, <2>2, TimeMoves
<1>u. UNCHANGED <<Used, Delay, Periodic, setDuring, setIn>>
  BY DEF BeginProcess, ProcessEventTimers, Visit, FireTimer, NotDue, AfterCallback, EndProcess, CountFrame
<1>s. \A j \in Slots : Start(j)' = Start(j) /\ Start(j) \in Nat
  BY <1>0, <1>u, StartIsTime DEF Start, TimeOf
<1>1. SUFFICES ASSUME NEW j \in Slots, Used[j], setDuring[j] # "callback",
                      Delay[j] > 0, Start(j) <= TimeSeen(j), KeepsTime(j)
               PROVE  KeepsTime(j)'
  <2>1. ASSUME NEW j \in Slots, Start(j) <= TimeSeen(j) PROVE Start(j)' <= TimeSeen(j)'
    BY <1>0, <1>s, <2>1, TimeSeenGrows
  <2> QED
    BY <1>0, <1>u, <2>1 DEF TimersKept
<1>k. UNCHANGED <<Used, Delay, Periodic, setDuring>> /\ Start(j)' = Start(j)
  BY <1>u, <1>s
<1>n. /\ j \in Nat /\ j < MaxEventTimers /\ Start(j) \in Nat /\ fired[j] \in Nat /\ Counter[j] \in Int
      /\ Delay[j] \in Nat
  BY <1>0, <1>s DEF TypeOK
<1>c. ASSUME currentFrame' = currentFrame
      PROVE  TimeOf(currentFrame)' = TimeOf(currentFrame) /\ TimeOf(currentFrame + 1)' = TimeOf(currentFrame + 1)
  BY <1>c DEF TimeOf
<1>2. CASE BeginProcess
  <2>1. pc = "idle" /\ pc' = "visit" /\ slot' = 0 /\ slot = 0
        /\ UNCHANGED <<Dead, Counter, currentFrame, fired>>
    BY <1>0, <1>2 DEF BeginProcess, Underway
  <2>2. TimeSeen(j)' = TimeSeen(j)
    BY <1>c, <1>n, <2>1 DEF TimeSeen
  <2> QED
    BY <1>1, <1>c, <1>k, <2>1, <2>2, Untouched
<1>3. CASE Visit
  <2>0. pc = "visit" /\ slot < MaxEventTimers /\ UNCHANGED <<Dead, currentFrame, fired>>
    BY <1>3 DEF Visit
  <2>1. CASE Used[slot] /\ ~Dead[slot]
    <3>1. pc' = "test" /\ slot' = slot /\ Counter' = [Counter EXCEPT ![slot] = @ - TimeElapsed]
      BY <1>3, <2>1 DEF Visit
    <3>2. CASE j = slot
      <4>1. Counter'[j] = Counter[j] - (TimeOf(currentFrame + 1) - TimeOf(currentFrame))
        BY <1>0, <3>1, <3>2 DEF TypeOK, TimeElapsed
      <4>2. TimeSeen(j) = TimeOf(currentFrame) /\ TimeSeen(j)' = TimeOf(currentFrame + 1)
        BY <1>c, <1>n, <2>0, <3>1, <3>2 DEF TimeSeen
      <4>3. Owed(j)' = Owed(j) /\ Owed(j) = fired[j] + 1
        BY <2>0, <3>1 DEF Owed
      <4>4. /\ Counter[j] + (TimeSeen(j) - Start(j)) = Owed(j) * Delay[j] /\ Counter[j] <= Delay[j]
            /\ ~Periodic[j] => Owed(j) = 1
        BY <1>1, <2>1, <3>2 DEF KeepsTime
      <4>5. Counter'[j] + (TimeSeen(j)' - Start(j)) = Owed(j)' * Delay[j] /\ Counter'[j] <= Delay[j]
        <5> HIDE DEF TimeElapsed
        <5>1. Counter'[j] + (TimeSeen(j)' - Start(j)) = Counter[j] + (TimeSeen(j) - Start(j))
          BY <1>0, <1>n, <4>1, <4>2
        <5>2. Counter'[j] <= Delay[j]
          BY <1>0, <1>n, <4>1, <4>4
        <5> QED
          BY <4>3, <4>4, <5>1, <5>2
      <4> QED
        BY <1>1, <1>c, <1>k, <2>0, <2>1, <3>1, <3>2, <4>3, <4>4, <4>5 DEF KeepsTime
    <3>3. CASE j # slot
      <4>1. Counter'[j] = Counter[j]
        BY <1>0, <3>1, <3>3 DEF TypeOK
      <4>2. TimeSeen(j)' = TimeSeen(j)
        BY <1>c, <1>n, <2>0, <3>1, <3>3 DEF TimeSeen
      <4> QED
        BY <1>1, <1>c, <1>k, <2>0, <3>1, <3>3, <4>1, <4>2, Untouched
    <3> QED
      BY <3>2, <3>3
  <2>2. CASE ~(Used[slot] /\ ~Dead[slot])
    <3>1. pc' = pc /\ slot' = slot + 1 /\ Counter' = Counter
      BY <1>3, <2>2 DEF Visit
    <3>2. CASE j = slot
      <4>1. Dead[j] /\ ~Periodic[j] /\ fired[j] = 1 /\ TimeSeen(j) - Start(j) >= Delay[j]
        BY <1>1, <2>2, <3>2 DEF KeepsTime
      <4>2. TimeSeen(j) = TimeOf(currentFrame) /\ TimeSeen(j)' = TimeOf(currentFrame + 1)
        BY <1>0, <1>c, <1>n, <2>0, <3>1, <3>2 DEF TimeSeen
      <4>3. TimeSeen(j)' - Start(j) >= Delay[j]
        BY <1>0, <1>n, <4>1, <4>2
      <4> QED
        BY <1>1, <1>c, <1>k, <2>0, <3>1, <4>1, <4>3 DEF KeepsTime
    <3>3. CASE j # slot
      <4>1. TimeSeen(j)' = TimeSeen(j)
        BY <1>0, <1>c, <1>n, <2>0, <3>1, <3>3 DEF TimeSeen
      <4> QED
        BY <1>1, <1>c, <1>k, <2>0, <3>1, <4>1, Untouched
    <3> QED
      BY <3>2, <3>3
  <2> QED
    BY <2>1, <2>2
<1>4. CASE FireTimer
  <2>1. /\ pc = "test" /\ pc' = "callback" /\ slot' = slot /\ Counter[slot] <= 0
        /\ fired' = [fired EXCEPT ![slot] = @ + 1] /\ UNCHANGED <<Dead, Counter, currentFrame>>
    BY <1>4 DEF FireTimer
  <2>2. TimeSeen(j)' = TimeSeen(j)
    BY <1>c, <2>1 DEF TimeSeen
  <2>3. CASE j = slot
    <3>1. fired'[j] = fired[j] + 1 /\ Owed(j)' = Owed(j)
      BY <1>0, <2>1, <2>3 DEF Owed, TypeOK
    <3>2. ~Dead[j] /\ fired'[j] > 0
      BY <1>1, <1>n, <2>1, <2>3, <3>1 DEF KeepsTime
    <3> QED
      BY <1>1, <1>c, <1>k, <2>1, <2>2, <2>3, <3>1, <3>2 DEF KeepsTime
  <2>4. CASE j # slot
    <3>1. fired'[j] = fired[j]
      BY <1>0, <2>1, <2>4 DEF TypeOK
    <3> QED
      BY <1>1, <1>c, <1>k, <2>1, <2>2, <2>4, <3>1, Untouched
  <2> QED
    BY <2>3, <2>4
<1>5. CASE NotDue
  <2>1. /\ pc = "test" /\ pc' = "visit" /\ slot' = slot + 1 /\ Counter[slot] > 0
        /\ UNCHANGED <<Dead, Counter, fired, currentFrame>>
    BY <1>5 DEF NotDue
  <2>2. TimeSeen(j)' = TimeSeen(j) /\ Owed(j)' = Owed(j)
    BY <1>0, <1>c, <1>n, <2>1 DEF TimeSeen, Owed
  <2> QED
    BY <1>1, <1>c, <1>k, <2>1, <2>2 DEF KeepsTime
<1>6. CASE AfterCallback
  <2>0. pc = "callback" /\ UNCHANGED <<currentFrame, fired>>
    BY <1>6 DEF AfterCallback
  <2>1. CASE j # slot
    <3>1. Counter'[j] = Counter[j] /\ Dead'[j] = Dead[j]
      BY <1>0, <1>6, <2>1 DEF AfterCallback, TypeOK
    <3>2. pc' \in {"test", "visit"} /\ slot' = IF pc' = "test" THEN slot ELSE slot + 1
      BY <1>6 DEF AfterCallback
    <3>3. TimeSeen(j)' = TimeSeen(j) /\ Owed(j)' = Owed(j)
      BY <1>0, <1>c, <1>n, <2>0, <2>1, <3>2 DEF TimeSeen, Owed
    <3> QED
      BY <1>1, <1>c, <1>k, <2>0, <2>1, <3>1, <3>2, <3>3 DEF KeepsTime
  <2>2. CASE j = slot
    <3>1. /\ ~Dead[j] /\ Counter[j] + (TimeSeen(j) - Start(j)) = fired[j] * Delay[j]
          /\ Counter[j] <= 0 /\ fired[j] > 0 /\ (~Periodic[j] => fired[j] = 1)
          /\ TimeSeen(j) = TimeOf(currentFrame + 1)
      BY <1>1, <2>0, <2>2 DEF KeepsTime, Owed, TimeSeen
    <3>2. CASE Periodic[slot]
      <4>1. pc' = "test" /\ slot' = slot /\ Dead' = Dead /\ Counter'[j] = Counter[j] + Delay[j]
        BY <1>0, <1>6, <2>2, <3>2 DEF AfterCallback, TypeOK
      <4>2. TimeSeen(j)' = TimeSeen(j) /\ Owed(j)' = fired[j] + 1
        BY <1>c, <2>0, <2>2, <4>1 DEF TimeSeen, Owed
      <4>3. (fired[j] + 1) * Delay[j] = fired[j] * Delay[j] + Delay[j]
        BY <1>n
      <4>4. Counter'[j] + (TimeSeen(j)' - Start(j)) = Owed(j)' * Delay[j] /\ Counter'[j] <= Delay[j]
        BY <1>0, <1>n, <3>1, <4>1, <4>2, <4>3
      <4> QED
        BY <1>1, <1>c, <1>k, <2>0, <2>2, <3>1, <3>2, <4>1, <4>4 DEF KeepsTime
    <3>3. CASE ~Periodic[slot]
      <4>1. pc' = "visit" /\ slot' = slot + 1 /\ Dead'[j]
        BY <1>0, <1>6, <2>2, <3>3 DEF AfterCallback, TypeOK
      <4>2. TimeSeen(j)' = TimeSeen(j)
        BY <1>0, <1>c, <1>n, <2>0, <2>2, <4>1 DEF TimeSeen
      <4>3. TimeSeen(j)' - Start(j) >= Delay[j]
        BY <1>0, <1>n, <2>2, <3>1, <3>3, <4>2
      <4> QED
        BY <1>1, <1>c, <1>k, <2>0, <2>2, <3>1, <3>3, <4>1, <4>3 DEF KeepsTime
    <3> QED
      BY <3>2, <3>3
  <2> QED
    BY <2>1, <2>2
<1>7. CASE EndProcess
  <2>1. pc = "visit" /\ pc' = "left" /\ UNCHANGED <<Dead, Counter, currentFrame, slot, fired>>
    BY <1>7 DEF EndProcess
  <2>2. TimeSeen(j)' = TimeSeen(j)
    BY <1>c, <2>1 DEF TimeSeen
  <2> QED
    BY <1>1, <1>c, <1>k, <2>1, <2>2, Untouched
<1>8. CASE CountFrame
  <2>1. /\ pc = "left" /\ pc' = "idle" /\ slot = MaxEventTimers /\ slot' = 0
        /\ currentFrame' = currentFrame + 1 /\ UNCHANGED <<Dead, Counter, fired>>
    BY <1>0, <1>8 DEF CountFrame, Underway
  <2>2. TimeSeen(j) = TimeOf(currentFrame + 1) /\ TimeOf(currentFrame)' = TimeOf(currentFrame + 1)
    BY <1>n, <2>1 DEF TimeSeen, TimeOf
  <2>3. TimeSeen(j)' = TimeSeen(j) /\ Owed(j)' = Owed(j)
    BY <2>1, <2>2 DEF TimeSeen, Owed
  <2> QED
    BY <1>0, <1>1, <1>n, <1>k, <2>1, <2>2, <2>3 DEF KeepsTime
<1> QED
  BY <1>2, <1>3, <1>4, <1>5, <1>6, <1>7, <1>8 DEF ProcessEventTimers

\* A timer keeps time with the frames, whatever else is set and killed meanwhile.
THEOREM TimersCorrect == TimeSpec => []FiredOnTime
<1> DEFINE Free == pc = "idle" /\ slot = 0 /\ (\A i \in Slots : ~Used[i])
           Inv == TimersInv /\ (asks => Free /\ ClockInv)
<1>1. TimeInit => Inv
  <2> SUFFICES ASSUME TimeInit PROVE Inv
    OBVIOUS
  <2>1. TypeOK
    BY TimersAssumption DEF TimeInit, Init, TypeOK, Slots
  <2>2. Free /\ TimersKept /\ Underway
    BY DEF TimeInit, Init, TimersKept, Underway, Slots
  <2> QED
    BY <2>1, <2>2, ClockInit DEF TimersInv, TimeInit
<1>2. Inv /\ [TimeNext]_allVars => Inv'
  <2> SUFFICES ASSUME Inv, [TimeNext]_allVars PROVE Inv'
    OBVIOUS
  <2>1. CASE Asks(Clock!Next)
    <3>1. asks /\ asks' /\ UNCHANGED timers /\ ClockInv'
      BY <2>1, ClockStep DEF Asks
    <3>2. Free'
      BY <3>1 DEF timers, fields
    <3>3. TypeOK' /\ Underway'
      BY <3>1 DEF timers, fields, history, TimersInv, TypeOK, Underway, ClockInv, Clock!TypeOK
    <3>4. TimersKept'
      BY <3>2 DEF TimersKept
    <3> QED
      BY <3>1, <3>2, <3>3, <3>4 DEF TimersInv
  <2>2. CASE IsCalled(Next)
    <3>1. ~asks' /\ Next
      BY <2>2 DEF IsCalled
    <3>2. TypeOK' /\ Underway'
      BY <3>1, TimersType DEF TimersInv
    <3>3. TimersKept'
      BY <3>1, SetAndKillKeep, ProcessKeeps DEF Next
    <3> QED
      BY <3>1, <3>2, <3>3 DEF TimersInv
  <2>3. CASE UNCHANGED allVars
    <3>1. UNCHANGED <<asks, currentFrame, pc, slot, fields, history, clock>>
      BY <2>3 DEF allVars, timers
    <3>2. TimersInv'
      BY <3>1 DEF fields, history, TimersInv, TypeOK, Underway, TimersKept, KeepsTime, TimeSeen, Start, Owed, TimeOf
    <3>3. asks => Free' /\ ClockInv'
      BY <3>1 DEF fields, clock, ClockInv, Clock!TypeOK, SeedLockHeld, SeededOnce, PictureSeen, SeedsKept, SeedsAdvance
    <3> QED
      BY <3>1, <3>2, <3>3
  <2> QED
    BY <2>1, <2>2, <2>3 DEF TimeNext
<1>3. Inv => FiredOnTime
  BY TimersFired
<1> QED
  BY <1>1, <1>2, <1>3, PTL DEF TimeSpec

-----------------------------------------------------------------------------
(* Direct3D: what both counts are at every step of a call. *)

\* What a surface that is still to be made or freed has in the call.
DeedNames == {"AddRef", "Release", "leave", "return", "realAddRef", "realRelease", "free", "clear", "create", "count",
  "protect", "unprotect", "reset", "capture"}
Deeds == [do : DeedNames, on : Nat]

\* The counts and the steps of the device in use.
Refs == refs[dev]
Owned == owned[dev]
Of(name) == D3D!On(name, dev)
Take == Of(IF inside /\ hooked THEN "AddRef" ELSE "realAddRef")
Give == Of(IF inside /\ hooked THEN "Release" ELSE "realRelease")

\* No other device is there, and every surface and every step is of this one.
Alone ==
  /\ \A d \in D3D!Devices : d # dev => refs[d] = 0 /\ owned[d] = 0
  /\ \A s \in pointers : owner[s] = dev
Counting == {"AddRef", "Release", "realAddRef", "realRelease"}
OwnDeeds == {a \in Deeds : a.do \in Counting => a.on = dev}
OneDevice == D3D!TypeOK /\ Alone /\ todo \in Seq(OwnDeeds)

From(name, k) == SubSeq(D3D!Each(name), k+1, Surfaces)
Living == Cardinality(alive)

\* Direct3D's own count: the program's references, the surfaces', those lost with a
\* back buffer, and n that are about to be given up (taken, if negative).
Lent(n) == Refs - (Owned + Living + n) \in 0..failures

\* The hooks' count as a number, with p while Reset protects it: losses can make it negative.
Balance(p) ==
  IF p THEN deviceRefCount - Protection
  ELSE IF deviceRefCount <= Protection THEN deviceRefCount ELSE deviceRefCount - Word

Counted(n, m, p) ==
  /\ hooked
  /\ inside =>
       /\ Owned + Living + n - Surfaces <= Balance(p) /\ Balance(p) <= Owned + Living + n + failures
       /\ failures = 0 => Balance(p) = Owned + Living + n - Surfaces
  /\ ~inside => Balance(p) = Owned + m

Whole == failures = 0 => alive = IF Owned = 0 THEN {} ELSE D3D!Ids
Told == failures = 0 => returned = Owned
Gone == failures = 0 /\ Owned = 0 => deviceRefCount = 0
Quiet(r, n, m) ==
  Lent(r) /\ (Owned > 0 => Counted(n, m, FALSE)) /\ pointers = alive /\ ~inRelease /\ Whole

Ret == D3D!Step("return")

AtRest == todo = <<>> /\ Quiet(0, 0, 0) /\ Told
Adding == todo = <<Of("AddRef"), Ret>> /\ Owned > 0 /\ Quiet(-1, -1, -1)
Returning == todo = <<Ret>> /\ Quiet(0, 0, 0) /\ Gone
Releasing ==
  /\ todo = <<Of("Release"), Ret>>
  /\ Lent(1) /\ Counted(1, 1, FALSE) /\ pointers = alive /\ ~inRelease /\ (failures = 0 => alive = D3D!Ids)
LastReal == todo = <<Of("realRelease"), Ret>> /\ Quiet(1, 0, 0) /\ Gone
Program == Adding \/ Returning \/ Releasing \/ LastReal

Presenting ==
  /\ Owned > 0 /\ Told
  /\ \/ todo = <<Take, D3D!Step("capture")>> /\ Quiet(0, 0, 0)
     \/ todo = <<D3D!Step("capture")>> /\ Quiet(1, 1, 0)
     \/ todo = <<Of("Release")>> /\ inside /\ Quiet(1, 1, 0)
     \/ todo = <<Of("realRelease")>> /\ Quiet(1, 0, 0)

Protecting ==
  todo = <<D3D!Step("protect")>> \o (From("free", 0) \o <<D3D!Step("reset")>>) /\ Owned > 0 /\ Quiet(0, 0, 0) /\ Told

Device(k) ==
  /\ Owned = 1 /\ ~inRelease /\ pointers = alive /\ alive \subseteq 1..k /\ (failures = 0 => alive = 1..k) /\ Told
  /\ LET rest == From("create", k) \o <<D3D!Step("count")>>
     IN  \/ todo = rest /\ Lent(0)
         \/ todo = <<Take>> \o rest /\ Lent(-1)

Tails == {<<>>, <<Ret>>}
FreeLast(k) ==
  /\ inRelease /\ deviceRefCount = 0 /\ hooked /\ alive \subseteq k+1..Surfaces
  /\ (failures = 0 => Owned = 0) /\ (Owned > 0 => inside /\ Owned + Living <= Surfaces)
  /\ \E tail \in Tails :
       LET rest == From("free", k) \o (<<D3D!Step("leave"), Of("realRelease")>> \o tail)
       IN  /\ tail = <<>> => Owned > 0
           /\ \/ todo = rest /\ Lent(1) /\ pointers = alive
              \/ /\ k > 0 /\ pointers = alive \union {k}
                 /\ \/ todo = <<Of("Release"), D3D!On("clear", k)>> \o rest /\ Lent(2)
                    \/ todo = <<Of("realRelease"), D3D!On("clear", k)>> \o rest /\ Lent(2)
                    \/ todo = <<D3D!On("clear", k)>> \o rest /\ Lent(1)

FreeReset(k) ==
  /\ ~inRelease /\ Owned > 0 /\ Told /\ alive \subseteq k+1..Surfaces /\ (failures = 0 => alive = k+1..Surfaces)
  /\ LET rest == From("free", k) \o <<D3D!Step("reset")>>
     IN  \/ todo = rest /\ Lent(0) /\ Counted(0, 0, TRUE) /\ pointers = alive
         \/ /\ k > 0 /\ pointers = alive \union {k}
            /\ \/ todo = <<Of("Release"), D3D!On("clear", k)>>
                       \o rest /\ inside /\ Lent(1) /\ Counted(1, 0, TRUE)
               \/ todo = <<Of("realRelease"), D3D!On("clear", k)>> \o rest /\ Lent(1) /\ Counted(0, 0, TRUE)
               \/ todo = <<D3D!On("clear", k)>> \o rest /\ Lent(0) /\ Counted(0, 0, TRUE)

Recreate(k) ==
  /\ ~inRelease /\ Owned > 0 /\ Told /\ pointers = alive /\ alive \subseteq 1..k /\ (failures = 0 => alive = 1..k)
  /\ LET rest == From("create", k) \o <<D3D!Step("unprotect")>>
     IN  \/ todo = rest /\ Lent(0) /\ Counted(0, 0, TRUE)
         \/ todo = <<Take>> \o rest /\ Lent(-1) /\ Counted(-1, 0, TRUE)

Known ==
  \/ AtRest \/ Program \/ Presenting \/ Protecting
  \/ \E k \in 0..Surfaces : Device(k) \/ FreeLast(k) \/ FreeReset(k) \/ Recreate(k)
RefInv == ~overlapped => OneDevice /\ ~fault /\ Known

-----------------------------------------------------------------------------
\* The sizes are numbers, and the protection is more than the references that can go.
LEMMA Numbers ==
  /\ {Surfaces, Protection, Word, MaxRefs, MaxDevices, MaxFailures} \subseteq Nat
  /\ Surfaces > 0 /\ MaxRefs > 0
  /\ Protection > MaxRefs + Surfaces + MaxFailures /\ Word > 2 * Protection
BY Direct3DAssumption

\* The counter wraps around once at most.
LEMMA OneRound ==
  ASSUME NEW x \in Nat, x < 2 * Word
  PROVE  x % Word = IF x < Word THEN x ELSE x - Word
<1>1. Word \in Nat /\ Word > 0
  BY Numbers
<1>2. CASE x < Word
  BY <1>1, <1>2, SMT
<1>3. CASE x >= Word
  BY <1>1, <1>3, SMT
<1> QED
  BY <1>1, <1>2, <1>3

\* The surfaces that are alive are counted, one by one.
LEMMA SurfacesCounted ==
  ASSUME NEW S \in SUBSET D3D!Ids
  PROVE  /\ IsFiniteSet(S) /\ Cardinality(S) \in 0..Surfaces
         /\ Cardinality(S) = 0 <=> S = {}
         /\ Cardinality(D3D!Ids) = Surfaces
         /\ \A s \in D3D!Ids \ S : Cardinality(S \union {s}) = Cardinality(S) + 1
         /\ \A s \in S : Cardinality(S \ {s}) = Cardinality(S) - 1
<1>1. IsFiniteSet(D3D!Ids) /\ Cardinality(D3D!Ids) = Surfaces
  BY Numbers, FS_Interval DEF D3D!Ids
<1>2. IsFiniteSet(S) /\ Cardinality(S) <= Surfaces
  BY <1>1, FS_Subset
<1>3. Cardinality(S) \in Nat /\ (Cardinality(S) = 0 <=> S = {})
  BY <1>2, FS_CardinalityType, FS_EmptySet
<1>4. \A s \in D3D!Ids \ S : Cardinality(S \union {s}) = Cardinality(S) + 1
  BY <1>2, FS_AddElement
<1>5. \A s \in S : Cardinality(S \ {s}) = Cardinality(S) - 1
  BY <1>2, FS_RemoveElement
<1> QED
  BY <1>1, <1>2, <1>3, <1>4, <1>5, Numbers

-----------------------------------------------------------------------------
(* The steps of a call. *)

\* A step of a hook is a record of its name and its surface.
LEMMA StepType ==
  ASSUME NEW name \in DeedNames, NEW s \in Nat
  PROVE  /\ D3D!Step(name) \in Deeds /\ D3D!On(name, s) \in Deeds /\ D3D!Step(name).do = name
         /\ D3D!On(name, s).do = name /\ D3D!On(name, s).on = s
BY DEF D3D!Step, D3D!On, Deeds

\* The first step of a sequence and the others.
LEMMA First ==
  ASSUME NEW a \in Deeds, NEW rest \in Seq(Deeds)
  PROVE  /\ <<a>> \o rest # <<>> /\ Head(<<a>> \o rest) = a /\ Tail(<<a>> \o rest) = rest
         /\ <<a>> \o rest \in Seq(Deeds) /\ <<>> \o rest = rest
OBVIOUS

\* A sequence of one step.
LEMMA Single ==
  ASSUME NEW a \in Deeds
  PROVE  <<a>> \in Seq(Deeds) /\ Len(<<a>>) = 1 /\ <<a>>[1] = a
OBVIOUS

\* A step put in front of the others moves each of them up.
LEMMA SinglePut ==
  ASSUME NEW a \in Deeds, NEW r \in Seq(Deeds)
  PROVE  /\ <<a>> \o r \in Seq(Deeds) /\ Len(<<a>> \o r) = Len(r) + 1 /\ (<<a>> \o r)[1] = a
         /\ \A i \in 2..Len(r)+1 : (<<a>> \o r)[i] = r[i-1]
OBVIOUS

\* Two steps in front of the others are one in front of the rest.
LEMMA FirstOfTwo ==
  ASSUME NEW a \in Deeds, NEW b \in Deeds, NEW r \in Seq(Deeds)
  PROVE  <<a, b>> \o r = <<a>> \o (<<b>> \o r)
<1> DEFINE p == <<a, b>> \o r
           q == <<a>> \o (<<b>> \o r)
<1>1. <<a, b>> \in Seq(Deeds) /\ <<b>> \o r \in Seq(Deeds)
  OBVIOUS
<1>2. p \in Seq(Deeds) /\ q \in Seq(Deeds) /\ Len(p) = 2 + Len(r) /\ Len(q) = 2 + Len(r)
  BY <1>1
<1>3. \A i \in 1..Len(p) : p[i] = q[i]
  BY <1>1
<1> HIDE DEF p, q
<1>4. p = q
  BY <1>2, <1>3, SeqEqual
<1> QED
  BY <1>4 DEF p, q

\* The steps from k+1 on are the next one and those after it.
LEMMA OneByOne ==
  ASSUME NEW s \in Seq(Deeds), NEW n \in Nat, n = Len(s), NEW k \in 0..n, k < n, NEW r \in Seq(Deeds)
  PROVE  /\ SubSeq(s, k+1, n) \o r = <<s[k+1]>> \o (SubSeq(s, k+2, n) \o r)
         /\ SubSeq(s, k+2, n) \o r \in Seq(Deeds)
<1> DEFINE q == SubSeq(s, k+2, n)
<1>1. k+1 \in 1..Len(s) /\ n \in k+1..Len(s) /\ s[k+1] \in Deeds /\ (k+1)+1 = k+2
  OBVIOUS
<1>2. SubSeq(s, k+1, n) = <<s[k+1]>> \o q
  BY <1>1, SubSeqRecursiveFirst
<1>3. q \in Seq(Deeds)
  OBVIOUS
<1> HIDE DEF q
<1>4. <<s[k+1]>> \in Seq(Deeds)
  BY <1>1, Single
<1>5. (<<s[k+1]>> \o q) \o r = <<s[k+1]>> \o (q \o r)
  BY <1>3, <1>4, ConcatAssociative
<1>6. q \o r \in Seq(Deeds)
  BY <1>3
<1> QED
  BY <1>2, <1>5, <1>6 DEF q

\* After the last step only what follows is left; all steps are the whole sequence.
LEMMA NoneLeft ==
  ASSUME NEW s \in Seq(Deeds), NEW n \in Nat, n = Len(s), NEW r \in Seq(Deeds)
  PROVE  /\ SubSeq(s, n+1, n) \o r = r
         /\ SubSeq(s, 1, n) = s
<1>1. SubSeq(s, n+1, n) = <<>> /\ SubSeq(s, 1, n) = s
  OBVIOUS
<1>2. <<>> \o r = r
  OBVIOUS
<1> QED
  BY <1>1, <1>2

\* There is one step for each capture surface.
LEMMA EachType ==
  ASSUME NEW name \in DeedNames
  PROVE  D3D!Each(name) \in Seq(Deeds) /\ Len(D3D!Each(name)) = Surfaces /\ \A s \in D3D!Ids
              : D3D!Each(name)[s] = D3D!On(name, s)
<1>1. Surfaces \in Nat /\ \A s \in 1..Surfaces : D3D!On(name, s) \in Deeds
  BY Numbers, StepType
<1> DEFINE f == D3D!Each(name)
<1>2. f \in [1..Surfaces -> Deeds]
  BY <1>1 DEF D3D!Each, D3D!Ids
<1>3. \A s \in D3D!Ids : f[s] = D3D!On(name, s)
  BY DEF D3D!Each
<1> HIDE DEF f
<1>4. f \in Seq(Deeds) /\ Len(f) = Surfaces
  BY <1>1, <1>2
<1> QED
  BY <1>3, <1>4 DEF f

\* One surface after the other.
LEMMA FromNext ==
  ASSUME NEW name \in DeedNames, NEW k \in 0..Surfaces, k < Surfaces, NEW rest \in Seq(Deeds)
  PROVE  /\ From(name, k) \o rest = <<D3D!On(name, k+1)>> \o (From(name, k+1) \o rest)
         /\ From(name, k+1) \o rest \in Seq(Deeds)
         /\ D3D!On(name, k+1) \in Deeds /\ k+1 \in 0..Surfaces /\ k+1 \in D3D!Ids
<1>1. k+1 \in 0..Surfaces /\ k+1 \in D3D!Ids /\ k+1 \in Nat /\ (k+1)+1 = k+2 /\ Surfaces \in Nat
  BY Numbers DEF D3D!Ids
<1>2. /\ D3D!Each(name) \in Seq(Deeds) /\ Len(D3D!Each(name)) = Surfaces /\ D3D!Each(name)[k+1] = D3D!On(name, k+1)
  BY <1>1, EachType
<1>3. D3D!On(name, k+1) \in Deeds
  BY <1>1, StepType
<1> DEFINE s == D3D!Each(name)
<1> HIDE DEF s
<1>4. /\ SubSeq(s, k+1, Surfaces) \o rest = <<s[k+1]>> \o (SubSeq(s, k+2, Surfaces) \o rest)
      /\ SubSeq(s, k+2, Surfaces) \o rest \in Seq(Deeds)
  <2>1. s \in Seq(Deeds) /\ Len(s) = Surfaces
    BY <1>2 DEF s
  <2> QED
    BY <1>1, <2>1, OneByOne
<1> QED
  BY <1>1, <1>2, <1>3, <1>4 DEF From, s

\* After the last surface comes what follows the surfaces.
LEMMA FromEnd ==
  ASSUME NEW name \in DeedNames, NEW rest \in Seq(Deeds)
  PROVE  From(name, Surfaces) \o rest = rest /\ D3D!Each(name) = From(name, 0)
<1> DEFINE s == D3D!Each(name)
<1>1. s \in Seq(Deeds) /\ Len(s) = Surfaces /\ Surfaces \in Nat
  BY EachType, Numbers
<1> HIDE DEF s
<1>2. SubSeq(s, Surfaces+1, Surfaces) \o rest = rest /\ SubSeq(s, 1, Surfaces) = s
  BY <1>1, NoneLeft
<1>3. 0 + 1 = 1
  OBVIOUS
<1> QED
  BY <1>2, <1>3 DEF From, s

\* A loop over the surfaces starts with the first.
LEMMA AllOf ==
  ASSUME NEW name \in DeedNames
  PROVE  D3D!Each(name) = From(name, 0) /\ D3D!Each(name) \in Seq(Deeds)
<1>1. <<>> \in Seq(Deeds)
  OBVIOUS
<1> QED
  BY <1>1, FromEnd, EachType

\* What is left of a loop and what follows it are steps.
LEMMA FromType ==
  ASSUME NEW name \in DeedNames, NEW k \in 0..Surfaces, NEW rest \in Seq(Deeds)
  PROVE  From(name, k) \o rest \in Seq(Deeds)
<1>1. CASE k = Surfaces
  BY <1>1, FromEnd
<1>2. CASE k # Surfaces
  <2>0. k < Surfaces
    BY <1>2, Numbers
  <2>1. /\ From(name, k) \o rest = <<D3D!On(name, k+1)>> \o (From(name, k+1) \o rest)
        /\ From(name, k+1) \o rest \in Seq(Deeds) /\ D3D!On(name, k+1) \in Deeds
    BY <2>0, FromNext
  <2> DEFINE q == From(name, k+1) \o rest
  <2> HIDE DEF q
  <2>2. <<D3D!On(name, k+1)>> \o q \in Seq(Deeds)
    BY <2>1, SinglePut DEF q
  <2> QED
    BY <2>1, <2>2 DEF q
<1> QED
  BY <1>1, <1>2

-----------------------------------------------------------------------------
(* The hooks' count as a number. *)

\* The numbers that the counts are made of.
LEMMA Sizes ==
  ASSUME OneDevice
  PROVE  /\ deviceRefCount \in Nat /\ deviceRefCount < Word /\ Refs \in Nat /\ Owned \in Nat /\ Owned <= MaxRefs
         /\ failures \in Nat /\ failures <= MaxFailures /\ Living \in Nat /\ Living <= Surfaces
         /\ (Living = 0 <=> alive = {})
         /\ \A p : Balance(p) \in Int
         /\ dev \in Nat /\ inside \in BOOLEAN /\ pointers \subseteq D3D!Ids /\ alive \subseteq D3D!Ids
<1>0. D3D!TypeOK
  BY DEF OneDevice
<1>1. Living \in 0..Surfaces /\ (Living = 0 <=> alive = {})
  BY <1>0, SurfacesCounted DEF D3D!TypeOK, Living
<1>2. deviceRefCount \in Nat /\ Protection \in Nat /\ Word \in Nat
  BY <1>0, Numbers DEF D3D!TypeOK
<1>3. \A p : Balance(p) \in Int
  BY <1>2 DEF Balance
<1>4. /\ Refs \in Nat /\ Owned \in 0..MaxRefs /\ dev \in Nat /\ failures \in 0..MaxFailures
      /\ deviceRefCount \in 0..Word-1 /\ pointers \subseteq D3D!Ids /\ alive \subseteq D3D!Ids /\ inside \in BOOLEAN
  BY <1>0, Numbers DEF D3D!TypeOK, D3D!Devices, Refs, Owned
<1> QED
  BY <1>1, <1>2, <1>3, <1>4, Numbers

\* A count that is right is far from the ends.
LEMMA InRange ==
  ASSUME OneDevice, NEW n \in -1..1, NEW m \in -1..1, NEW p \in BOOLEAN, Counted(n, m, p)
  PROVE  /\ -Protection < Balance(p) /\ Balance(p) <= Protection
         /\ n <= 0 /\ m <= 0 => Balance(p) < Protection
         /\ p /\ Owned > 0 => deviceRefCount > 1
<1> DEFINE B == Balance(p)
<1>1. /\ Owned \in Nat /\ Owned <= MaxRefs /\ failures \in Nat /\ failures <= MaxFailures /\ Living \in Nat
      /\ Living <= Surfaces
      /\ B \in Int /\ deviceRefCount \in Nat /\ inside \in BOOLEAN
  BY Sizes
<1>2. p => deviceRefCount = B + Protection
  BY <1>1, Numbers DEF Balance
<1>3. CASE inside
  <2>1. Owned + Living + n - Surfaces <= B /\ B <= Owned + Living + n + failures
    BY <1>3 DEF Counted
  <2> HIDE DEF B
  <2> QED
    BY <1>1, <1>2, <2>1, Numbers DEF B
<1>4. CASE ~inside
  <2>1. B = Owned + m
    BY <1>4 DEF Counted
  <2> HIDE DEF B
  <2> QED
    BY <1>1, <1>2, <2>1, Numbers DEF B
<1> QED
  BY <1>3, <1>4

\* AddRef counts one up.
LEMMA OneUp ==
  ASSUME OneDevice, NEW p \in BOOLEAN, -Protection < Balance(p), Balance(p) < Protection,
         deviceRefCount' = (deviceRefCount + 1) % Word
  PROVE  Balance(p)' = Balance(p) + 1
<1>1. /\ deviceRefCount \in Nat /\ deviceRefCount < Word /\ Word \in Nat /\ Protection \in Nat
      /\ Word > 2 * Protection
      /\ Protection > 0
  BY Sizes, Numbers
<1> DEFINE x == deviceRefCount + 1
<1>2. x \in Nat /\ x < 2 * Word
  BY <1>1
<1>3. deviceRefCount' = x % Word
  OBVIOUS
<1> HIDE DEF x
<1>4. deviceRefCount' = IF x < Word THEN x ELSE x - Word
  BY <1>2, <1>3, OneRound
<1>5. CASE p
  BY <1>1, <1>4, <1>5 DEF Balance, x
<1>6. CASE ~p
  BY <1>1, <1>4, <1>6 DEF Balance, x
<1> QED
  BY <1>5, <1>6

\* Release counts one down.
LEMMA OneDown ==
  ASSUME OneDevice, NEW p \in BOOLEAN, -Protection < Balance(p), Balance(p) <= Protection,
         deviceRefCount > 0, deviceRefCount' = deviceRefCount - 1
  PROVE  Balance(p)' = Balance(p) - 1
<1>1. /\ deviceRefCount \in Nat /\ deviceRefCount < Word /\ Word \in Nat /\ Protection \in Nat
      /\ Word > 2 * Protection
  BY Sizes, Numbers
<1>2. CASE p
  BY <1>1, <1>2 DEF Balance
<1>3. CASE ~p
  BY <1>1, <1>3 DEF Balance
<1> QED
  BY <1>2, <1>3

\* Protected and no longer, the count is the same number.
LEMMA ProtectedCount ==
  ASSUME OneDevice, -Protection < Balance(FALSE), Balance(FALSE) <= Protection,
         deviceRefCount' = (deviceRefCount + Protection) % Word
  PROVE  Balance(TRUE)' = Balance(FALSE)
<1>1. /\ deviceRefCount \in Nat /\ deviceRefCount < Word /\ Word \in Nat /\ Protection \in Nat
      /\ Word > 2 * Protection
  BY Sizes, Numbers
<1> DEFINE x == deviceRefCount + Protection
<1>2. x \in Nat /\ x < 2 * Word
  BY <1>1
<1> HIDE DEF x
<1>3. x % Word = IF x < Word THEN x ELSE x - Word
  BY <1>2, OneRound
<1> QED
  BY <1>1, <1>3 DEF x, Balance

\* Taking the protection away gives the count back.
LEMMA UnprotectedCount ==
  ASSUME OneDevice, -Protection < Balance(TRUE), Balance(TRUE) <= Protection,
         deviceRefCount' = (deviceRefCount + Word - Protection) % Word
  PROVE  Balance(FALSE)' = Balance(TRUE)
<1>1. /\ deviceRefCount \in Nat /\ deviceRefCount < Word /\ Word \in Nat /\ Protection \in Nat
      /\ Word > 2 * Protection
  BY Sizes, Numbers
<1> DEFINE x == deviceRefCount + Word - Protection
<1>2. x \in Nat /\ x < 2 * Word
  BY <1>1
<1> HIDE DEF x
<1>3. x % Word = IF x < Word THEN x ELSE x - Word
  BY <1>2, OneRound
<1> QED
  BY <1>1, <1>3 DEF x, Balance

\* The references of the program, the surfaces and the failures are as they were.
Same == UNCHANGED <<hooked, inside, alive, Owned, dev, failures>>

\* The count stays right when a reference that is due is counted or given up.
LEMMA CountedMoves ==
  ASSUME OneDevice, Same, NEW n \in -1..1, NEW m \in -1..1, NEW p \in BOOLEAN, Counted(n, m, p)
  PROVE  /\ n <= 0 /\ m <= 0 /\ deviceRefCount' = (deviceRefCount + 1) % Word => Counted(n+1, m+1, p)'
         /\ deviceRefCount > 0 /\ deviceRefCount' = deviceRefCount - 1 => Counted(n-1, m-1, p)'
         /\ deviceRefCount' = deviceRefCount => Counted(n, m, p)'
<1> DEFINE B == Balance(p)
<1>1. /\ Owned \in Nat /\ failures \in Nat /\ Living \in Nat /\ B \in Int /\ Surfaces \in Nat
      /\ -Protection < B /\ B <= Protection /\ (n <= 0 /\ m <= 0 => B < Protection)
  BY Sizes, InRange, Numbers
<1>2. Living' = Living /\ Owned' = Owned /\ failures' = failures /\ hooked' = hooked /\ inside' = inside
  BY DEF Same, Living
<1>3. ASSUME n <= 0, m <= 0, deviceRefCount' = (deviceRefCount + 1) % Word PROVE Counted(n+1, m+1, p)'
  <2>1. B' = B + 1
    BY <1>1, <1>3, OneUp
  <2> HIDE DEF B
  <2> QED
    BY <1>1, <1>2, <2>1 DEF Counted, B
<1>4. ASSUME deviceRefCount > 0, deviceRefCount' = deviceRefCount - 1 PROVE Counted(n-1, m-1, p)'
  <2>1. B' = B - 1
    BY <1>1, <1>4, OneDown
  <2> HIDE DEF B
  <2> QED
    BY <1>1, <1>2, <2>1 DEF Counted, B
<1>5. ASSUME deviceRefCount' = deviceRefCount PROVE Counted(n, m, p)'
  BY <1>2, <1>5 DEF Counted, Balance
<1> QED
  BY <1>3, <1>4, <1>5

\* The count is right again when the reference to be given up has been.
LEMMA CountedLess ==
  ASSUME OneDevice, Same, NEW p \in BOOLEAN, Counted(1, 1, p), deviceRefCount > 0, deviceRefCount'
         = deviceRefCount - 1
  PROVE  Counted(0, 0, p)'
<1> DEFINE n == 1
<1>1. n \in -1..1 /\ n - 1 = 0
  OBVIOUS
<1>2. Counted(n, n, p)
  OBVIOUS
<1> HIDE DEF n
<1>3. Counted(n - 1, n - 1, p)'
  BY <1>1, <1>2, CountedMoves
<1> QED
  BY <1>1, <1>3

\* The count stays right while nothing it counts changes.
LEMMA CountedKept ==
  ASSUME OneDevice, Same, NEW n \in -1..1, NEW m \in -1..1,
         NEW p \in BOOLEAN, Counted(n, m, p), deviceRefCount' = deviceRefCount
  PROVE  Counted(n, m, p)'
BY CountedMoves

-----------------------------------------------------------------------------
(* One step of a hook. *)

\* What is at hand, and what the others find when it is done.
LEMMA Front ==
  ASSUME NEW a \in Deeds, NEW rest \in Seq(Deeds), todo = <<a>> \o rest
  PROVE  /\ ~D3D!Idle /\ D3D!This = a.on
         /\ \A name : D3D!At(name) <=> name = a.do
         /\ \A steps : D3D!Continue(steps) <=> todo' = steps \o rest
<1>1. todo # <<>> /\ Head(todo) = a /\ Tail(todo) = rest
  BY First
<1> QED
  BY <1>1 DEF D3D!Idle, D3D!This, D3D!At, D3D!Continue

\* One action, at most, is called by a name.
LEMMA ActionOf ==
  ASSUME D3D!Next, ~D3D!Idle, NEW name \in DeedNames, \A other : D3D!At(other) <=> other = name
  PROVE  /\ name = "AddRef" => D3D!AddRef
         /\ name = "Release" => D3D!Release
         /\ name = "leave" => D3D!LeaveRelease
         /\ name = "return" => D3D!Return
         /\ name = "realAddRef" => D3D!RealAddRef
         /\ name = "realRelease" => D3D!RealRelease
         /\ name = "free" => D3D!FreeSurface
         /\ name = "clear" => D3D!ClearPointer
         /\ name = "create" => D3D!CreateSurface
         /\ name = "count" => D3D!CountDevice
         /\ name \in {"protect", "unprotect"} => D3D!Protect
         /\ name = "reset" => D3D!RealReset
         /\ name = "capture" => D3D!Capture
<1>1. D3D!Hooks
  BY DEF D3D!Next, D3D!CreateDevice, D3D!ProgramAddRef, D3D!ProgramRelease, D3D!Reset, D3D!Present
<1>2. /\ D3D!AddRef => name = "AddRef"
      /\ D3D!Release => name = "Release"
      /\ D3D!LeaveRelease => name = "leave"
      /\ D3D!Return => name = "return"
      /\ D3D!RealAddRef => name = "realAddRef"
      /\ D3D!RealRelease => name = "realRelease"
      /\ D3D!FreeSurface => name = "free"
      /\ D3D!ClearPointer => name = "clear"
      /\ D3D!CreateSurface => name = "create"
      /\ D3D!CountDevice => name = "count"
      /\ D3D!Protect => name \in {"protect", "unprotect"}
      /\ D3D!RealReset => name = "reset"
      /\ D3D!Capture => name = "capture"
  BY DEF D3D!AddRef, D3D!Release, D3D!LeaveRelease, D3D!Return, D3D!RealAddRef, D3D!RealRelease, D3D!FreeSurface,
    D3D!ClearPointer, D3D!CreateSurface, D3D!CountDevice, D3D!Protect, D3D!RealReset, D3D!Capture
<1> QED
  BY <1>1, <1>2 DEF D3D!Hooks

\* What is taken or given up is a reference of the device in use.
LEMMA OfThis ==
  ASSUME OneDevice, NEW name \in Counting, D3D!At(name)
  PROVE  D3D!This = dev
<1>1. todo # <<>> /\ Head(todo).do = name /\ todo \in Seq(OwnDeeds)
  BY DEF D3D!At, OneDevice
<1>2. Head(todo) \in OwnDeeds
  BY <1>1
<1> QED
  BY <1>1, <1>2 DEF D3D!This, OwnDeeds

\* What each step of a hook does to the device in use.
LEMMA Acts ==
  ASSUME OneDevice
  PROVE  /\ D3D!AddRef =>
              /\ D3D!Continue(<<>>) /\ Same /\ Refs' = Refs + 1 /\ deviceRefCount' = (deviceRefCount + 1) % Word
              /\ UNCHANGED <<pointers, inRelease, fault, returned>>
         /\ D3D!Release =>
              /\ Same /\ UNCHANGED <<pointers, Refs, returned, fault>>
              /\ ~(deviceRefCount > 0 /\ ~inRelease) =>
                   D3D!Continue(<<Of("realRelease")>>) /\ UNCHANGED <<deviceRefCount, inRelease>>
              /\ deviceRefCount > 0 /\ ~inRelease => deviceRefCount' = deviceRefCount - 1
              /\ deviceRefCount > 0 /\ ~inRelease /\ deviceRefCount # 1 =>
                   D3D!Continue(<<Of("realRelease")>>) /\ UNCHANGED inRelease
              /\ deviceRefCount > 0 /\ ~inRelease /\ deviceRefCount = 1 =>
                   inRelease' /\ D3D!Continue(D3D!Each("free") \o <<D3D!Step("leave"), Of("realRelease")>>)
         /\ D3D!LeaveRelease =>
              /\ D3D!Continue(<<>>) /\ ~inRelease' /\ Same
              /\ UNCHANGED <<deviceRefCount, pointers, Refs, returned, fault>>
         /\ D3D!Return =>
              /\ D3D!Continue(<<>>) /\ Same /\ UNCHANGED <<pointers, inRelease, fault, Refs, deviceRefCount>>
              /\ returned' = IF deviceRefCount > 0 THEN deviceRefCount ELSE Refs
         /\ D3D!RealAddRef =>
              /\ D3D!Continue(<<>>) /\ Same /\ Refs' = Refs + 1
              /\ UNCHANGED <<pointers, inRelease, fault, returned, deviceRefCount>>
         /\ D3D!RealRelease =>
              /\ D3D!Continue(<<>>) /\ Same /\ (Refs # 0 => Refs' = Refs - 1) /\ fault' = (fault \/ Refs = 0)
              /\ UNCHANGED <<pointers, inRelease, deviceRefCount, returned>>
         /\ D3D!FreeSurface =>
              /\ UNCHANGED <<deviceRefCount, inRelease, hooked, inside, pointers, Refs, Owned, dev, returned, failures>>
              /\ D3D!This \in pointers =>
                   /\ D3D!Continue(<<Give, D3D!On("clear", D3D!This)>>) /\ alive' = alive \ {D3D!This}
                   /\ fault' = (fault \/ D3D!This \notin alive)
              /\ D3D!This \notin pointers => D3D!Continue(<<>>) /\ UNCHANGED <<alive, fault>>
         /\ D3D!ClearPointer =>
              /\ D3D!Continue(<<>>) /\ Same /\ pointers' = pointers \ {D3D!This}
              /\ UNCHANGED <<inRelease, deviceRefCount, returned, Refs, fault>>
<1>1. D3D!TypeOK /\ dev \in D3D!Devices /\ refs \in [D3D!Devices -> Nat]
  BY DEF OneDevice, D3D!TypeOK
<1>2. \A name \in Counting : D3D!At(name) => D3D!This = dev
  BY OfThis
<1>3. \A s \in pointers : owner[s] = dev
  BY DEF OneDevice, Alone
<1>4. D3D!OwnRelease(dev) = Give
  BY DEF D3D!OwnRelease, Give, Of
<1>5. ASSUME D3D!AddRef
      PROVE  /\ D3D!Continue(<<>>) /\ Same /\ Refs' = Refs + 1 /\ deviceRefCount' = (deviceRefCount + 1) % Word
             /\ UNCHANGED <<pointers, inRelease, fault, returned>>
  <2>1. refs' = [refs EXCEPT ![dev] = @ + 1] /\ dev' = dev
    BY <1>2, <1>5 DEF D3D!AddRef, D3D!program, Counting
  <2>2. Refs' = Refs + 1
    BY <1>1, <2>1 DEF Refs
  <2> QED
    BY <1>5, <2>2 DEF D3D!AddRef, Same, Owned, D3D!program
<1>6. ASSUME D3D!Release
      PROVE  /\ Same /\ UNCHANGED <<pointers, Refs, returned, fault>>
             /\ ~(deviceRefCount > 0 /\ ~inRelease) =>
                  D3D!Continue(<<Of("realRelease")>>) /\ UNCHANGED <<deviceRefCount, inRelease>>
             /\ deviceRefCount > 0 /\ ~inRelease => deviceRefCount' = deviceRefCount - 1
             /\ deviceRefCount > 0 /\ ~inRelease /\ deviceRefCount # 1 =>
                  D3D!Continue(<<Of("realRelease")>>) /\ UNCHANGED inRelease
             /\ deviceRefCount > 0 /\ ~inRelease /\ deviceRefCount = 1 =>
                  inRelease' /\ D3D!Continue(D3D!Each("free") \o <<D3D!Step("leave"), Of("realRelease")>>)
  <2>1. D3D!This = dev
    BY <1>2, <1>6 DEF D3D!Release, Counting
  <2>2. D3D!On("realRelease", D3D!This) = Of("realRelease")
    BY <2>1 DEF Of
  <2>3. Same /\ UNCHANGED <<pointers, Refs, returned, fault>>
    BY <1>6 DEF D3D!Release, Same, Owned, Refs, D3D!program
  <2> QED
    BY <1>6, <2>2, <2>3 DEF D3D!Release
<1>7. ASSUME D3D!LeaveRelease
      PROVE  /\ D3D!Continue(<<>>) /\ ~inRelease' /\ Same
             /\ UNCHANGED <<deviceRefCount, pointers, Refs, returned, fault>>
  BY <1>7 DEF D3D!LeaveRelease, Same, Owned, Refs, D3D!program
<1>8. ASSUME D3D!Return
      PROVE  /\ D3D!Continue(<<>>) /\ Same /\ UNCHANGED <<pointers, inRelease, fault, Refs, deviceRefCount>>
             /\ returned' = IF deviceRefCount > 0 THEN deviceRefCount ELSE Refs
  BY <1>8 DEF D3D!Return, Same, Owned, Refs, D3D!program, D3D!hooks
<1>9. ASSUME D3D!RealAddRef
      PROVE  /\ D3D!Continue(<<>>) /\ Same /\ Refs' = Refs + 1
             /\ UNCHANGED <<pointers, inRelease, fault, returned, deviceRefCount>>
  <2>1. refs' = [refs EXCEPT ![dev] = @ + 1] /\ dev' = dev
    BY <1>2, <1>9 DEF D3D!RealAddRef, D3D!program, Counting
  <2>2. Refs' = Refs + 1
    BY <1>1, <2>1 DEF Refs
  <2> QED
    BY <1>9, <2>2 DEF D3D!RealAddRef, Same, Owned, D3D!program, D3D!hooks
<1>10. ASSUME D3D!RealRelease
       PROVE  /\ D3D!Continue(<<>>) /\ Same /\ (Refs # 0 => Refs' = Refs - 1) /\ fault' = (fault \/ Refs = 0)
              /\ UNCHANGED <<pointers, inRelease, deviceRefCount, returned>>
  <2>1. /\ refs' = [refs EXCEPT ![dev] = IF @ = 0 THEN 0 ELSE @ - 1] /\ dev' = dev
        /\ fault' = (fault \/ refs[dev] = 0)
    BY <1>2, <1>10 DEF D3D!RealRelease, D3D!program, Counting
  <2>2. (Refs # 0 => Refs' = Refs - 1) /\ fault' = (fault \/ Refs = 0)
    BY <1>1, <2>1 DEF Refs
  <2> QED
    BY <1>10, <2>2 DEF D3D!RealRelease, Same, Owned, D3D!program, D3D!hooks
<1>11. ASSUME D3D!FreeSurface
       PROVE  /\ UNCHANGED <<deviceRefCount, inRelease, hooked, inside, pointers, Refs, Owned, dev, returned, failures>>
              /\ D3D!This \in pointers =>
                   /\ D3D!Continue(<<Give, D3D!On("clear", D3D!This)>>) /\ alive' = alive \ {D3D!This}
                   /\ fault' = (fault \/ D3D!This \notin alive)
              /\ D3D!This \notin pointers => D3D!Continue(<<>>) /\ UNCHANGED <<alive, fault>>
  <2>1. UNCHANGED <<deviceRefCount, inRelease, hooked, inside, pointers, Refs, Owned, dev, returned, failures>>
    BY <1>11 DEF D3D!FreeSurface, Refs, Owned, D3D!program, D3D!hooks
  <2>2. D3D!This \in pointers => D3D!OwnRelease(owner[D3D!This]) = Give
    BY <1>3, <1>4
  <2> QED
    BY <1>11, <2>1, <2>2 DEF D3D!FreeSurface
<1>12. ASSUME D3D!ClearPointer
       PROVE  /\ D3D!Continue(<<>>) /\ Same /\ pointers' = pointers \ {D3D!This}
              /\ UNCHANGED <<inRelease, deviceRefCount, returned, Refs, fault>>
  BY <1>12 DEF D3D!ClearPointer, Same, Owned, Refs, D3D!program
<1> QED
  BY <1>5, <1>6, <1>7, <1>8, <1>9, <1>10, <1>11, <1>12

\* The same of the steps that make surfaces, count, reset and capture.
LEMMA LongActs ==
  ASSUME OneDevice
  PROVE  /\ D3D!CreateSurface =>
              /\ UNCHANGED <<deviceRefCount, inRelease, hooked, inside, Refs, Owned, dev, returned, fault>>
              /\ \/ /\ pointers' = pointers \union {D3D!This} /\ alive' = alive \union {D3D!This}
                    /\ D3D!Continue(<<Take>>) /\ failures' = failures
                 \/ /\ UNCHANGED <<pointers, alive>> /\ failures' = failures + 1
                    /\ todo' = SubSeq(todo, IF D3D!This = 1 THEN Surfaces + 1 ELSE 2, Len(todo))
         /\ D3D!CountDevice =>
              /\ D3D!Continue(<<>>) /\ deviceRefCount' = 1 /\ hooked'
              /\ UNCHANGED <<inRelease, pointers, inside, alive, Refs, Owned, dev, returned, fault, failures>>
         /\ D3D!Protect =>
              /\ D3D!Continue(<<>>) /\ Same /\ UNCHANGED <<pointers, inRelease, fault, returned, Refs>>
              /\ \/ D3D!At("protect") /\ deviceRefCount' = (deviceRefCount + Protection) % Word
                 \/ D3D!At("unprotect") /\ deviceRefCount' = (deviceRefCount + Word - Protection) % Word
         /\ D3D!RealReset =>
              /\ UNCHANGED <<deviceRefCount, inRelease, hooked, pointers, inside, alive, Refs, Owned, dev, returned, fault>>
              /\ \/ D3D!Continue(D3D!Each("create") \o <<D3D!Step("unprotect")>>) /\ failures' = failures
                 \/ D3D!Continue(<<D3D!Step("unprotect")>>) /\ failures' = failures + 1
                 \/ D3D!Continue(<<D3D!Step("unprotect")>>) /\ failures' = failures /\ Refs > Owned
         /\ D3D!Capture =>
              /\ UNCHANGED <<deviceRefCount, inRelease, hooked, pointers, inside, alive, Refs, Owned, dev, returned, fault>>
              /\ \/ D3D!Continue(<<Give>>) /\ failures' = failures
                 \/ D3D!Continue(<<>>) /\ failures' = failures + 1
<1>1. D3D!OwnRelease(dev) = Give /\ D3D!OwnAddRef(dev) = Take
  BY DEF D3D!OwnRelease, D3D!OwnAddRef, Give, Take, Of
<1>2. ASSUME D3D!CreateSurface
      PROVE  /\ UNCHANGED <<deviceRefCount, inRelease, hooked, inside, Refs, Owned, dev, returned, fault>>
             /\ \/ /\ pointers' = pointers \union {D3D!This} /\ alive' = alive \union {D3D!This}
                   /\ D3D!Continue(<<Take>>) /\ failures' = failures
                \/ /\ UNCHANGED <<pointers, alive>> /\ failures' = failures + 1
                   /\ todo' = SubSeq(todo, IF D3D!This = 1 THEN Surfaces + 1 ELSE 2, Len(todo))
  BY <1>1, <1>2 DEF D3D!CreateSurface, D3D!Fails, Refs, Owned, D3D!program
<1>3. ASSUME D3D!CountDevice
      PROVE  /\ D3D!Continue(<<>>) /\ deviceRefCount' = 1 /\ hooked'
             /\ UNCHANGED <<inRelease, pointers, inside, alive, Refs, Owned, dev, returned, fault, failures>>
  BY <1>3 DEF D3D!CountDevice, Refs, Owned, D3D!program
<1>4. ASSUME D3D!Protect
      PROVE  /\ D3D!Continue(<<>>) /\ Same /\ UNCHANGED <<pointers, inRelease, fault, returned, Refs>>
             /\ \/ D3D!At("protect") /\ deviceRefCount' = (deviceRefCount + Protection) % Word
                \/ D3D!At("unprotect") /\ deviceRefCount' = (deviceRefCount + Word - Protection) % Word
  BY <1>4 DEF D3D!Protect, Same, Refs, Owned, D3D!program
<1>5. ASSUME D3D!RealReset
      PROVE  /\ UNCHANGED <<deviceRefCount, inRelease, hooked, pointers, inside, alive, Refs, Owned, dev, returned, fault>>
             /\ \/ D3D!Continue(D3D!Each("create") \o <<D3D!Step("unprotect")>>) /\ failures' = failures
                \/ D3D!Continue(<<D3D!Step("unprotect")>>) /\ failures' = failures + 1
                \/ D3D!Continue(<<D3D!Step("unprotect")>>) /\ failures' = failures /\ Refs > Owned
  BY <1>5 DEF D3D!RealReset, D3D!Fails, Refs, Owned, D3D!program, D3D!hooks
<1>6. ASSUME D3D!Capture
      PROVE  /\ UNCHANGED <<deviceRefCount, inRelease, hooked, pointers, inside, alive, Refs, Owned, dev, returned, fault>>
             /\ \/ D3D!Continue(<<Give>>) /\ failures' = failures
                \/ D3D!Continue(<<>>) /\ failures' = failures + 1
  BY <1>1, <1>6 DEF D3D!Capture, D3D!Fails, Refs, Owned, D3D!program, D3D!hooks
<1> QED
  BY <1>2, <1>3, <1>4, <1>5, <1>6

\* The first step of the sequence says which action comes next.
LEMMA StepOf ==
  ASSUME D3D!Next, NEW a \in Deeds, NEW rest \in Seq(Deeds), todo = <<a>> \o rest
  PROVE  /\ D3D!This = a.on
         /\ \A steps : D3D!Continue(steps) <=> todo' = steps \o rest
         /\ a.do = "AddRef" => D3D!AddRef
         /\ a.do = "Release" => D3D!Release
         /\ a.do = "leave" => D3D!LeaveRelease
         /\ a.do = "return" => D3D!Return
         /\ a.do = "realAddRef" => D3D!RealAddRef
         /\ a.do = "realRelease" => D3D!RealRelease
         /\ a.do = "free" => D3D!FreeSurface
         /\ a.do = "clear" => D3D!ClearPointer
         /\ a.do = "create" => D3D!CreateSurface
         /\ a.do = "count" => D3D!CountDevice
         /\ a.do \in {"protect", "unprotect"} => D3D!Protect
         /\ a.do = "reset" => D3D!RealReset
         /\ a.do = "capture" => D3D!Capture
         /\ \A name : D3D!At(name) <=> name = a.do
<1>1. /\ ~D3D!Idle /\ D3D!This = a.on /\ \A name : D3D!At(name) <=> name = a.do
      /\ \A steps : D3D!Continue(steps) <=> todo' = steps \o rest
  BY Front
<1>2. a.do \in DeedNames
  BY DEF Deeds
<1> DEFINE name == a.do
<1> HIDE DEF name
<1>3. name \in DeedNames /\ \A other : D3D!At(other) <=> other = name
  BY <1>1, <1>2 DEF name
<1>4. /\ name = "AddRef" => D3D!AddRef
      /\ name = "Release" => D3D!Release
      /\ name = "leave" => D3D!LeaveRelease
      /\ name = "return" => D3D!Return
      /\ name = "realAddRef" => D3D!RealAddRef
      /\ name = "realRelease" => D3D!RealRelease
      /\ name = "free" => D3D!FreeSurface
      /\ name = "clear" => D3D!ClearPointer
      /\ name = "create" => D3D!CreateSurface
      /\ name = "count" => D3D!CountDevice
      /\ name \in {"protect", "unprotect"} => D3D!Protect
      /\ name = "reset" => D3D!RealReset
      /\ name = "capture" => D3D!Capture
  BY <1>1, <1>3, ActionOf
<1> QED
  BY <1>1, <1>4 DEF name

\* Short calls as a first step and the rest.
LEMMA Short ==
  ASSUME NEW a \in Deeds, NEW b \in Deeds
  PROVE  /\ <<a>> = <<a>> \o <<>> /\ <<a, b>> = <<a>> \o <<b>> /\ <<a>> \o <<>> = <<a>>
         /\ <<>> \in Seq(Deeds) /\ <<b>> \in Seq(Deeds) /\ <<a, b>> \in Seq(Deeds)
<1>1. <<b>> \in Seq(Deeds) /\ <<>> \in Seq(Deeds) /\ <<a, b>> \in Seq(Deeds) /\ <<a>> \in Seq(Deeds)
  OBVIOUS
<1>2. <<a>> \o <<>> = <<a>>
  BY <1>1, ConcatEmptySeq
<1>3. <<a, b>> = <<a>> \o <<b>>
  <2>1. <<a, b>> \o <<>> = <<a>> \o (<<b>> \o <<>>)
    BY <1>1, FirstOfTwo
  <2>2. <<a, b>> \o <<>> = <<a, b>> /\ <<b>> \o <<>> = <<b>>
    BY <1>1, ConcatEmptySeq
  <2> QED
    BY <2>1, <2>2
<1> QED
  BY <1>1, <1>2, <1>3

\* The steps are named by strings.
LEMMA Names ==
  ASSUME OneDevice
  PROVE  /\ \A name \in DeedNames : D3D!Step(name) \in Deeds /\ D3D!Step(name).do = name
         /\ \A name \in DeedNames : Of(name) \in Deeds /\ Of(name).do = name
         /\ \A name \in DeedNames, s \in Nat :
              D3D!On(name, s) \in Deeds /\ D3D!On(name, s).do = name /\ D3D!On(name, s).on = s
         /\ Ret \in Deeds /\ Ret.do = "return"
         /\ Take \in Deeds /\ Take.do = IF inside /\ hooked THEN "AddRef" ELSE "realAddRef"
         /\ Give = Of(IF inside /\ hooked THEN "Release" ELSE "realRelease")
<1>1. \A name \in DeedNames : D3D!Step(name) \in Deeds /\ D3D!Step(name).do = name
  BY DEF D3D!Step, Deeds
<1>2. \A name \in DeedNames, s \in Nat :
        D3D!On(name, s) \in Deeds /\ D3D!On(name, s).do = name /\ D3D!On(name, s).on = s
  BY DEF D3D!On, Deeds
<1>3. \A name \in DeedNames : Of(name) \in Deeds /\ Of(name).do = name
  BY <1>2, Sizes DEF Of
<1>4. {"return", "AddRef", "realAddRef"} \subseteq DeedNames
  BY DEF DeedNames
<1>5. Ret \in Deeds /\ Ret.do = "return"
  BY <1>1, <1>4 DEF Ret
<1>6. Take \in Deeds /\ Take.do = IF inside /\ hooked THEN "AddRef" ELSE "realAddRef"
  <2>1. CASE inside /\ hooked
    BY <1>3, <1>4, <2>1 DEF Take
  <2>2. CASE ~(inside /\ hooked)
    BY <1>3, <1>4, <2>2 DEF Take
  <2> QED
    BY <2>1, <2>2
<1> QED
  BY <1>1, <1>2, <1>3, <1>5, <1>6 DEF Give

\* An action that adds no steps leaves the others.
LEMMA NothingBefore ==
  ASSUME NEW rest \in Seq(Deeds)
  PROVE  <<>> \o rest = rest
OBVIOUS

\* Direct3D's count, while the program's references, the surfaces and the failures are as they were.
LEMMA OwedMoves ==
  ASSUME OneDevice, Same, NEW r \in -2..2, Lent(r)
  PROVE  /\ Refs' = Refs => Lent(r)'
         /\ Refs' = Refs + 1 => Lent(r + 1)'
         /\ r > 0 => Refs > 0
         /\ r > 0 /\ Refs' = Refs - 1 => Lent(r - 1)'
<1>1. Owned \in Nat /\ failures \in Nat /\ Living \in Nat /\ Refs \in Nat
  BY Sizes
<1>2. Owned' = Owned /\ failures' = failures /\ Living' = Living
  BY DEF Same, Living
<1>3. Refs - (Owned + Living + r) \in 0..failures
  BY DEF Lent
<1> QED
  BY <1>1, <1>2, <1>3 DEF Lent

\* Between two steps of a call both counts move together or one alone.
LEMMA QuietMoves ==
  ASSUME OneDevice, Same, UNCHANGED <<pointers, inRelease>>, NEW r \in -1..1, NEW n \in -1..1,
         NEW m \in -1..1, Quiet(r, n, m)
  PROVE  /\ Refs' = Refs /\ deviceRefCount' = deviceRefCount => Quiet(r, n, m)'
         /\ Refs' = Refs + 1 /\ n <= 0 /\ m <= 0 /\ deviceRefCount' = (deviceRefCount + 1) % Word
            => Quiet(r + 1, n + 1, m + 1)'
         /\ Refs' = Refs + 1 /\ deviceRefCount' = deviceRefCount => Quiet(r + 1, n, m)'
         /\ r > 0 /\ Refs' = Refs - 1 /\ deviceRefCount' = deviceRefCount => Quiet(r - 1, n, m)'
         /\ Refs' = Refs /\ deviceRefCount > 0 /\ deviceRefCount' = deviceRefCount - 1 => Quiet(r, n - 1, m - 1)'
<1>1. /\ Refs' = Refs => Lent(r)'
      /\ Refs' = Refs + 1 => Lent(r + 1)'
      /\ r > 0 /\ Refs' = Refs - 1 => Lent(r - 1)'
  BY OwedMoves DEF Quiet
<1>2. ASSUME Owned > 0
      PROVE  /\ n <= 0 /\ m <= 0 /\ deviceRefCount' = (deviceRefCount + 1) % Word => Counted(n+1, m+1, FALSE)'
             /\ deviceRefCount > 0 /\ deviceRefCount' = deviceRefCount - 1 => Counted(n-1, m-1, FALSE)'
             /\ deviceRefCount' = deviceRefCount => Counted(n, m, FALSE)'
  <2>1. Counted(n, m, FALSE) /\ FALSE \in BOOLEAN
    BY <1>2 DEF Quiet
  <2> QED
    BY <2>1, CountedMoves
<1>3. Owned' = Owned /\ pointers' = alive' /\ ~inRelease' /\ Whole'
  BY DEF Same, Quiet, Whole, D3D!Ids
<1> QED
  BY <1>1, <1>2, <1>3 DEF Quiet

\* Where a call comes through does not change, and one of the two counts is left.
LEMMA OneOfTwo ==
  ASSUME OneDevice, NEW n, NEW m, NEW p, NEW other
  PROVE  /\ inside /\ Counted(n, m, p) => Counted(n, other, p)
         /\ ~inside /\ Counted(n, m, p) => Counted(other, m, p)
BY DEF Counted

-----------------------------------------------------------------------------
(* The program's calls start. *)

\* One reference of the program more or less, before the call has counted it.
LEMMA OwnedMoves ==
  ASSUME OneDevice, AtRest, Owned > 0,
         UNCHANGED <<deviceRefCount, inRelease, hooked, pointers, inside, alive, Refs, failures>>
  PROVE  /\ Owned' = Owned + 1 => Quiet(-1, -1, -1)'
         /\ Owned' = Owned - 1 =>
              Lent(1)' /\ Counted(1, 1, FALSE)' /\ pointers' = alive' /\ ~inRelease' /\ (failures' = 0
                   => alive' = D3D!Ids)
<1>1. /\ Owned \in Nat /\ failures \in Nat /\ Living \in Nat /\ Refs \in Nat /\ Balance(FALSE) \in Int
      /\ Surfaces \in Nat
  BY Sizes, Numbers
<1>2. Living' = Living /\ Balance(FALSE)' = Balance(FALSE)
  BY DEF Living, Balance
<1>3. /\ Lent(0) /\ Counted(0, 0, FALSE) /\ pointers = alive /\ ~inRelease /\ (failures = 0 => alive = D3D!Ids)
  <2>1. Quiet(0, 0, 0)
    BY DEF AtRest
  <2>2. ~(Owned = 0)
    BY <1>1
  <2> QED
    BY <2>1, <2>2 DEF Quiet, Whole
<1>4. ASSUME Owned' = Owned + 1 PROVE Quiet(-1, -1, -1)'
  <2>1. Lent(-1)'
    BY <1>1, <1>2, <1>3, <1>4 DEF Lent
  <2>2. Counted(-1, -1, FALSE)'
    BY <1>1, <1>2, <1>3, <1>4 DEF Counted, Balance
  <2>3. Whole'
    BY <1>1, <1>3, <1>4 DEF Whole, D3D!Ids
  <2> QED
    BY <1>3, <2>1, <2>2, <2>3 DEF Quiet
<1>5. ASSUME Owned' = Owned - 1 PROVE Lent(1)' /\ Counted(1, 1, FALSE)'
  <2>1. Lent(1)'
    BY <1>1, <1>2, <1>3, <1>5 DEF Lent
  <2>2. Counted(1, 1, FALSE)'
    BY <1>1, <1>2, <1>3, <1>5 DEF Counted, Balance
  <2> QED
    BY <2>1, <2>2
<1> QED
  BY <1>3, <1>4, <1>5

\* The program calls the device in use, or makes one when nothing is left of it.
LEMMA Begins ==
  ASSUME OneDevice, D3D!Next, AtRest, ~overlapped'
  PROVE  \/ /\ D3D!CreateDevice /\ (\A d \in D3D!Devices : refs[d] = 0) /\ Owned = 0 /\ Refs = 0 /\ alive = {}
            /\ pointers = {} /\ Owned' = 1 /\ Refs' = 1 /\ returned' = 1
            /\ todo' = D3D!Each("create") \o <<D3D!Step("count")>>
            /\ UNCHANGED <<pointers, inRelease, alive, failures, fault>>
         \/ /\ D3D!ProgramAddRef(dev) /\ Owned > 0 /\ Owned' = Owned + 1 /\ todo' = <<Of("AddRef"), Ret>>
            /\ UNCHANGED <<deviceRefCount, inRelease, hooked, pointers, inside, alive, Refs, failures, fault, dev>>
         \/ /\ D3D!ProgramRelease(dev) /\ Owned > 0 /\ Owned' = Owned - 1 /\ todo' = <<Of("Release"), Ret>>
            /\ UNCHANGED <<deviceRefCount, inRelease, hooked, pointers, inside, alive, Refs, failures, fault, dev>>
         \/ /\ D3D!Reset(dev) /\ Owned > 0 /\ Same
            /\ todo' = (<<D3D!Step("protect")>> \o D3D!Each("free")) \o <<D3D!Step("reset")>>
            /\ UNCHANGED <<deviceRefCount, Refs, pointers, inRelease, returned, fault>>
         \/ /\ D3D!Present(dev) /\ Owned > 0
            /\ UNCHANGED <<deviceRefCount, Refs, Owned, dev, hooked, inside, alive, pointers, inRelease, returned, fault>>
            /\ \/ todo' = <<>> /\ failures' = failures
               \/ todo' = <<Take, D3D!Step("capture")>> /\ failures' = failures
               \/ todo' = <<>> /\ failures' = failures + 1
<1>1. todo = <<>> /\ ~D3D!Hooks
  BY DEF AtRest, D3D!Hooks, D3D!AddRef, D3D!Release, D3D!LeaveRelease, D3D!Return, D3D!RealAddRef, D3D!RealRelease,
    D3D!FreeSurface, D3D!ClearPointer, D3D!CreateSurface, D3D!CountDevice, D3D!Protect, D3D!RealReset, D3D!Capture,
    D3D!At
<1>2. /\ refs \in [D3D!Devices -> Nat] /\ owned \in [D3D!Devices -> 0..MaxRefs] /\ dev \in D3D!Devices
      /\ devices \in D3D!Devices /\ overlapped \in BOOLEAN /\ MaxDevices \in Nat /\ MaxRefs \in Nat
  BY Numbers DEF OneDevice, D3D!TypeOK
<1>3. \A d \in D3D!Devices : d # dev => refs[d] = 0 /\ owned[d] = 0
  BY DEF OneDevice, Alone
<1>4. D3D!OwnAddRef(dev) = Take
  BY DEF D3D!OwnAddRef, Take, Of
<1>5. CASE D3D!CreateDevice
  <2>1. \A d \in D3D!Devices : refs[d] = 0
    BY <1>5 DEF D3D!CreateDevice
  <2>2. Refs = 0
    BY <1>2, <2>1 DEF Refs
  <2>3. Owned = 0 /\ alive = {} /\ pointers = {}
    <3>1. Refs - (Owned + Living + 0) \in 0..failures /\ pointers = alive
      BY DEF AtRest, Quiet, Lent
    <3>2. Owned \in Nat /\ Living \in Nat /\ failures \in Nat /\ (Living = 0 <=> alive = {})
      BY Sizes
    <3>3. Owned = 0 /\ Living = 0
      BY <2>2, <3>1, <3>2
    <3> QED
      BY <3>1, <3>2, <3>3
  <2>4. devices + 1 \in D3D!Devices
    BY <1>2, <1>5 DEF D3D!CreateDevice, D3D!Devices
  <2>5. Owned' = 1 /\ Refs' = 1
    <3>1. dev' = devices + 1 /\ refs' = [refs EXCEPT ![devices + 1] = 1] /\ owned' = [owned EXCEPT ![devices + 1] = 1]
      BY <1>5 DEF D3D!CreateDevice
    <3> QED
      BY <1>2, <2>4, <3>1 DEF Refs, Owned
  <2> QED
    BY <1>5, <2>1, <2>2, <2>3, <2>5 DEF D3D!CreateDevice, D3D!hooks
<1>6. ASSUME NEW d \in D3D!Devices, owned[d] > 0
      PROVE  d = dev
  BY <1>3, <1>6
<1>7. CASE \E d \in D3D!Devices : D3D!ProgramAddRef(d)
  <2>1. PICK d \in D3D!Devices : D3D!ProgramAddRef(d)
    BY <1>7
  <2>2. owned[d] \in 1..MaxRefs-1
    BY <2>1 DEF D3D!ProgramAddRef
  <2>3. owned[d] > 0
    BY <1>2, <2>2
  <2>4. D3D!ProgramAddRef(dev) /\ owned[dev] > 0
    BY <1>6, <2>1, <2>3
  <2>5. dev' = dev /\ owned' = [owned EXCEPT ![dev] = @ + 1] /\ refs' = refs
    BY <2>4 DEF D3D!ProgramAddRef
  <2>6. Owned' = Owned + 1 /\ Refs' = Refs
    BY <1>2, <2>5 DEF Owned, Refs
  <2> QED
    BY <2>4, <2>5, <2>6 DEF D3D!ProgramAddRef, D3D!hooks, Owned, Of, Ret
<1>8. CASE \E d \in D3D!Devices : D3D!ProgramRelease(d)
  <2>1. PICK d \in D3D!Devices : D3D!ProgramRelease(d)
    BY <1>8
  <2>2. owned[d] > 0
    BY <2>1 DEF D3D!ProgramRelease
  <2>3. D3D!ProgramRelease(dev) /\ owned[dev] > 0
    BY <1>6, <2>1, <2>2
  <2>4. dev' = dev /\ owned' = [owned EXCEPT ![dev] = @ - 1] /\ refs' = refs
    BY <2>3 DEF D3D!ProgramRelease
  <2>5. Owned' = Owned - 1 /\ Refs' = Refs
    BY <1>2, <2>4 DEF Owned, Refs
  <2> QED
    BY <2>3, <2>4, <2>5 DEF D3D!ProgramRelease, D3D!hooks, Owned, Of, Ret
<1>9. CASE \E d \in D3D!Devices : D3D!Reset(d)
  <2>1. PICK d \in D3D!Devices : D3D!Reset(d)
    BY <1>9
  <2>2. owned[d] > 0
    BY <2>1 DEF D3D!Reset
  <2>3. D3D!Reset(dev) /\ owned[dev] > 0
    BY <1>6, <2>1, <2>2
  <2> QED
    BY <2>3 DEF D3D!Reset, D3D!hooks, Owned, Refs, Same
<1>10. CASE \E d \in D3D!Devices : D3D!Present(d)
  <2>1. PICK d \in D3D!Devices : D3D!Present(d)
    BY <1>10
  <2>2. owned[d] > 0
    BY <2>1 DEF D3D!Present
  <2>3. D3D!Present(dev) /\ owned[dev] > 0
    BY <1>6, <2>1, <2>2
  <2> QED
    BY <1>1, <1>4, <2>3 DEF D3D!Present, D3D!Fails, D3D!hooks, Owned, Refs
<1> QED
  BY <1>1, <1>5, <1>7, <1>8, <1>9, <1>10 DEF D3D!Next

\* A failure leaves everything as right as it was.
LEMMA FailureKeeps ==
  ASSUME OneDevice, NEW r \in -1..1, NEW n \in -1..1, NEW m \in -1..1, Quiet(r, n, m),
         UNCHANGED <<deviceRefCount, Refs, Owned, hooked, inside, alive, pointers, inRelease>>, failures' = failures + 1
  PROVE  Quiet(r, n, m)' /\ failures' # 0
<1> DEFINE B == Balance(FALSE)
<1>0. r \in Int /\ n \in Int /\ m \in Int
  OBVIOUS
<1>1. /\ Owned \in Nat /\ failures \in Nat /\ Living \in Nat /\ Refs \in Nat /\ B \in Int /\ Surfaces \in Nat
      /\ r \in Int /\ n \in Int /\ m \in Int
  <2>1. Owned \in Nat /\ failures \in Nat /\ Living \in Nat /\ Refs \in Nat /\ B \in Int
    BY Sizes
  <2> HIDE DEF B
  <2> QED
    BY <1>0, <2>1, Numbers
<1>2. B' = B /\ Living' = Living
  BY DEF Balance, Living
<1>3. Lent(r)' /\ failures' # 0
  BY <1>1, <1>2 DEF Quiet, Lent
<1>4. ASSUME Owned > 0 PROVE Counted(n, m, FALSE)'
  <2>1. /\ hooked
        /\ inside => Owned + Living + n - Surfaces <= B /\ B <= Owned + Living + n + failures
        /\ ~inside => B = Owned + m
    BY <1>4 DEF Quiet, Counted
  <2>2. inside => Owned + Living + n - Surfaces <= B /\ B <= Owned + Living + n + (failures + 1)
    <3> HIDE DEF B
    <3> QED
      BY <1>1, <2>1
  <2>3. /\ hooked'
        /\ inside' => Owned' + Living' + n - Surfaces <= B' /\ B' <= Owned' + Living' + n + failures'
        /\ ~inside' => B' = Owned' + m
        /\ failures' # 0
    <3> HIDE DEF B
    <3> QED
      BY <1>2, <1>3, <2>1, <2>2
  <2> QED
    BY <2>3 DEF Counted
<1> QED
  BY <1>3, <1>4 DEF Quiet, Whole

\* The program may begin a call when the hooks are done.
LEMMA FromRest ==
  ASSUME OneDevice, ~fault, AtRest, D3D!Next, ~overlapped'
  PROVE  Known' /\ ~fault'
<1>1. todo = <<>>
  BY DEF AtRest
<1>2. /\ Owned \in Nat /\ Refs \in Nat /\ Surfaces \in Nat /\ (Living = 0 <=> alive = {}) /\ Living \in Nat
      /\ failures \in Nat
  BY Sizes, Numbers
<1>3. CASE /\ Owned = 0 /\ Refs = 0 /\ alive = {} /\ pointers = {} /\ Owned' = 1 /\ Refs' = 1 /\ returned' = 1
           /\ todo' = D3D!Each("create") \o <<D3D!Step("count")>>
           /\ UNCHANGED <<pointers, inRelease, alive, failures, fault>>
  <2>1. Living' = 0
    BY <1>2, <1>3 DEF Living
  <2>2. Lent(0)' /\ Told'
    BY <1>2, <1>3, <2>1 DEF Lent, Told
  <2>3. todo' = (From("create", 0) \o <<D3D!Step("count")>>)'
    <3>1. D3D!Each("create") = From("create", 0)
      BY AllOf DEF DeedNames
    <3> QED
      BY <1>3, <3>1 DEF From, D3D!Each, D3D!On, D3D!Step, D3D!Ids
  <2>4. alive' = {} /\ pointers' = {} /\ ~inRelease'
    BY <1>3 DEF AtRest, Quiet
  <2>5. 1..0 = {} /\ 0 \in 0..Surfaces
    BY <1>2
  <2>6. Device(0)'
    BY <1>3, <2>2, <2>3, <2>4, <2>5 DEF Device
  <2> QED
    BY <1>3, <2>5, <2>6 DEF Known
<1>4. CASE /\ Owned > 0 /\ Owned' = Owned + 1 /\ todo' = <<Of("AddRef"), Ret>>
           /\ UNCHANGED <<deviceRefCount, inRelease, hooked, pointers, inside, alive, Refs, failures, fault, dev>>
  <2>1. Quiet(-1, -1, -1)' /\ Owned' > 0
    BY <1>2, <1>4, OwnedMoves
  <2>2. Adding'
    BY <1>4, <2>1 DEF Adding, Ret, D3D!Step, Of, D3D!On
  <2> QED
    BY <1>4, <2>2 DEF Known, Program
<1>5. CASE /\ Owned > 0 /\ Owned' = Owned - 1 /\ todo' = <<Of("Release"), Ret>>
           /\ UNCHANGED <<deviceRefCount, inRelease, hooked, pointers, inside, alive, Refs, failures, fault, dev>>
  <2>1. Lent(1)' /\ Counted(1, 1, FALSE)' /\ pointers' = alive' /\ ~inRelease' /\ (failures' = 0 => alive' = D3D!Ids)
    BY <1>5, OwnedMoves
  <2>2. Releasing'
    BY <1>5, <2>1 DEF Releasing, Ret, D3D!Step, Of, D3D!On, D3D!Ids
  <2> QED
    BY <1>5, <2>2 DEF Known, Program
<1>6. CASE /\ Owned > 0 /\ Same
           /\ todo' = (<<D3D!Step("protect")>> \o D3D!Each("free")) \o <<D3D!Step("reset")>>
           /\ UNCHANGED <<deviceRefCount, Refs, pointers, inRelease, returned, fault>>
  <2>1. Quiet(0, 0, 0)' /\ Told' /\ Owned' > 0
    BY <1>6, QuietMoves DEF AtRest, Told, Same
  <2>2. todo' = <<D3D!Step("protect")>> \o (From("free", 0) \o <<D3D!Step("reset")>>)
    <3>1. D3D!Each("free") = From("free", 0) /\ D3D!Each("free") \in Seq(Deeds)
      BY AllOf DEF DeedNames
    <3>2. <<D3D!Step("protect")>> \in Seq(Deeds) /\ <<D3D!Step("reset")>> \in Seq(Deeds)
      BY Names, Single DEF DeedNames
    <3> QED
      BY <1>6, <3>1, <3>2, ConcatAssociative
  <2> QED
    BY <1>6, <2>1, <2>2 DEF Known, Protecting, D3D!Step, From, D3D!Each, D3D!On, D3D!Ids
<1>7. CASE /\ Owned > 0
           /\ UNCHANGED <<deviceRefCount, Refs, Owned, dev, hooked, inside, alive, pointers, inRelease, returned, fault>>
           /\ \/ todo' = <<>> /\ failures' = failures
              \/ todo' = <<Take, D3D!Step("capture")>> /\ failures' = failures
              \/ todo' = <<>> /\ failures' = failures + 1
  <2>1. CASE failures' = failures
    <3>1. Same
      BY <1>7, <2>1 DEF Same
    <3>2. Quiet(0, 0, 0)' /\ Told' /\ Owned' > 0
      BY <1>7, <3>1, QuietMoves DEF AtRest, Told, Same
    <3>3. Take' = Take /\ D3D!Step("capture")' = D3D!Step("capture")
      BY <1>7 DEF Take, Of, D3D!On, D3D!Step
    <3>4. todo' = <<>> \/ todo' = <<Take, D3D!Step("capture")>>
      BY <1>7
    <3> QED
      BY <1>7, <3>2, <3>3, <3>4 DEF Known, AtRest, Presenting
  <2>2. CASE failures' = failures + 1
    <3>1. todo' = <<>>
      BY <1>2, <1>7, <2>2
    <3>2. Quiet(0, 0, 0)' /\ failures' # 0
      BY <1>7, <2>2, FailureKeeps DEF AtRest
    <3> QED
      BY <1>7, <3>1, <3>2 DEF Known, AtRest, Told
  <2> QED
    BY <1>7, <2>1, <2>2
<1> QED
  BY <1>3, <1>4, <1>5, <1>6, <1>7, Begins

-----------------------------------------------------------------------------
(* AddRef, Release and Present, step by step. *)

\* A real release takes one reference and no more.
LEMMA RealReleased ==
  ASSUME OneDevice, ~fault, D3D!RealRelease, Refs > 0
  PROVE  /\ D3D!Continue(<<>>) /\ Same /\ Refs' = Refs - 1 /\ ~fault'
         /\ UNCHANGED <<pointers, inRelease, deviceRefCount, returned>>
<1>1. Refs # 0
  BY Sizes
<1> QED
  BY <1>1, Acts

\* AddRef counts the reference that the program has taken.
LEMMA FromAdding ==
  ASSUME OneDevice, ~fault, Adding, D3D!Next
  PROVE  Known' /\ ~fault'
<1>1. Of("AddRef") \in Deeds /\ Of("AddRef").do = "AddRef" /\ Ret \in Deeds
  BY Names DEF DeedNames
<1>2. todo = <<Of("AddRef")>> \o <<Ret>> /\ <<Ret>> \in Seq(Deeds) /\ <<>> \o <<Ret>> = <<Ret>>
  BY <1>1, Short, NothingBefore DEF Adding
<1>3. D3D!AddRef /\ (D3D!Continue(<<>>) => todo' = <<Ret>>)
  BY <1>1, <1>2, StepOf
<1>4. /\ todo' = <<Ret>> /\ Same /\ UNCHANGED <<pointers, inRelease, fault>> /\ Refs' = Refs + 1
      /\ deviceRefCount' = (deviceRefCount + 1) % Word
  BY <1>3, Acts
<1>5. Quiet(0, 0, 0)'
  BY <1>4, QuietMoves DEF Adding
<1>6. Gone' /\ Ret' = Ret
  BY <1>4, Sizes DEF Gone, Adding, Same, Ret, D3D!Step
<1> QED
  BY <1>4, <1>5, <1>6 DEF Known, Program, Returning

\* What AddRef and Release return is what the program has.
LEMMA FromReturning ==
  ASSUME OneDevice, ~fault, Returning, D3D!Next
  PROVE  Known' /\ ~fault'
<1>1. Ret \in Deeds /\ Ret.do = "return"
  BY Names
<1>2. todo = <<Ret>> \o <<>> /\ <<>> \in Seq(Deeds) /\ <<>> \o <<>> = <<>>
  BY <1>1, Short, NothingBefore DEF Returning
<1>3. D3D!Return /\ (D3D!Continue(<<>>) => todo' = <<>>)
  BY <1>1, <1>2, StepOf
<1>4. /\ todo' = <<>> /\ Same /\ UNCHANGED <<pointers, inRelease, fault, Refs, deviceRefCount>>
      /\ returned' = IF deviceRefCount > 0 THEN deviceRefCount ELSE Refs
  BY <1>3, Acts
<1>5. Quiet(0, 0, 0)'
  BY <1>4, QuietMoves DEF Returning
<1>6. ASSUME failures = 0 PROVE returned' = Owned
  <2>1. /\ deviceRefCount \in Nat /\ deviceRefCount < Word /\ Owned \in Nat /\ Refs \in Nat /\ Living \in Nat
        /\ Surfaces \in Nat
        /\ Protection \in Nat /\ Word \in Nat /\ (Living = 0 <=> alive = {}) /\ Cardinality(D3D!Ids) = Surfaces
    BY Sizes, Numbers, SurfacesCounted
  <2>2. CASE Owned = 0
    <3>1. alive = {} /\ deviceRefCount = 0 /\ Refs - (Owned + Living + 0) \in 0..0
      BY <1>6, <2>2 DEF Returning, Quiet, Whole, Gone, Lent
    <3> QED
      BY <1>4, <2>1, <2>2, <3>1
  <2>3. CASE Owned > 0
    <3>1. alive = D3D!Ids /\ Counted(0, 0, FALSE)
      <4>1. ~(Owned = 0) /\ Quiet(0, 0, 0)
        BY <2>1, <2>3 DEF Returning
      <4> QED
        BY <1>6, <2>3, <4>1 DEF Quiet, Whole
    <3>2. Living = Surfaces
      BY <2>1, <3>1 DEF Living
    <3>3. Balance(FALSE) = Owned
      <4> DEFINE B == Balance(FALSE)
      <4>1. B \in Int
        BY Sizes
      <4>2. (inside => B = Owned + Living + 0 - Surfaces) /\ (~inside => B = Owned + 0)
        BY <1>6, <3>1 DEF Counted
      <4> HIDE DEF B
      <4>3. B = Owned
        BY <2>1, <3>2, <4>1, <4>2
      <4> QED
        BY <4>3 DEF B
    <3> QED
      BY <1>4, <2>1, <2>3, <3>3 DEF Balance
  <2> QED
    BY <2>1, <2>2, <2>3
<1>7. Told'
  BY <1>4, <1>6 DEF Told, Same
<1> QED
  BY <1>4, <1>5, <1>7 DEF Known, AtRest

\* The real release, after which the program is answered or the picture is done.
LEMMA FromLastReal ==
  ASSUME OneDevice, ~fault, LastReal, D3D!Next
  PROVE  Known' /\ ~fault'
<1>1. Of("realRelease") \in Deeds /\ Of("realRelease").do = "realRelease" /\ Ret \in Deeds
  BY Names DEF DeedNames
<1>2. todo = <<Of("realRelease")>> \o <<Ret>> /\ <<Ret>> \in Seq(Deeds) /\ <<>> \o <<Ret>> = <<Ret>>
  BY <1>1, Short, NothingBefore DEF LastReal
<1>3. D3D!RealRelease /\ (D3D!Continue(<<>>) => todo' = <<Ret>>)
  BY <1>1, <1>2, StepOf
<1>4. Refs > 0
  BY Sizes, <1>3 DEF LastReal, Quiet, Lent
<1>5. /\ todo' = <<Ret>> /\ Same /\ UNCHANGED <<pointers, inRelease, deviceRefCount>> /\ Refs' = Refs - 1 /\ ~fault'
  BY <1>3, <1>4, RealReleased
<1>6. Quiet(0, 0, 0)'
  BY <1>5, QuietMoves DEF LastReal
<1>7. Gone' /\ Ret' = Ret
  BY <1>5 DEF Gone, LastReal, Same, Ret, D3D!Step
<1> QED
  BY <1>5, <1>6, <1>7 DEF Known, Program, Returning

\* Release gives one reference up, and the surfaces first if it is the last counted one.
LEMMA Released ==
  ASSUME OneDevice, D3D!Release, ~inRelease
  PROVE  /\ Same /\ UNCHANGED <<pointers, Refs, returned, fault>>
         /\ \/ deviceRefCount # 1 /\ ~inRelease' /\ D3D!Continue(<<Of("realRelease")>>)
               /\ \/ deviceRefCount = 0 /\ deviceRefCount' = deviceRefCount
                  \/ deviceRefCount > 0 /\ deviceRefCount' = deviceRefCount - 1
            \/ /\ deviceRefCount = 1 /\ deviceRefCount' = 0 /\ inRelease'
               /\ D3D!Continue(D3D!Each("free") \o <<D3D!Step("leave"), Of("realRelease")>>)
<1>1. deviceRefCount \in Nat
  BY Sizes
<1>2. Same /\ UNCHANGED <<pointers, Refs, returned, fault>>
  BY Acts
<1>3. CASE deviceRefCount = 0
  BY <1>2, <1>3, Acts
<1>4. CASE deviceRefCount = 1
  BY <1>2, <1>4, Acts
<1>5. CASE deviceRefCount > 1
  BY <1>1, <1>2, <1>5, Acts
<1> QED
  BY <1>1, <1>3, <1>4, <1>5

\* The last reference that is counted is the program's, and otherwise one is counted less.
LEMMA ReleaseCounted ==
  ASSUME OneDevice, D3D!Release, ~inRelease, Counted(1, 1, FALSE), failures = 0 => alive = D3D!Ids
  PROVE  /\ Same /\ UNCHANGED <<pointers, Refs, returned, fault>>
         /\ \/ /\ D3D!Continue(<<Of("realRelease")>>) /\ ~inRelease' /\ (Owned > 0 => Counted(0, 0, FALSE)')
               /\ ~(failures = 0 /\ Owned = 0)
            \/ /\ D3D!Continue(D3D!Each("free") \o <<D3D!Step("leave"), Of("realRelease")>>)
               /\ inRelease' /\ deviceRefCount' = 0 /\ hooked
               /\ (failures = 0 => Owned = 0) /\ (Owned > 0 => inside /\ Owned + Living <= Surfaces)
<1> DEFINE B == Balance(FALSE)
<1>1. /\ Owned \in Nat /\ failures \in Nat /\ Living \in Nat /\ Living <= Surfaces /\ B \in Int
      /\ Surfaces \in Nat /\ deviceRefCount \in Nat
      /\ deviceRefCount < Word /\ Protection \in Nat /\ Word \in Nat /\ Protection > 1 /\ Word > 2 * Protection
      /\ inside \in BOOLEAN
  <2>1. /\ Owned \in Nat /\ failures \in Nat /\ Living \in Nat /\ Living <= Surfaces /\ B \in Int
        /\ deviceRefCount \in Nat
        /\ deviceRefCount < Word
    BY Sizes
  <2>2. Surfaces \in Nat /\ Protection \in Nat /\ Word \in Nat /\ Protection > 1 /\ Word > 2 * Protection
    BY Numbers
  <2>3. inside \in BOOLEAN
    BY Sizes
  <2> QED
    BY <2>1, <2>2, <2>3
<1>2. /\ B = 0 <=> deviceRefCount = 0
      /\ B = 1 <=> deviceRefCount = 1
  BY <1>1 DEF Balance
<1>3. failures = 0 => Living = Surfaces
  BY SurfacesCounted, Sizes DEF Living
<1>4. /\ hooked
      /\ inside =>
           /\ Owned + Living + 1 - Surfaces <= B /\ B <= Owned + Living + 1 + failures
           /\ failures = 0 => B = Owned + Living + 1 - Surfaces
      /\ ~inside => B = Owned + 1
  BY DEF Counted
<1>5. Same /\ UNCHANGED <<pointers, Refs, returned, fault>> /\ Living' = Living
  BY Released DEF Same, Living
<1>6. CASE deviceRefCount = 1
  <2>1. (failures = 0 => Owned = 0) /\ (Owned > 0 => inside /\ Owned + Living <= Surfaces)
    <3> HIDE DEF B
    <3> QED
      BY <1>1, <1>2, <1>3, <1>4, <1>6
  <2> QED
    BY <1>4, <1>5, <1>6, <2>1, Released
<1>7. CASE deviceRefCount # 1
  <2>1. ~(failures = 0 /\ Owned = 0)
    <3> HIDE DEF B
    <3> QED
      BY <1>1, <1>2, <1>3, <1>4, <1>7
  <2>2. CASE deviceRefCount = 0
    <3>1. Counted(0, 0, FALSE)
      <4>1. inside /\ failures # 0 /\ Owned + Living + 0 - Surfaces <= B /\ B <= Owned + Living + 0 + failures
        <5> HIDE DEF B
        <5> QED
          BY <1>1, <1>2, <1>3, <1>4, <2>2
      <4> QED
        BY <1>4, <4>1 DEF Counted
    <3>2. deviceRefCount' = deviceRefCount /\ ~inRelease' /\ D3D!Continue(<<Of("realRelease")>>)
      BY <1>7, <2>2, Released
    <3>3. Counted(0, 0, FALSE)'
      <4> HIDE DEF B
      <4>1. FALSE \in BOOLEAN /\ 0 \in -1..1
        OBVIOUS
      <4> QED
        BY <1>5, <3>1, <3>2, <4>1, CountedKept
    <3> QED
      BY <1>5, <2>1, <3>2, <3>3
  <2>3. CASE deviceRefCount > 0
    <3>1. deviceRefCount' = deviceRefCount - 1 /\ ~inRelease' /\ D3D!Continue(<<Of("realRelease")>>)
      BY <1>7, <2>3, Released
    <3>2. Counted(0, 0, FALSE)'
      <4> HIDE DEF B
      <4>1. FALSE \in BOOLEAN
        OBVIOUS
      <4> QED
        BY <1>5, <2>3, <3>1, <4>1, CountedLess
    <3> QED
      BY <1>5, <2>1, <3>1, <3>2
  <2>4. deviceRefCount = 0 \/ deviceRefCount > 0
    BY <1>1
  <2> HIDE DEF B
  <2> QED
    BY <2>2, <2>3, <2>4
<1> QED
  BY <1>6, <1>7

\* The last release gives the surfaces up first.
LEMMA LastFrees ==
  ASSUME OneDevice, NEW tail \in Tails
  PROVE  /\ (D3D!Each("free") \o <<D3D!Step("leave"), Of("realRelease")>>) \o tail
              = From("free", 0) \o (<<D3D!Step("leave"), Of("realRelease")>> \o tail)
         /\ <<D3D!Step("leave"), Of("realRelease")>> \o tail
                 = <<D3D!Step("leave")>> \o (<<Of("realRelease")>> \o tail)
         /\ <<D3D!Step("leave"), Of("realRelease")>> \o tail \in Seq(Deeds)
         /\ <<Of("realRelease")>> \o tail \in Seq(Deeds) /\ tail \in Seq(Deeds)
<1>1. D3D!Step("leave") \in Deeds /\ Of("realRelease") \in Deeds /\ Ret \in Deeds
  BY Names DEF DeedNames
<1>2. tail \in Seq(Deeds) /\ <<D3D!Step("leave"), Of("realRelease")>> \in Seq(Deeds)
  BY <1>1, Short DEF Tails
<1>3. D3D!Each("free") = From("free", 0) /\ D3D!Each("free") \in Seq(Deeds)
  BY AllOf DEF DeedNames
<1>4. <<D3D!Step("leave"), Of("realRelease")>> \o tail
           = <<D3D!Step("leave")>> \o (<<Of("realRelease")>> \o tail)
  BY <1>1, <1>2, FirstOfTwo
<1>5. <<Of("realRelease")>> \o tail \in Seq(Deeds)
  BY <1>1, <1>2, SinglePut
<1>6. <<D3D!Step("leave"), Of("realRelease")>> \o tail \in Seq(Deeds)
  BY <1>1, <1>4, <1>5, SinglePut
<1>7. (D3D!Each("free") \o <<D3D!Step("leave"), Of("realRelease")>>) \o tail
        = D3D!Each("free") \o (<<D3D!Step("leave"), Of("realRelease")>> \o tail)
  BY <1>2, <1>3, ConcatAssociative
<1> QED
  BY <1>2, <1>3, <1>4, <1>5, <1>6, <1>7

\* Release counts the reference that the program has given up.
LEMMA FromReleasing ==
  ASSUME OneDevice, ~fault, Releasing, D3D!Next
  PROVE  Known' /\ ~fault'
<1>1. /\ Of("Release") \in Deeds /\ Of("Release").do = "Release" /\ Ret \in Deeds
      /\ Of("realRelease") \in Deeds
  BY Names DEF DeedNames
<1>2. todo = <<Of("Release")>> \o <<Ret>> /\ <<Ret>> \in Seq(Deeds)
      /\ <<Of("realRelease")>> \o <<Ret>> = <<Of("realRelease"), Ret>>
  BY <1>1, Short DEF Releasing
<1>3. D3D!Release /\ \A steps : D3D!Continue(steps) => todo' = steps \o <<Ret>>
  BY <1>1, <1>2, StepOf
<1>4. /\ Lent(1) /\ Counted(1, 1, FALSE) /\ pointers = alive /\ ~inRelease /\ (failures = 0 => alive = D3D!Ids)
  BY DEF Releasing
<1>5. Same /\ UNCHANGED <<pointers, Refs, returned, fault>>
  BY <1>3, <1>4, ReleaseCounted
<1>6. Lent(1)' /\ pointers' = alive' /\ Living' = Living
  BY <1>4, <1>5, OwedMoves DEF Same, Living
<1>7. CASE /\ D3D!Continue(<<Of("realRelease")>>) /\ ~inRelease' /\ (Owned > 0 => Counted(0, 0, FALSE)')
           /\ ~(failures = 0 /\ Owned = 0)
  <2>1. todo' = <<Of("realRelease"), Ret>>
    BY <1>2, <1>3, <1>7
  <2>2. Whole' /\ Gone'
    BY <1>4, <1>5, <1>7 DEF Whole, Gone, Same, D3D!Ids
  <2>3. LastReal'
    BY <1>5, <1>6, <1>7, <2>1, <2>2 DEF LastReal, Quiet, Same, Ret, D3D!Step, Of, D3D!On
  <2> QED
    BY <1>5, <2>3 DEF Known, Program
<1>8. CASE /\ D3D!Continue(D3D!Each("free") \o <<D3D!Step("leave"), Of("realRelease")>>)
           /\ inRelease' /\ deviceRefCount' = 0 /\ hooked
           /\ (failures = 0 => Owned = 0) /\ (Owned > 0 => inside /\ Owned + Living <= Surfaces)
  <2>1. <<Ret>> \in Tails /\ <<Ret>> # <<>>
    BY DEF Tails
  <2>2. todo' = From("free", 0) \o (<<D3D!Step("leave"), Of("realRelease")>> \o <<Ret>>)
    BY <1>3, <1>8, <2>1, LastFrees
  <2>3. FreeLast(0)'
    <3>1. alive' \subseteq 0+1..Surfaces
      BY <1>5, Sizes DEF Same, D3D!Ids
    <3>2. (todo = From("free", 0) \o (<<D3D!Step("leave"), Of("realRelease")>> \o <<Ret>>))'
      BY <1>5, <2>2 DEF From, D3D!Each, D3D!On, D3D!Step, Of, Ret, D3D!Ids, Same
    <3>3. <<Ret>>' = <<Ret>> /\ Tails' = Tails
      BY DEF Ret, D3D!Step, Of, D3D!On, Tails
    <3> QED
      BY <1>5, <1>6, <1>8, <2>1, <3>1, <3>2, <3>3 DEF FreeLast, Same
  <2> QED
    BY <1>5, <2>3, Numbers DEF Known
<1> QED
  BY <1>3, <1>4, <1>7, <1>8, ReleaseCounted

\* The back buffer is taken through the hooks, or past them.
LEMMA FromPresenting ==
  ASSUME OneDevice, ~fault, Presenting, D3D!Next
  PROVE  Known' /\ ~fault'
<1>1. Owned > 0 /\ Told /\ {-1, 0, 1} \subseteq -1..1 /\ inside \in BOOLEAN /\ <<>> \in Tails
  BY Sizes DEF Presenting, Tails
<1>2. CASE todo = <<Take, D3D!Step("capture")>> /\ Quiet(0, 0, 0)
  <2>1. /\ Take \in Deeds /\ Take.do = IF inside /\ hooked THEN "AddRef" ELSE "realAddRef"
        /\ D3D!Step("capture") \in Deeds
    BY Names DEF DeedNames
  <2>2. todo = <<Take>> \o <<D3D!Step("capture")>> /\ <<D3D!Step("capture")>> \in Seq(Deeds)
        /\ <<>> \o <<D3D!Step("capture")>> = <<D3D!Step("capture")>>
    BY <1>2, <2>1, Short, NothingBefore
  <2>3. hooked /\ Counted(0, 0, FALSE)
    BY <1>1, <1>2 DEF Quiet, Counted
  <2>4. CASE inside
    <3>1. D3D!AddRef /\ (D3D!Continue(<<>>) => todo' = <<D3D!Step("capture")>>)
      BY <2>1, <2>2, <2>3, <2>4, StepOf
    <3>2. /\ todo' = <<D3D!Step("capture")>> /\ Same /\ UNCHANGED <<pointers, inRelease, fault, returned>>
          /\ Refs' = Refs + 1
          /\ deviceRefCount' = (deviceRefCount + 1) % Word
      BY <3>1, Acts
    <3>3. Quiet(1, 1, 1)'
      BY <1>2, <3>2, QuietMoves
    <3>4. inside' /\ Quiet(1, 1, 0)'
      BY <2>4, <3>2, <3>3 DEF Quiet, Counted, Same
    <3> QED
      BY <1>1, <3>2, <3>4 DEF Known, Presenting, Told, Same, D3D!Step, Of, D3D!On
  <2>5. CASE ~inside
    <3>1. D3D!RealAddRef /\ (D3D!Continue(<<>>) => todo' = <<D3D!Step("capture")>>)
      BY <2>1, <2>2, <2>3, <2>5, StepOf
    <3>2. /\ todo' = <<D3D!Step("capture")>> /\ Same
          /\ UNCHANGED <<pointers, inRelease, fault, returned, deviceRefCount>>
          /\ Refs' = Refs + 1
      BY <3>1, Acts
    <3>3. Quiet(1, 0, 0)'
      BY <1>2, <3>2, QuietMoves
    <3>4. ~inside' /\ Quiet(1, 1, 0)'
      BY <2>5, <3>2, <3>3 DEF Quiet, Counted, Same
    <3> QED
      BY <1>1, <3>2, <3>4 DEF Known, Presenting, Told, Same, D3D!Step, Of, D3D!On
  <2> QED
    BY <1>1, <2>4, <2>5
<1>3. CASE todo = <<D3D!Step("capture")>> /\ Quiet(1, 1, 0)
  <2>1. /\ D3D!Step("capture") \in Deeds /\ D3D!Step("capture").do = "capture" /\ Of("Release") \in Deeds
        /\ Of("realRelease") \in Deeds
    BY Names DEF DeedNames
  <2>2. /\ todo = <<D3D!Step("capture")>> \o <<>> /\ <<>> \in Seq(Deeds) /\ <<>> \o <<>> = <<>>
        /\ <<Of("Release")>> \o <<>> = <<Of("Release")>>
        /\ <<Of("realRelease")>> \o <<>> = <<Of("realRelease")>>
    BY <1>3, <2>1, Short, NothingBefore
  <2>3. D3D!Capture /\ \A steps : D3D!Continue(steps) => todo' = steps \o <<>>
    BY <2>1, <2>2, StepOf
  <2>4. hooked /\ (Counted(1, 1, FALSE) \/ ~inside)
    BY <1>1, <1>3 DEF Quiet, Counted
  <2>5. CASE D3D!Continue(<<Give>>) /\ failures' = failures
    <3>1. Same /\ UNCHANGED <<pointers, inRelease, fault, returned, deviceRefCount, Refs>>
      BY <2>3, <2>5, LongActs DEF Same
    <3>2. Quiet(1, 1, 0)'
      BY <1>3, <3>1, QuietMoves
    <3>3. hooked
      BY <1>1, <1>3 DEF Quiet, Counted
    <3>4. CASE inside
      <4>1. todo' = <<Of("Release")>>
        BY <2>2, <2>3, <2>5, <3>3, <3>4, Names
      <4> QED
        BY <1>1, <3>1, <3>2, <3>4, <4>1 DEF Known, Presenting, Told, Same, D3D!Step, Of, D3D!On
    <3>5. CASE ~inside
      <4>1. todo' = <<Of("realRelease")>>
        BY <2>2, <2>3, <2>5, <3>3, <3>5, Names
      <4>2. Quiet(1, 0, 0)'
        BY <3>1, <3>2, <3>5 DEF Quiet, Counted, Same
      <4> QED
        BY <1>1, <3>1, <4>1, <4>2 DEF Known, Presenting, Told, Same, D3D!Step, Of, D3D!On
    <3> QED
      BY <1>1, <3>4, <3>5
  <2>6. CASE D3D!Continue(<<>>) /\ failures' = failures + 1
    <3>1. /\ todo' = <<>> /\ failures' = failures + 1
          /\ UNCHANGED <<hooked, inside, alive, Owned, pointers, inRelease, fault, returned, deviceRefCount, Refs>>
      BY <2>2, <2>3, <2>6, LongActs
    <3> DEFINE B == Balance(FALSE)
    <3>2. Owned \in Nat /\ failures \in Nat /\ Living \in Nat /\ Refs \in Nat /\ B \in Int /\ Surfaces \in Nat
      BY Sizes, Numbers
    <3>3. Living' = Living /\ B' = B
      BY <3>1 DEF Living, Balance
    <3>4. Lent(0)'
      BY <1>3, <3>1, <3>2, <3>3 DEF Quiet, Lent
    <3>5. Counted(1, 0, FALSE)
      BY <1>1, <1>3, <2>4, OneOfTwo DEF Quiet, Counted
    <3>6. Counted(0, 0, FALSE)'
      <4>1. /\ hooked
            /\ inside => Owned + Living + 1 - Surfaces <= B /\ B <= Owned + Living + 1 + failures
            /\ ~inside => B = Owned + 0
        BY <3>5 DEF Counted
      <4>2. /\ inside => Owned + Living + 0 - Surfaces <= B /\ B <= Owned + Living + 0 + (failures + 1)
            /\ failures + 1 # 0
        <5> HIDE DEF B
        <5> QED
          BY <3>2, <4>1
      <4>3. /\ hooked'
            /\ inside' => Owned' + Living' + 0 - Surfaces <= B' /\ B' <= Owned' + Living' + 0 + failures'
            /\ ~inside' => B' = Owned' + 0
            /\ failures' # 0
        <5> HIDE DEF B
        <5> QED
          BY <3>1, <3>3, <4>1, <4>2
      <4> QED
        BY <4>3 DEF Counted
    <3>7. failures' # 0 /\ pointers' = alive' /\ ~inRelease'
      BY <1>3, <3>1, <3>2 DEF Quiet
    <3> QED
      BY <3>1, <3>4, <3>6, <3>7 DEF Known, AtRest, Quiet, Whole, Told
  <2> QED
    BY <2>3, <2>5, <2>6, LongActs
<1>4. CASE todo = <<Of("Release")>> /\ inside /\ Quiet(1, 1, 0)
  <2>1. Of("Release") \in Deeds /\ Of("Release").do = "Release" /\ Of("realRelease") \in Deeds
    BY Names DEF DeedNames
  <2>2. /\ todo = <<Of("Release")>> \o <<>> /\ <<>> \in Seq(Deeds)
        /\ <<Of("realRelease")>> \o <<>> = <<Of("realRelease")>>
    BY <1>4, <2>1, Short
  <2>3. D3D!Release /\ \A steps : D3D!Continue(steps) => todo' = steps \o <<>>
    BY <2>1, <2>2, StepOf
  <2>4. /\ Lent(1) /\ Counted(1, 1, FALSE) /\ pointers = alive /\ ~inRelease /\ (failures = 0 => alive = D3D!Ids)
    <3>1. ~(Owned = 0) /\ Counted(1, 0, FALSE)
      <4>1. Owned > 0 /\ Quiet(1, 1, 0)
        BY <1>1, <1>4
      <4>2. ~(Owned = 0)
        BY <4>1, Sizes
      <4> QED
        BY <4>1, <4>2 DEF Quiet
    <3> QED
      BY <1>4, <3>1, OneOfTwo DEF Quiet, Whole
  <2>5. Same /\ UNCHANGED <<pointers, Refs, returned, fault>>
    BY <2>3, <2>4, ReleaseCounted
  <2>6. Lent(1)' /\ pointers' = alive' /\ Living' = Living /\ Owned' > 0 /\ Told'
    BY <1>1, <2>4, <2>5, OwedMoves DEF Same, Living, Told
  <2>7. CASE D3D!Continue(<<Of("realRelease")>>) /\ ~inRelease' /\ (Owned > 0 => Counted(0, 0, FALSE)')
    <3>1. todo' = <<Of("realRelease")>>
      BY <2>2, <2>3, <2>7
    <3>2. Whole'
      BY <2>4, <2>5, <2>6 DEF Whole, Same, D3D!Ids
    <3>3. Quiet(1, 0, 0)'
      BY <1>1, <2>6, <2>7, <3>2 DEF Quiet, Counted
    <3> QED
      BY <2>5, <2>6, <3>1, <3>3 DEF Known, Presenting, D3D!Step, Of, D3D!On, Same
  <2>8. CASE /\ D3D!Continue(D3D!Each("free") \o <<D3D!Step("leave"), Of("realRelease")>>)
             /\ inRelease' /\ deviceRefCount' = 0 /\ hooked
             /\ (failures = 0 => Owned = 0) /\ (Owned > 0 => inside /\ Owned + Living <= Surfaces)
    <3>1. todo' = From("free", 0) \o (<<D3D!Step("leave"), Of("realRelease")>> \o <<>>)
      BY <1>1, <2>3, <2>8, LastFrees
    <3>2. alive' \subseteq 0+1..Surfaces
      BY <2>5, Sizes DEF Same, D3D!Ids
    <3>3. (todo = From("free", 0) \o (<<D3D!Step("leave"), Of("realRelease")>> \o <<>>))'
      BY <2>5, <3>1 DEF From, D3D!Each, D3D!On, D3D!Step, Of, D3D!Ids, Same
    <3>4. Tails' = Tails
      BY DEF Ret, D3D!Step, Of, D3D!On, Tails
    <3>5. FreeLast(0)'
      BY <1>1, <2>5, <2>6, <2>8, <3>2, <3>3, <3>4 DEF FreeLast, Same
    <3> QED
      BY <2>5, <3>5, Numbers DEF Known
  <2> QED
    BY <2>3, <2>4, <2>7, <2>8, ReleaseCounted
<1>5. CASE todo = <<Of("realRelease")>> /\ Quiet(1, 0, 0)
  <2>1. Of("realRelease") \in Deeds /\ Of("realRelease").do = "realRelease"
    BY Names DEF DeedNames
  <2>2. todo = <<Of("realRelease")>> \o <<>> /\ <<>> \in Seq(Deeds) /\ <<>> \o <<>> = <<>>
    BY <1>5, <2>1, Short, NothingBefore
  <2>3. D3D!RealRelease /\ (D3D!Continue(<<>>) => todo' = <<>>)
    BY <2>1, <2>2, StepOf
  <2>4. Refs > 0
    BY Sizes, <1>5 DEF Quiet, Lent
  <2>5. /\ todo' = <<>> /\ Same /\ UNCHANGED <<pointers, inRelease, deviceRefCount, returned>>
        /\ Refs' = Refs - 1 /\ ~fault'
    BY <2>3, <2>4, RealReleased
  <2>6. Quiet(0, 0, 0)'
    BY <1>5, <2>5, QuietMoves
  <2> QED
    BY <1>1, <2>5, <2>6 DEF Known, AtRest, Told, Same
<1> QED
  BY <1>2, <1>3, <1>4, <1>5 DEF Presenting

\* Reset protects the count before the surfaces go.
LEMMA FromProtecting ==
  ASSUME OneDevice, ~fault, Protecting, D3D!Next
  PROVE  Known' /\ ~fault'
<1> DEFINE rest == From("free", 0) \o <<D3D!Step("reset")>>
<1>1. D3D!Step("protect") \in Deeds /\ D3D!Step("protect").do
           = "protect" /\ rest \in Seq(Deeds) /\ <<>> \o rest = rest
      /\ todo = <<D3D!Step("protect")>> \o rest
  <2>1. /\ D3D!Step("reset") \in Deeds /\ D3D!Step("protect") \in Deeds /\ D3D!Step("protect").do = "protect"
        /\ 0 \in 0..Surfaces
    BY Names, Numbers DEF DeedNames
  <2>2. <<D3D!Step("reset")>> \in Seq(Deeds)
    BY <2>1, Single
  <2>3. rest \in Seq(Deeds)
    BY <2>1, <2>2, FromType DEF DeedNames
  <2> QED
    BY <2>1, <2>3, NothingBefore DEF Protecting
<1>2. rest' = rest
  BY DEF From, D3D!Each, D3D!On, D3D!Step, Of, D3D!Ids
<1> HIDE DEF rest
<1>3. D3D!Protect /\ ~D3D!At("unprotect") /\ (D3D!Continue(<<>>) => todo' = rest)
  <2> DEFINE a == D3D!Step("protect")
  <2>1. a \in Deeds /\ a.do = "protect" /\ rest \in Seq(Deeds) /\ todo = <<a>> \o rest /\ <<>> \o rest = rest
    BY <1>1
  <2> HIDE DEF a
  <2>2. /\ \A name : D3D!At(name) <=> name = a.do
        /\ \A steps : D3D!Continue(steps) <=> todo' = steps \o rest
        /\ a.do \in {"protect", "unprotect"} => D3D!Protect
    BY <2>1, StepOf
  <2>3. /\ D3D!At("protect") /\ ~D3D!At("unprotect") /\ D3D!Protect
    BY <2>1, <2>2
  <2>4. D3D!Continue(<<>>) => todo' = rest
    BY <2>1, <2>2
  <2> QED
    BY <2>3, <2>4
<1>4. /\ todo' = rest /\ Same /\ UNCHANGED <<pointers, inRelease, fault, returned, Refs>>
      /\ deviceRefCount' = (deviceRefCount + Protection) % Word
  BY <1>3, LongActs
<1>5. /\ Counted(0, 0, FALSE) /\ Lent(0) /\ Owned > 0 /\ pointers = alive /\ ~inRelease
      /\ (failures = 0 => alive = D3D!Ids) /\ Told
  <2>1. Owned > 0 /\ ~(Owned = 0) /\ Quiet(0, 0, 0) /\ Told
    BY Sizes DEF Protecting
  <2> QED
    BY <2>1 DEF Quiet, Whole
<1>6. Counted(0, 0, TRUE)'
  <2>1. FALSE \in BOOLEAN /\ 0 \in -1..1
    OBVIOUS
  <2>2. -Protection < Balance(FALSE) /\ Balance(FALSE) <= Protection
    BY <1>5, <2>1, InRange
  <2>3. Balance(TRUE)' = Balance(FALSE)
    BY <1>4, <2>2, ProtectedCount
  <2>4. Living' = Living
    BY <1>4 DEF Living, Same
  <2> QED
    BY <1>4, <1>5, <2>3, <2>4 DEF Counted, Same
<1>7. Lent(0)' /\ pointers' = alive' /\ Owned' > 0 /\ Told' /\ ~inRelease' /\ (failures' = 0 => alive' = D3D!Ids)
  BY <1>4, <1>5, OwedMoves DEF Same, Told
<1>8. alive' \subseteq 0+1..Surfaces /\ D3D!Ids = 0+1..Surfaces
  BY <1>4, Sizes DEF Same, D3D!Ids
<1>9. FreeReset(0)'
  BY <1>2, <1>4, <1>6, <1>7, <1>8 DEF FreeReset, rest
<1> QED
  BY <1>4, <1>9, Numbers DEF Known

-----------------------------------------------------------------------------
(* A device is made, with its surfaces. *)

\* The steps that follow a surface's depend on nothing that changes.
LEMMA Fixed ==
  ASSUME NEW name, NEW k
  PROVE  /\ From(name, k)' = From(name, k) /\ D3D!Step(name)' = D3D!Step(name)
         /\ D3D!On(name, k)' = D3D!On(name, k) /\ Ret' = Ret
BY DEF From, D3D!Each, D3D!On, D3D!Step, Of, D3D!Ids, Ret

\* Nor do those of the device, while it is the same.
LEMMA FixedOf ==
  ASSUME UNCHANGED <<dev, inside, hooked>>, NEW name
  PROVE  Of(name)' = Of(name) /\ Take' = Take /\ Give' = Give
BY DEF Of, D3D!On, Take, Give

\* Direct3D takes a reference of its own, which the hooks see or not.
LEMMA OwnAdded ==
  ASSUME OneDevice, D3D!Next, NEW rest \in Seq(Deeds), todo = <<Take>> \o rest
  PROVE  /\ todo' = rest /\ Same /\ UNCHANGED <<pointers, inRelease, fault, returned>> /\ Refs' = Refs + 1
         /\ ~D3D!At("create")
         /\ deviceRefCount' = IF inside /\ hooked THEN (deviceRefCount + 1) % Word ELSE deviceRefCount
<1> DEFINE a == Take
<1>1. a \in Deeds /\ a.do = IF inside /\ hooked THEN "AddRef" ELSE "realAddRef"
  BY Names
<1>2. <<>> \o rest = rest
  BY NothingBefore
<1>3. todo = <<a>> \o rest
  OBVIOUS
<1> HIDE DEF a
<1>4. /\ \A steps : D3D!Continue(steps) <=> todo' = steps \o rest
      /\ \A name : D3D!At(name) <=> name = a.do
      /\ a.do = "AddRef" => D3D!AddRef
      /\ a.do = "realAddRef" => D3D!RealAddRef
  BY <1>1, <1>3, StepOf
<1>5. CASE inside /\ hooked
  <2>1. D3D!AddRef /\ ~D3D!At("create")
    BY <1>1, <1>4, <1>5
  <2> QED
    BY <1>2, <1>4, <1>5, <2>1, Acts
<1>6. CASE ~(inside /\ hooked)
  <2>1. D3D!RealAddRef /\ ~D3D!At("create")
    BY <1>1, <1>4, <1>6
  <2> QED
    BY <1>2, <1>4, <1>6, <2>1, Acts
<1> QED
  BY <1>5, <1>6

\* Without the first surface there is no other; without another the next is tried.
Following(k) == IF k = 0 THEN Surfaces ELSE k + 1

\* What is skipped with a surface that is not made.
LEMMA Skipped ==
  ASSUME NEW k \in 0..Surfaces, k < Surfaces, NEW last \in Seq(Deeds), todo = From("create", k) \o last
  PROVE  SubSeq(todo, IF k + 1 = 1 THEN Surfaces + 1 ELSE 2, Len(todo)) = From("create", Following(k)) \o last
<1>0. "create" \in DeedNames /\ Surfaces \in Nat /\ k \in Nat
  BY Numbers DEF DeedNames
<1>1. CASE k = 0
  <2> DEFINE s == D3D!Each("create")
             t == s \o last
             u == SubSeq(t, Surfaces + 1, Len(t))
  <2>1. s \in Seq(Deeds) /\ Len(s) = Surfaces /\ todo = t
    BY <1>0, <1>1, EachType, AllOf
  <2>2. From("create", Surfaces) \o last = last
    BY <1>0, FromEnd
  <2> HIDE DEF s
  <2>3. t \in Seq(Deeds) /\ Len(t) = Surfaces + Len(last) /\ \A i \in 1..Len(last) : t[Surfaces + i] = last[i]
    BY <1>0, <2>1
  <2> HIDE DEF t
  <2>4. u \in Seq(Deeds) /\ Len(u) = Len(last) /\ \A i \in 1..Len(last) : u[i] = t[Surfaces + i]
    BY <1>0, <2>3
  <2> HIDE DEF u
  <2>5. \A i \in 1..Len(u) : u[i] = last[i]
    BY <2>3, <2>4
  <2>6. u = last
    BY <2>4, <2>5, SeqEqual
  <2>7. SubSeq(todo, Surfaces + 1, Len(todo)) = last
    BY <2>1, <2>6 DEF u
  <2>8. (IF k + 1 = 1 THEN Surfaces + 1 ELSE 2) = Surfaces + 1 /\ Following(k) = Surfaces
    BY <1>1 DEF Following
  <2> QED
    BY <2>2, <2>7, <2>8
<1>2. CASE k # 0
  <2> DEFINE a == D3D!On("create", k+1)
             next == From("create", k+1) \o last
  <2>1. todo = <<a>> \o next /\ a \in Deeds /\ next \in Seq(Deeds)
    BY <1>0, FromNext
  <2> HIDE DEF a, next
  <2>2. Tail(todo) = next /\ Tail(todo) = SubSeq(todo, 2, Len(todo))
    BY <2>1, First
  <2>3. k + 1 # 1
    BY <1>0, <1>2
  <2> QED
    BY <1>2, <2>2, <2>3 DEF next, Following
<1> QED
  BY <1>1, <1>2

\* One surface more, if it can be made.
LEMMA SurfaceMade ==
  ASSUME OneDevice, D3D!CreateSurface, pointers = alive, NEW k \in 0..Surfaces, k < Surfaces, D3D!This = k + 1,
         alive \subseteq 1..k, failures = 0 => alive = 1..k, NEW last \in Seq(Deeds), todo = From("create", k) \o last
  PROVE  /\ UNCHANGED <<deviceRefCount, inRelease, hooked, inside, Refs, Owned, dev, returned, fault>>
         /\ pointers' = alive'
         /\ \/ /\ D3D!Continue(<<Take>>) /\ Living' = Living + 1 /\ failures' = failures
               /\ alive' \subseteq 1..k+1 /\ (failures' = 0 => alive' = 1..k+1)
            \/ /\ todo' = From("create", Following(k)) \o last /\ Living' = Living /\ failures' = failures + 1
               /\ Following(k) \in 0..Surfaces /\ alive' \subseteq 1..Following(k) /\ failures' # 0
<1>0. Surfaces \in Nat /\ failures \in Nat /\ k \in Nat /\ alive \subseteq D3D!Ids
  BY Numbers, Sizes
<1>1. 1..k+1 = (1..k) \union {k + 1} /\ k + 1 \notin 1..k /\ k + 1 \in D3D!Ids
  <2>1. \A m \in Nat : 1..m+1 = (1..m) \union {m + 1} /\ m + 1 \notin 1..m
    BY SMT
  <2> QED
    BY <1>0, <2>1 DEF D3D!Ids
<1>2. /\ UNCHANGED <<deviceRefCount, inRelease, hooked, inside, Refs, Owned, dev, returned, fault>>
      /\ \/ /\ pointers' = pointers \union {D3D!This} /\ alive' = alive \union {D3D!This}
            /\ D3D!Continue(<<Take>>) /\ failures' = failures
         \/ /\ UNCHANGED <<pointers, alive>> /\ failures' = failures + 1
            /\ todo' = SubSeq(todo, IF D3D!This = 1 THEN Surfaces + 1 ELSE 2, Len(todo))
  BY LongActs
<1>3. CASE /\ pointers' = pointers \union {D3D!This} /\ alive' = alive \union {D3D!This}
           /\ D3D!Continue(<<Take>>) /\ failures' = failures
  <2>1. D3D!This \in D3D!Ids \ alive
    BY <1>1
  <2>2. Living' = Living + 1
    BY <1>0, <1>3, <2>1, SurfacesCounted DEF Living
  <2> QED
    BY <1>1, <1>2, <1>3, <2>2
<1>4. CASE /\ UNCHANGED <<pointers, alive>> /\ failures' = failures + 1
           /\ todo' = SubSeq(todo, IF D3D!This = 1 THEN Surfaces + 1 ELSE 2, Len(todo))
  <2>1. Living' = Living /\ failures' # 0
    BY <1>0, <1>4 DEF Living
  <2>2. todo' = From("create", Following(k)) \o last
    BY <1>4, Skipped
  <2>3. Following(k) \in 0..Surfaces /\ k <= Following(k)
    BY <1>0 DEF Following
  <2>4. alive' \subseteq 1..Following(k)
    BY <1>0, <1>4, <2>3
  <2> QED
    BY <1>2, <1>4, <2>1, <2>2, <2>3, <2>4
<1> QED
  BY <1>2, <1>3, <1>4

\* CreateDevice makes the surfaces one by one and starts to count after that.
LEMMA FromDevice ==
  ASSUME OneDevice, ~fault, NEW k \in 0..Surfaces, Device(k), D3D!Next
  PROVE  Known' /\ ~fault' /\ (D3D!At("create") => D3D!This \in D3D!Ids)
<1> DEFINE last == <<D3D!Step("count")>>
           rest == From("create", k) \o last
           next == From("create", k + 1) \o last
<1>1. D3D!Step("count") \in Deeds /\ D3D!Step("count").do = "count" /\ "create" \in DeedNames
  BY Names DEF DeedNames
<1>2. last \in Seq(Deeds) /\ <<>> \in Seq(Deeds) /\ last = <<D3D!Step("count")>> \o <<>> /\ <<>> \o <<>> = <<>>
  BY <1>1, Short, NothingBefore
<1>3. rest \in Seq(Deeds) /\ <<>> \o rest = rest
  <2> HIDE DEF last
  <2>1. rest \in Seq(Deeds)
    BY <1>1, <1>2, FromType
  <2> HIDE DEF rest
  <2> QED
    BY <2>1, NothingBefore
<1>4. /\ Owned = 1 /\ ~inRelease /\ pointers = alive /\ alive \subseteq 1..k /\ (failures = 0 => alive = 1..k) /\ Told
      /\ \/ todo = rest /\ Lent(0)
         \/ todo = <<Take>> \o rest /\ Lent(-1)
  BY DEF Device
<1>5. rest' = rest /\ next' = next /\ last' = last
  BY Fixed
<1>6. /\ Owned \in Nat /\ failures \in Nat /\ Living \in Nat /\ Refs \in Nat /\ Surfaces \in Nat /\ k \in Nat
      /\ k <= Surfaces
      /\ Protection \in Nat /\ Protection > 1
  BY Sizes, Numbers
<1>7. CASE todo = <<Take>> \o rest /\ Lent(-1)
  <2> HIDE DEF rest, next, last
  <2>3. /\ todo' = rest /\ Same /\ UNCHANGED <<pointers, inRelease, fault, returned>> /\ Refs' = Refs + 1
        /\ ~D3D!At("create")
    BY <1>3, <1>7, OwnAdded
  <2>4. Lent(0)'
    BY <1>7, <2>3, OwedMoves
  <2>5. Device(k)'
    BY <1>4, <1>5, <2>3, <2>4 DEF Device, Same, Told, rest, last
  <2> QED
    BY <2>3, <2>5 DEF Known
<1>8. CASE todo = rest /\ Lent(0) /\ k < Surfaces
  <2>1. /\ rest = <<D3D!On("create", k+1)>> \o next /\ next \in Seq(Deeds) /\ D3D!On("create", k+1) \in Deeds
        /\ k+1 \in 0..Surfaces /\ k+1 \in D3D!Ids
    BY <1>1, <1>2, <1>8, FromNext
  <2>2. D3D!On("create", k+1).do = "create" /\ D3D!On("create", k+1).on = k+1
    BY <1>1, <1>6, Names
  <2> HIDE DEF rest, next, last
  <2>3. /\ D3D!CreateSurface /\ D3D!This = k+1 /\ (\A steps : D3D!Continue(steps) => todo' = steps \o next)
        /\ <<>> \o next = next
    BY <1>8, <2>1, <2>2, StepOf, NothingBefore
  <2>4. /\ UNCHANGED <<deviceRefCount, inRelease, hooked, inside, Refs, Owned, dev, returned, fault>>
        /\ pointers' = alive'
        /\ \/ /\ D3D!Continue(<<Take>>) /\ Living' = Living + 1 /\ failures' = failures
              /\ alive' \subseteq 1..k+1 /\ (failures' = 0 => alive' = 1..k+1)
           \/ /\ todo' = From("create", Following(k)) \o last /\ Living' = Living /\ failures' = failures + 1
              /\ Following(k) \in 0..Surfaces /\ alive' \subseteq 1..Following(k) /\ failures' # 0
    BY <1>2, <1>4, <1>8, <2>1, <2>3, SurfaceMade DEF rest
  <2>5. Take' = Take /\ (failures' = failures \/ failures' # 0 => Told')
    BY <1>4, <1>6, <2>4 DEF Take, D3D!Step, Of, D3D!On, Told
  <2>6. ASSUME D3D!Continue(<<Take>>), Living' = Living + 1, failures' = failures,
               alive' \subseteq 1..k+1, failures' = 0 => alive' = 1..k+1
        PROVE  Known'
    <3>1. Lent(-1)'
      BY <1>6, <1>8, <2>4, <2>6 DEF Lent
    <3>2. todo' = <<Take>> \o next
      BY <2>3, <2>6
    <3>3. Device(k+1)'
      BY <1>4, <1>5, <2>4, <2>5, <2>6, <3>1, <3>2 DEF Device, next, last
    <3> QED
      BY <2>1, <3>3 DEF Known
  <2>7. ASSUME todo' = From("create", Following(k)) \o last, Living' = Living, failures' = failures + 1,
               Following(k) \in 0..Surfaces, alive' \subseteq 1..Following(k), failures' # 0
        PROVE  Known'
    <3>1. Lent(0)'
      BY <1>6, <1>8, <2>4, <2>7 DEF Lent
    <3> DEFINE j == Following(k)
    <3>2. j \in 0..Surfaces /\ (todo = From("create", j) \o <<D3D!Step("count")>>)' /\ j' = j
      BY <1>5, <2>7, Fixed DEF last, Next
    <3> HIDE DEF j
    <3>3. Device(j)'
      BY <1>4, <2>4, <2>5, <2>7, <3>1, <3>2 DEF Device, j
    <3> QED
      BY <3>2, <3>3 DEF Known
  <2> QED
    BY <2>1, <2>3, <2>4, <2>6, <2>7
<1>9. CASE todo = rest /\ Lent(0) /\ k = Surfaces
  <2>1. todo = <<D3D!Step("count")>> \o <<>>
    BY <1>1, <1>2, <1>9, FromEnd
  <2> HIDE DEF rest, next, last
  <2>2. D3D!CountDevice /\ ~D3D!At("create") /\ (D3D!Continue(<<>>) => todo' = <<>>)
    <3> DEFINE a == D3D!Step("count")
    <3>1. a \in Deeds /\ a.do = "count" /\ todo = <<a>> \o <<>>
      BY <1>1, <2>1
    <3> HIDE DEF a
    <3>2. /\ \A steps : D3D!Continue(steps) <=> todo' = steps \o <<>>
          /\ \A name : D3D!At(name) <=> name = a.do
          /\ a.do = "count" => D3D!CountDevice
      BY <1>2, <3>1, StepOf
    <3>3. ~D3D!At("create")
      BY <3>1, <3>2
    <3>4. D3D!Continue(<<>>) => todo' = <<>> \o <<>>
      BY <3>2
    <3> QED
      BY <1>2, <3>1, <3>2, <3>3, <3>4
  <2>3. /\ todo' = <<>> /\ deviceRefCount' = 1 /\ hooked'
        /\ UNCHANGED <<inRelease, pointers, inside, alive, Refs, Owned, dev, returned, fault, failures>>
    BY <2>2, LongActs
  <2>4. /\ Living' = Living /\ (failures = 0 => Living = Surfaces) /\ Living <= Surfaces
        /\ (failures = 0 => alive = D3D!Ids)
    BY <1>4, <1>9, <2>3, Sizes, SurfacesCounted DEF Living, D3D!Ids
  <2>5. Balance(FALSE)' = 1
    BY <1>6, <2>3 DEF Balance
  <2>6. Counted(0, 0, FALSE)' /\ Lent(0)'
    <3>1. Lent(0)'
      BY <1>6, <1>9, <2>3, <2>4 DEF Lent
    <3>2. /\ Owned' + Living' + 0 - Surfaces <= 1 /\ 1 <= Owned' + Living' + 0 + failures'
          /\ failures' = 0 => 1 = Owned' + Living' + 0 - Surfaces
          /\ 1 = Owned' + 0
      BY <1>4, <1>6, <2>3, <2>4
    <3> QED
      BY <2>3, <2>5, <3>1, <3>2 DEF Counted
  <2>7. Whole' /\ Told' /\ pointers' = alive' /\ ~inRelease'
    BY <1>4, <2>3, <2>4 DEF Whole, Told, D3D!Ids
  <2> QED
    BY <2>2, <2>3, <2>6, <2>7 DEF Known, AtRest, Quiet
<1> QED
  BY <1>4, <1>6, <1>7, <1>8, <1>9

-----------------------------------------------------------------------------
(* The surfaces are given up. *)

\* One surface less; its reference goes with it, its pointer after that.
LEMMA SurfaceFreed ==
  ASSUME OneDevice, ~fault, D3D!FreeSurface, pointers = alive,
         NEW k \in 0..Surfaces, D3D!This = k + 1, alive \subseteq k+1..Surfaces
  PROVE  /\ UNCHANGED <<deviceRefCount, inRelease, hooked, inside, pointers, Refs, Owned, dev, returned,
                 failures>>
         /\ ~fault' /\ alive' = alive \ {k+1} /\ alive' \subseteq k+2..Surfaces
         /\ \/ /\ k+1 \in alive /\ D3D!Continue(<<Give, D3D!On("clear", k+1)>>) /\ Living' = Living - 1
               /\ pointers' = alive' \union {k+1}
            \/ k+1 \notin alive /\ D3D!Continue(<<>>) /\ Living' = Living /\ pointers' = alive' /\ alive' = alive
<1>1. k \in Nat /\ Surfaces \in Nat /\ alive \subseteq D3D!Ids
  BY Numbers, Sizes
<1>2. /\ UNCHANGED <<deviceRefCount, inRelease, hooked, inside, pointers, Refs, Owned, dev, returned, failures>>
      /\ k+1 \in pointers =>
           /\ D3D!Continue(<<Give, D3D!On("clear", k+1)>>) /\ alive' = alive \ {k+1}
           /\ fault' = (fault \/ k+1 \notin alive)
      /\ k+1 \notin pointers => D3D!Continue(<<>>) /\ UNCHANGED <<alive, fault>>
  BY Acts
<1>3. \A s \in alive \ {k+1} : s \in k+2..Surfaces
  BY <1>1
<1>4. CASE k+1 \in pointers
  <2>1. D3D!Continue(<<Give, D3D!On("clear", k+1)>>) /\ alive' = alive \ {k+1} /\ fault' = (fault \/ k+1 \notin alive)
    BY <1>2, <1>4
  <2>2. Living' = Living - 1
    BY <1>1, <1>4, <2>1, SurfacesCounted DEF Living
  <2>3. ~fault'
    BY <1>4, <2>1
  <2>4. pointers' = alive' \union {k+1}
    BY <1>2, <1>4, <2>1
  <2> QED
    BY <1>2, <1>3, <1>4, <2>1, <2>2, <2>3, <2>4
<1>5. CASE k+1 \notin pointers
  <2>1. D3D!Continue(<<>>) /\ alive' = alive /\ fault' = fault
    BY <1>2, <1>5
  <2>2. alive' = alive \ {k+1} /\ Living' = Living
    BY <1>5, <2>1 DEF Living
  <2> QED
    BY <1>2, <1>3, <1>5, <2>1, <2>2
<1> QED
  BY <1>4, <1>5

\* What follows a surface, and the surface's own steps.
LEMMA FreeingSteps ==
  ASSUME OneDevice, NEW k \in 0..Surfaces, NEW last \in Seq(Deeds)
  PROVE  /\ From("free", k) \o last \in Seq(Deeds)
         /\ k < Surfaces =>
              /\ From("free", k) \o last = <<D3D!On("free", k+1)>> \o (From("free", k+1) \o last)
              /\ From("free", k+1) \o last \in Seq(Deeds) /\ k+1 \in 0..Surfaces /\ k+1 > 0
              /\ D3D!On("free", k+1) \in Deeds /\ D3D!On("free", k+1).do = "free" /\ D3D!On("free", k+1).on = k+1
              /\ Give \in Deeds
              /\ <<Give, D3D!On("clear", k+1)>> \o (From("free", k+1) \o last)
                   = <<Give>> \o (<<D3D!On("clear", k+1)>> \o (From("free", k+1) \o last))
         /\ D3D!On("clear", k) \in Deeds /\ D3D!On("clear", k).do = "clear" /\ D3D!On("clear", k).on = k
         /\ \A name \in {"Release", "realRelease"} :
              /\ Of(name) \in Deeds /\ Of(name).do = name
              /\ <<Of(name), D3D!On("clear", k)>> \o (From("free", k) \o last)
                   = <<Of(name)>> \o (<<D3D!On("clear", k)>> \o (From("free", k) \o last))
         /\ <<D3D!On("clear", k)>> \o (From("free", k) \o last) \in Seq(Deeds)
<1>1. "free" \in DeedNames /\ "clear" \in DeedNames /\ {"Release", "realRelease"} \subseteq DeedNames
      /\ k \in Nat /\ Surfaces \in Nat /\ (k < Surfaces => k+1 \in 0..Surfaces /\ k+1 \in Nat /\ k+1 > 0)
  BY Numbers DEF DeedNames
<1>2. /\ \A s \in Nat : D3D!On("clear", s) \in Deeds /\ D3D!On("clear", s).do = "clear" /\ D3D!On("clear", s).on = s
      /\ \A s \in Nat : D3D!On("free", s) \in Deeds /\ D3D!On("free", s).do = "free" /\ D3D!On("free", s).on = s
      /\ \A name \in {"Release", "realRelease"} : Of(name) \in Deeds /\ Of(name).do = name
  BY <1>1, Names
<1>3. Give \in Deeds
  <2>1. CASE inside /\ hooked
    BY <1>2, <2>1 DEF Give
  <2>2. CASE ~(inside /\ hooked)
    BY <1>2, <2>2 DEF Give
  <2> QED
    BY <2>1, <2>2
<1> DEFINE rest == From("free", k) \o last
           next == From("free", k+1) \o last
<1>4. rest \in Seq(Deeds)
  BY <1>1, FromType
<1>5. k < Surfaces => rest = <<D3D!On("free", k+1)>> \o next /\ next \in Seq(Deeds)
  BY <1>1, FromNext
<1> HIDE DEF rest, next
<1>6. /\ <<D3D!On("clear", k)>> \o rest \in Seq(Deeds)
      /\ \A name \in {"Release", "realRelease"} :
           <<Of(name), D3D!On("clear", k)>> \o rest = <<Of(name)>> \o (<<D3D!On("clear", k)>> \o rest)
  <2>1. D3D!On("clear", k) \in Deeds
    BY <1>1, <1>2
  <2>2. <<D3D!On("clear", k)>> \o rest \in Seq(Deeds)
    BY <1>4, <2>1, SinglePut
  <2>3. ASSUME NEW name \in {"Release", "realRelease"}
        PROVE  <<Of(name), D3D!On("clear", k)>> \o rest = <<Of(name)>> \o (<<D3D!On("clear", k)>> \o rest)
    <3>1. Of(name) \in Deeds
      BY <1>2
    <3> QED
      BY <1>4, <2>1, <3>1, FirstOfTwo
  <2> QED
    BY <2>2, <2>3
<1>7. k < Surfaces => <<Give, D3D!On("clear", k+1)>> \o next
           = <<Give>> \o (<<D3D!On("clear", k+1)>> \o next)
  <2> SUFFICES ASSUME k < Surfaces
               PROVE  <<Give, D3D!On("clear", k+1)>> \o next
                           = <<Give>> \o (<<D3D!On("clear", k+1)>> \o next)
    OBVIOUS
  <2>1. D3D!On("clear", k+1) \in Deeds /\ next \in Seq(Deeds)
    BY <1>1, <1>2, <1>5
  <2> QED
    BY <1>3, <2>1, FirstOfTwo
<1> QED
  BY <1>1, <1>2, <1>3, <1>4, <1>5, <1>6, <1>7 DEF rest, next

\* The next surface is given up: its reference is owed until it is released.
LEMMA FreeingNext ==
  ASSUME OneDevice, ~fault, D3D!Next, NEW k \in 0..Surfaces, k < Surfaces,
         NEW last \in Seq(Deeds), todo = From("free", k) \o last,
         pointers = alive, alive \subseteq k+1..Surfaces, NEW r \in -1..1, Lent(r)
  PROVE  /\ UNCHANGED <<deviceRefCount, inRelease, hooked, inside, Refs, Owned, dev, returned, failures>>
         /\ ~fault' /\ alive' = alive \ {k+1} /\ alive' \subseteq (k+1)+1..Surfaces /\ ~D3D!At("create")
         /\ \/ /\ todo' = <<Give, D3D!On("clear", k+1)>> \o (From("free", k+1) \o last)
               /\ Living' = Living - 1 /\ Lent(r+1)' /\ pointers' = alive' \union {k+1}
            \/ todo' = From("free", k+1) \o last /\ Living' = Living /\ Lent(r)' /\ pointers' = alive'
<1> DEFINE next == From("free", k+1) \o last
           a == D3D!On("free", k+1)
           own == <<Give, D3D!On("clear", k+1)>>
<1>1. /\ todo = <<a>> \o next /\ next \in Seq(Deeds) /\ k+1 \in 0..Surfaces
      /\ a \in Deeds /\ a.do = "free" /\ a.on = k+1
  BY FreeingSteps
<1> HIDE DEF next, a, own
<1>2. /\ D3D!This = a.on /\ \A name : D3D!At(name) <=> name = a.do
      /\ \A steps : D3D!Continue(steps) <=> todo' = steps \o next
      /\ a.do = "free" => D3D!FreeSurface
  BY <1>1, StepOf
<1>3. D3D!FreeSurface /\ D3D!This = k+1 /\ ~D3D!At("create")
  BY <1>1, <1>2
<1>4. /\ UNCHANGED <<deviceRefCount, inRelease, hooked, inside, Refs, Owned, dev, returned, failures>>
      /\ ~fault' /\ alive' = alive \ {k+1} /\ alive' \subseteq k+2..Surfaces
      /\ \/ k+1 \in alive /\ D3D!Continue(own) /\ Living' = Living - 1 /\ pointers' = alive' \union {k+1}
         \/ k+1 \notin alive /\ D3D!Continue(<<>>) /\ Living' = Living /\ pointers' = alive'
  BY <1>3, SurfaceFreed DEF own
<1>5. Owned \in Nat /\ failures \in Nat /\ Living \in Nat /\ Refs \in Nat /\ (k+1)+1 = k+2 /\ k+1 \in Nat
  BY Sizes
<1>6. CASE k+1 \in alive /\ D3D!Continue(own) /\ Living' = Living - 1 /\ pointers' = alive' \union {k+1}
  <2>1. Lent(r+1)'
    BY <1>4, <1>5, <1>6 DEF Lent
  <2>2. todo' = own \o next
    BY <1>2, <1>6
  <2> QED
    BY <1>3, <1>4, <1>5, <1>6, <2>1, <2>2 DEF own, next
<1>7. CASE k+1 \notin alive /\ D3D!Continue(<<>>) /\ Living' = Living /\ pointers' = alive'
  <2>1. Lent(r)'
    BY <1>4, <1>5, <1>7 DEF Lent
  <2>2. todo' = next
    BY <1>1, <1>2, <1>7, NothingBefore
  <2> QED
    BY <1>3, <1>4, <1>5, <1>7, <2>1, <2>2 DEF next
<1> QED
  BY <1>4, <1>6, <1>7

\* Then the reference and the pointer go.
LEMMA FreedNext ==
  ASSUME OneDevice, ~fault, D3D!Next, NEW k \in 0..Surfaces, NEW last \in Seq(Deeds), alive \subseteq k+1..Surfaces,
         pointers = alive \union {k}
  PROVE  LET rest == From("free", k) \o last IN
         /\ todo = <<Of("Release"), D3D!On("clear", k)>> \o rest =>
              /\ D3D!Release /\ ~D3D!At("create")
              /\ D3D!Continue(<<Of("realRelease")>>)
                      => todo' = <<Of("realRelease"), D3D!On("clear", k)>> \o rest
         /\ todo = <<Of("realRelease"), D3D!On("clear", k)>> \o rest /\ Refs > 0 =>
              /\ todo' = <<D3D!On("clear", k)>> \o rest /\ Same /\ Refs' = Refs - 1 /\ ~fault' /\ ~D3D!At("create")
              /\ UNCHANGED <<pointers, inRelease, deviceRefCount, returned>>
         /\ todo = <<D3D!On("clear", k)>> \o rest =>
              /\ todo' = rest /\ pointers' = alive' /\ Same /\ ~fault' /\ ~D3D!At("create")
              /\ UNCHANGED <<inRelease, deviceRefCount, returned, Refs>>
<1> DEFINE rest == From("free", k) \o last
           clear == D3D!On("clear", k)
           more == <<clear>> \o rest
<1>1. /\ rest \in Seq(Deeds) /\ clear \in Deeds /\ clear.do = "clear" /\ clear.on = k /\ more \in Seq(Deeds)
      /\ \A name \in {"Release", "realRelease"} :
           /\ Of(name) \in Deeds /\ Of(name).do = name
           /\ <<Of(name), clear>> \o rest = <<Of(name)>> \o more
  BY FreeingSteps
<1>2. <<>> \o rest = rest
  <2> HIDE DEF rest
  <2> QED
    BY <1>1, NothingBefore
<1>3. <<>> \o more = more
  <2> HIDE DEF more
  <2> QED
    BY <1>1, NothingBefore
<1> HIDE DEF rest, clear, more
<1>4. ASSUME todo = <<Of("Release"), clear>> \o rest
      PROVE  /\ D3D!Release /\ ~D3D!At("create")
             /\ D3D!Continue(<<Of("realRelease")>>) => todo' = <<Of("realRelease"), clear>> \o rest
  <2> DEFINE a == Of("Release")
  <2>1. a \in Deeds /\ a.do = "Release" /\ todo = <<a>> \o more
    BY <1>1, <1>4
  <2> HIDE DEF a
  <2>2. /\ \A name : D3D!At(name) <=> name = a.do
        /\ \A steps : D3D!Continue(steps) <=> todo' = steps \o more
        /\ a.do = "Release" => D3D!Release
    BY <1>1, <2>1, StepOf
  <2>3. D3D!Release /\ ~D3D!At("create")
    BY <2>1, <2>2
  <2>4. <<Of("realRelease"), clear>> \o rest = <<Of("realRelease")>> \o more
    BY <1>1
  <2> QED
    BY <2>2, <2>3, <2>4
<1>5. ASSUME todo = <<Of("realRelease"), clear>> \o rest, Refs > 0
      PROVE  /\ todo' = more /\ Same /\ Refs' = Refs - 1 /\ ~fault' /\ ~D3D!At("create")
             /\ UNCHANGED <<pointers, inRelease, deviceRefCount, returned>>
  <2> DEFINE a == Of("realRelease")
  <2>1. a \in Deeds /\ a.do = "realRelease" /\ todo = <<a>> \o more
    BY <1>1, <1>5
  <2> HIDE DEF a
  <2>2. /\ \A name : D3D!At(name) <=> name = a.do
        /\ \A steps : D3D!Continue(steps) <=> todo' = steps \o more
        /\ a.do = "realRelease" => D3D!RealRelease
    BY <1>1, <2>1, StepOf
  <2>3. D3D!RealRelease /\ ~D3D!At("create")
    BY <2>1, <2>2
  <2> QED
    BY <1>3, <1>5, <2>2, <2>3, RealReleased
<1>6. ASSUME todo = more
      PROVE  /\ todo' = rest /\ pointers' = alive' /\ Same /\ ~fault' /\ ~D3D!At("create")
             /\ UNCHANGED <<inRelease, deviceRefCount, returned, Refs>>
  <2>1. todo = <<clear>> \o rest
    BY <1>6 DEF more
  <2>2. /\ \A name : D3D!At(name) <=> name = clear.do
        /\ \A steps : D3D!Continue(steps) <=> todo' = steps \o rest
        /\ D3D!This = clear.on
        /\ clear.do = "clear" => D3D!ClearPointer
    BY <1>1, <2>1, StepOf
  <2>3. D3D!ClearPointer /\ ~D3D!At("create") /\ D3D!This = k
    BY <1>1, <2>2
  <2>4. /\ D3D!Continue(<<>>) /\ Same /\ pointers' = pointers \ {k}
        /\ UNCHANGED <<inRelease, deviceRefCount, returned, Refs, fault, alive>>
    BY <2>3, Acts DEF Same
  <2>5. k \notin alive
    OBVIOUS
  <2> QED
    BY <1>2, <2>2, <2>3, <2>4, <2>5
<1> QED
  BY <1>4, <1>5, <1>6 DEF rest, clear, more

\* The last release gives the surfaces up one by one, uncounted, and then the device.
LEMMA FromFreeLast ==
  ASSUME OneDevice, ~fault, NEW k \in 0..Surfaces, FreeLast(k), D3D!Next
  PROVE  Known' /\ ~fault' /\ ~D3D!At("create")
<1>1. PICK tail \in Tails :
        LET rest == From("free", k) \o (<<D3D!Step("leave"), Of("realRelease")>> \o tail)
        IN  /\ tail = <<>> => Owned > 0
            /\ \/ todo = rest /\ Lent(1) /\ pointers = alive
               \/ /\ k > 0 /\ pointers = alive \union {k}
                  /\ \/ todo = <<Of("Release"), D3D!On("clear", k)>> \o rest /\ Lent(2)
                     \/ todo = <<Of("realRelease"), D3D!On("clear", k)>> \o rest /\ Lent(2)
                     \/ todo = <<D3D!On("clear", k)>> \o rest /\ Lent(1)
  BY DEF FreeLast
<1> DEFINE last == <<D3D!Step("leave"), Of("realRelease")>> \o tail
           rest == From("free", k) \o last
           next == From("free", k+1) \o last
<1>2. /\ last \in Seq(Deeds) /\ last = <<D3D!Step("leave")>> \o (<<Of("realRelease")>> \o tail)
      /\ <<Of("realRelease")>> \o tail \in Seq(Deeds) /\ tail \in Seq(Deeds)
  BY LastFrees
<1>3. /\ Tails' = Tails /\ tail' = tail
      /\ UNCHANGED <<dev, inside, hooked>> => last' = last /\ rest' = rest /\ next' = next
  BY Fixed, FixedOf DEF Tails
<1>4. /\ inRelease /\ deviceRefCount = 0 /\ hooked /\ alive \subseteq k+1..Surfaces
      /\ (failures = 0 => Owned = 0) /\ (Owned > 0 => inside /\ Owned + Living <= Surfaces)
      /\ (tail = <<>> => Owned > 0)
  BY <1>1 DEF FreeLast
<1>5. /\ Owned \in Nat /\ failures \in Nat /\ Living \in Nat /\ Refs \in Nat /\ k \in Nat /\ k <= Surfaces
      /\ Surfaces \in Nat
      /\ \A n \in {1, 2} : n \in -2..2
  BY Sizes, Numbers
<1>6. \/ todo = rest /\ Lent(1) /\ pointers = alive
      \/ /\ k > 0 /\ pointers = alive \union {k}
         /\ \/ todo = <<Of("Release"), D3D!On("clear", k)>> \o rest /\ Lent(2)
            \/ todo = <<Of("realRelease"), D3D!On("clear", k)>> \o rest /\ Lent(2)
            \/ todo = <<D3D!On("clear", k)>> \o rest /\ Lent(1)
  BY <1>1
<1>7. CASE todo = rest /\ Lent(1) /\ pointers = alive /\ k < Surfaces
  <2> DEFINE one == 1
  <2>0. one \in -1..1 /\ one + 1 = 2 /\ Lent(one) /\ k+1 \in 0..Surfaces /\ k+1 > 0
    BY <1>5, <1>7
  <2> HIDE DEF last, one
  <2>1. /\ UNCHANGED <<deviceRefCount, inRelease, hooked, inside, Refs, Owned, dev, returned, failures>>
        /\ ~fault' /\ alive' \subseteq (k+1)+1..Surfaces /\ ~D3D!At("create")
        /\ \/ /\ todo' = <<Give, D3D!On("clear", k+1)>> \o next
              /\ Living' = Living - 1 /\ Lent(one+1)' /\ pointers' = alive' \union {k+1}
           \/ todo' = next /\ Living' = Living /\ Lent(one)' /\ pointers' = alive'
    BY <1>2, <1>4, <1>7, <2>0, FreeingNext
  <2>2. Owned' > 0 => inside' /\ Owned' + Living' <= Surfaces
    BY <1>4, <1>5, <2>1
  <2>5. last' = last /\ next' = next /\ Of("Release")' = Of("Release") /\ Of("realRelease")' = Of("realRelease")
    BY <1>3, <2>1, FixedOf
  <2>3. Give \in {Of("Release"), Of("realRelease")}
    BY DEF Give
  <2>4. FreeLast(k+1)'
    <3>1. CASE /\ todo' = <<Give, D3D!On("clear", k+1)>> \o next /\ Lent(one+1)'
               /\ pointers' = alive' \union {k+1}
      <4>1. Lent(2)'
        BY <3>1 DEF one
      <4>2. \/ (todo = <<Of("Release"), D3D!On("clear", k+1)>> \o (From("free", k+1)
                    \o (<<D3D!Step("leave"), Of("realRelease")>> \o tail)))'
            \/ (todo = <<Of("realRelease"), D3D!On("clear", k+1)>> \o (From("free", k+1)
                    \o (<<D3D!Step("leave"), Of("realRelease")>> \o tail)))'
        BY <1>3, <2>3, <2>5, <3>1, Fixed DEF last
      <4> QED
        BY <1>3, <1>4, <2>0, <2>1, <2>2, <3>1, <4>1, <4>2 DEF FreeLast
    <3>2. CASE todo' = next /\ Lent(one)' /\ pointers' = alive'
      <4>1. Lent(1)'
        BY <3>2 DEF one
      <4>2. (todo = From("free", k+1) \o (<<D3D!Step("leave"), Of("realRelease")>> \o tail))'
        BY <1>3, <2>5, <3>2 DEF last
      <4> QED
        BY <1>3, <1>4, <2>1, <2>2, <3>2, <4>1, <4>2 DEF FreeLast
    <3> QED
      BY <2>1, <3>1, <3>2
  <2> QED
    BY <2>0, <2>1, <2>4 DEF Known
<1>8. CASE todo = rest /\ Lent(1) /\ pointers = alive /\ k = Surfaces
  <2> DEFINE more == <<Of("realRelease")>> \o tail
             a == D3D!Step("leave")
  <2>1. todo = <<a>> \o more /\ more \in Seq(Deeds) /\ a \in Deeds /\ a.do = "leave"
    <3>1. a \in Deeds /\ a.do = "leave"
      BY Names DEF DeedNames
    <3>2. rest = last
      <4> HIDE DEF last
      <4> QED
        BY <1>2, <1>8, FromEnd DEF DeedNames
    <3> QED
      BY <1>2, <1>8, <3>1, <3>2
  <2>2. <<>> \o more = more
    <3> HIDE DEF more
    <3> QED
      BY <2>1, NothingBefore
  <2> HIDE DEF more, a, last, rest, next
  <2>3. /\ \A name : D3D!At(name) <=> name = a.do
        /\ \A steps : D3D!Continue(steps) <=> todo' = steps \o more
        /\ a.do = "leave" => D3D!LeaveRelease
    BY <2>1, StepOf
  <2>4. D3D!LeaveRelease /\ ~D3D!At("create")
    BY <2>1, <2>3
  <2>5. /\ todo' = more /\ Same /\ ~inRelease' /\ UNCHANGED <<deviceRefCount, pointers, Refs, returned, fault>>
    BY <2>2, <2>3, <2>4, Acts
  <2>6. alive = {} /\ Living = 0 /\ Living' = 0
    <3>1. alive = {}
      BY <1>4, <1>5, <1>8
    <3> QED
      BY <2>5, <3>1, Sizes DEF Living, Same
  <2>7. Lent(1)'
    BY <1>5, <1>8, <2>5, OwedMoves
  <2>8. Balance(FALSE)' = 0
    BY <1>4, <2>5, Numbers DEF Balance
  <2>9. Quiet(1, 0, 0)'
    <3>1. Owned > 0 => Counted(0, 0, FALSE)'
      <4> SUFFICES ASSUME Owned > 0 PROVE Counted(0, 0, FALSE)'
        OBVIOUS
      <4>1. failures # 0 /\ inside /\ hooked /\ Owned + 0 + 0 - Surfaces <= 0 /\ 0 <= Owned + 0 + 0 + failures
        BY <1>4, <1>5, <2>6
      <4>2. /\ failures' # 0 /\ inside' /\ hooked' /\ Owned' + Living' + 0 - Surfaces <= 0
            /\ 0 <= Owned' + Living' + 0 + failures'
        BY <2>5, <2>6, <4>1 DEF Same
      <4> QED
        BY <2>8, <4>2 DEF Counted
    <3>2. Whole'
      BY <1>4, <2>5, <2>6 DEF Whole, Same
    <3> QED
      BY <1>8, <2>5, <2>7, <3>1, <3>2 DEF Quiet, Same
  <2>10. CASE tail = <<Ret>>
    <3>1. Of("realRelease") \in Deeds /\ Ret \in Deeds
      BY Names DEF DeedNames
    <3>2. todo' = <<Of("realRelease"), Ret>>
      BY <2>5, <2>10, <3>1, Short DEF more
    <3>3. LastReal'
      BY <1>4, <2>5, <2>9, <3>2 DEF LastReal, Gone, D3D!Step, Of, D3D!On, Ret, Same
    <3> QED
      BY <2>4, <2>5, <3>3 DEF Known, Program
  <2>11. CASE tail = <<>>
    <3>1. Of("realRelease") \in Deeds
      BY Names DEF DeedNames
    <3>2. todo' = <<Of("realRelease")>>
      BY <2>5, <2>11, <3>1, Short DEF more
    <3>3. Owned' > 0 /\ failures' # 0
      BY <1>4, <1>5, <2>5, <2>11 DEF Same
    <3>4. Presenting'
      BY <2>5, <2>9, <3>2, <3>3 DEF Presenting, Told, D3D!Step, Of, D3D!On, Same
    <3> QED
      BY <2>4, <2>5, <3>4 DEF Known
  <2> QED
    BY <2>10, <2>11 DEF Tails
<1>9. CASE /\ todo = <<Of("Release"), D3D!On("clear", k)>> \o rest /\ Lent(2) /\ k > 0
           /\ pointers = alive \union {k}
  <2> HIDE DEF last
  <2>1. /\ D3D!Release /\ ~D3D!At("create")
        /\ D3D!Continue(<<Of("realRelease")>>)
                => todo' = <<Of("realRelease"), D3D!On("clear", k)>> \o rest
    BY <1>2, <1>4, <1>9, FreedNext
  <2>2. /\ todo' = <<Of("realRelease"), D3D!On("clear", k)>> \o rest /\ Same
        /\ UNCHANGED <<deviceRefCount, inRelease, pointers, Refs, fault>>
    BY <1>4, <2>1, Acts
  <2>3. Lent(2)'
    BY <1>5, <1>9, <2>2, OwedMoves
  <2>4. Living' = Living
    BY <2>2 DEF Living, Same
  <2>9. last' = last /\ rest' = rest /\ Of("Release")' = Of("Release") /\ Of("realRelease")' = Of("realRelease")
    BY <1>3, <2>2, FixedOf DEF Same
  <2>5. (todo = <<Of("realRelease"), D3D!On("clear", k)>> \o (From("free", k)
             \o (<<D3D!Step("leave"), Of("realRelease")>> \o tail)))'
    BY <1>3, <2>2, <2>9, Fixed DEF last
  <2>6. FreeLast(k)'
    BY <1>3, <1>4, <1>9, <2>2, <2>3, <2>4, <2>5 DEF FreeLast, Same
  <2> QED
    BY <2>1, <2>2, <2>6 DEF Known
<1>10. CASE /\ todo = <<Of("realRelease"), D3D!On("clear", k)>> \o rest /\ Lent(2) /\ k > 0
            /\ pointers = alive \union {k}
  <2> HIDE DEF last
  <2>0. Refs > 0
    BY <1>5, <1>10 DEF Lent
  <2>1. /\ todo' = <<D3D!On("clear", k)>> \o rest /\ Same /\ Refs' = Refs - 1 /\ ~fault' /\ ~D3D!At("create")
        /\ UNCHANGED <<pointers, inRelease, deviceRefCount>>
    BY <1>2, <1>4, <1>10, <2>0, FreedNext
  <2>2. Lent(1)'
    <3> DEFINE two == 2
    <3>1. two \in -2..2 /\ two > 0 /\ two - 1 = 1 /\ Lent(two)
      BY <1>10
    <3> HIDE DEF two
    <3>2. Lent(two - 1)'
      BY <2>1, <3>1, OwedMoves
    <3> QED
      BY <3>1, <3>2
  <2>3. Living' = Living
    BY <2>1 DEF Living, Same
  <2>9. last' = last /\ rest' = rest /\ Of("Release")' = Of("Release") /\ Of("realRelease")' = Of("realRelease")
    BY <1>3, <2>1, FixedOf DEF Same
  <2>4. (todo = <<D3D!On("clear", k)>> \o (From("free", k) \o (<<D3D!Step("leave"), Of("realRelease")>>
             \o tail)))'
    BY <1>3, <2>1, <2>9, Fixed DEF last
  <2>5. FreeLast(k)'
    BY <1>3, <1>4, <1>10, <2>1, <2>2, <2>3, <2>4 DEF FreeLast, Same
  <2> QED
    BY <2>1, <2>5 DEF Known
<1>11. CASE todo = <<D3D!On("clear", k)>> \o rest /\ Lent(1) /\ k > 0 /\ pointers = alive \union {k}
  <2> HIDE DEF last
  <2>1. /\ todo' = rest /\ pointers' = alive' /\ Same /\ ~fault' /\ ~D3D!At("create")
        /\ UNCHANGED <<inRelease, deviceRefCount, Refs>>
    BY <1>2, <1>4, <1>11, FreedNext
  <2>2. Lent(1)'
    BY <1>5, <1>11, <2>1, OwedMoves
  <2>3. Living' = Living
    BY <2>1 DEF Living, Same
  <2>9. last' = last /\ rest' = rest /\ Of("Release")' = Of("Release") /\ Of("realRelease")' = Of("realRelease")
    BY <1>3, <2>1, FixedOf DEF Same
  <2>4. (todo = From("free", k) \o (<<D3D!Step("leave"), Of("realRelease")>> \o tail))'
    BY <1>3, <2>1, <2>9 DEF last
  <2>5. FreeLast(k)'
    BY <1>3, <1>4, <2>1, <2>2, <2>3, <2>4 DEF FreeLast, Same
  <2> QED
    BY <2>1, <2>5 DEF Known
<1>12. k < Surfaces \/ k = Surfaces
  BY <1>5
<1> QED
  BY <1>6, <1>7, <1>8, <1>9, <1>10, <1>11, <1>12

\* The hooks' count stays while surfaces come and go, as far as their references have not.
LEMMA CountedAgain ==
  ASSUME OneDevice, NEW n \in -1..1, NEW m \in -1..1, NEW p \in BOOLEAN, Counted(n, m, p), NEW r \in -1..1,
         UNCHANGED <<deviceRefCount, hooked, inside, Owned>>, Living' + r = Living + n, Living' \in Nat,
         failures' = failures \/ failures' = failures + 1
  PROVE  Counted(r, m, p)'
<1> DEFINE B == Balance(p)
<1>1. Owned \in Nat /\ failures \in Nat /\ Living \in Nat /\ B \in Int /\ Surfaces \in Nat
  BY Sizes, Numbers
<1>2. B' = B
  BY DEF Balance
<1>3. /\ hooked
      /\ inside =>
           /\ Owned + Living + n - Surfaces <= B /\ B <= Owned + Living + n + failures
           /\ failures = 0 => B = Owned + Living + n - Surfaces
      /\ ~inside => B = Owned + m
  BY DEF Counted
<1>4. /\ inside =>
           /\ Owned + Living' + r - Surfaces <= B /\ B <= Owned + Living' + r + failures'
           /\ failures' = 0 => B = Owned + Living' + r - Surfaces
      /\ ~inside => B = Owned + m
  <2> DEFINE a == Living'
             f == failures'
  <2>1. /\ a \in Nat /\ a + r = Living + n /\ f \in Nat /\ failures <= f /\ (f = 0 => failures = 0) /\ r \in Int
        /\ n \in Int
    <3>1. a \in Nat /\ a + r = Living + n
      OBVIOUS
    <3>2. r \in Int /\ n \in Int
      OBVIOUS
    <3>3. f = failures \/ f = failures + 1
      OBVIOUS
    <3> HIDE DEF f
    <3>4. f \in Nat /\ failures <= f /\ (f = 0 => failures = 0)
      BY <1>1, <3>3
    <3> QED
      BY <3>1, <3>2, <3>4
  <2> HIDE DEF B, a, f
  <2>2. inside => Owned + a + r - Surfaces <= B /\ B <= Owned + a + r + f
    BY <1>1, <1>3, <2>1
  <2>3. inside /\ f = 0 => B = Owned + a + r - Surfaces
    BY <1>1, <1>3, <2>1
  <2> QED
    BY <1>3, <2>2, <2>3 DEF a, f
<1>5. /\ hooked'
      /\ inside' =>
           /\ Owned' + Living' + r - Surfaces <= B' /\ B' <= Owned' + Living' + r + failures'
           /\ failures' = 0 => B' = Owned' + Living' + r - Surfaces
      /\ ~inside' => B' = Owned' + m
  <2> HIDE DEF B
  <2> QED
    BY <1>2, <1>3, <1>4
<1> QED
  BY <1>5 DEF Counted

\* Reset gives the surfaces up one by one with the count protected.
LEMMA FromFreeReset ==
  ASSUME OneDevice, ~fault, NEW k \in 0..Surfaces, FreeReset(k), D3D!Next
  PROVE  Known' /\ ~fault' /\ ~D3D!At("create")
<1> DEFINE last == <<D3D!Step("reset")>>
           rest == From("free", k) \o last
           next == From("free", k+1) \o last
<1>1. /\ D3D!Step("reset") \in Deeds /\ D3D!Step("reset").do = "reset" /\ D3D!Step("unprotect") \in Deeds
      /\ "free" \in DeedNames /\ "create" \in DeedNames
  BY Names DEF DeedNames
<1>2. last \in Seq(Deeds) /\ last = <<D3D!Step("reset")>> \o <<>> /\ <<>> \in Seq(Deeds)
  BY <1>1, Short
<1>3. last' = last /\ rest' = rest /\ next' = next
  BY Fixed
<1>4. ~inRelease /\ Owned > 0 /\ Told /\ alive \subseteq k+1..Surfaces /\ (failures = 0 => alive = k+1..Surfaces)
  BY DEF FreeReset
<1>5. /\ Owned \in Nat /\ failures \in Nat /\ Living \in Nat /\ Refs \in Nat /\ k \in Nat /\ k <= Surfaces
      /\ Surfaces \in Nat
      /\ 0 \in -1..1 /\ 1 \in -1..1 /\ TRUE \in BOOLEAN /\ inside \in BOOLEAN
  <2>1. inside \in BOOLEAN
    BY Sizes
  <2> QED
    BY <2>1, Sizes, Numbers
<1>6. \/ todo = rest /\ Lent(0) /\ Counted(0, 0, TRUE) /\ pointers = alive
      \/ /\ k > 0 /\ pointers = alive \union {k}
         /\ \/ todo = <<Of("Release"), D3D!On("clear", k)>> \o rest /\ inside /\ Lent(1) /\ Counted(1, 0, TRUE)
            \/ todo = <<Of("realRelease"), D3D!On("clear", k)>> \o rest /\ Lent(1) /\ Counted(0, 0, TRUE)
            \/ todo = <<D3D!On("clear", k)>> \o rest /\ Lent(0) /\ Counted(0, 0, TRUE)
  BY DEF FreeReset
<1>7. CASE todo = rest /\ Lent(0) /\ Counted(0, 0, TRUE) /\ pointers = alive /\ k < Surfaces
  <2> DEFINE none == 0
  <2>0. none \in -1..1 /\ none + 1 = 1 /\ Lent(none) /\ k+1 \in 0..Surfaces /\ k+1 > 0
    BY <1>5, <1>7
  <2> HIDE DEF last, none
  <2>1. /\ UNCHANGED <<deviceRefCount, inRelease, hooked, inside, Refs, Owned, dev, returned, failures>>
        /\ ~fault' /\ alive' = alive \ {k+1} /\ alive' \subseteq (k+1)+1..Surfaces /\ ~D3D!At("create")
        /\ \/ /\ todo' = <<Give, D3D!On("clear", k+1)>> \o next
              /\ Living' = Living - 1 /\ Lent(none+1)' /\ pointers' = alive' \union {k+1}
           \/ todo' = next /\ Living' = Living /\ Lent(none)' /\ pointers' = alive'
    BY <1>2, <1>4, <1>7, <2>0, FreeingNext
  <2>2. (failures' = 0 => alive' = (k+1)+1..Surfaces) /\ Told' /\ Owned' > 0 /\ ~inRelease'
    <3>1. (k+1..Surfaces) \ {k+1} = (k+1)+1..Surfaces
      BY <1>5
    <3> QED
      BY <1>4, <2>1, <3>1 DEF Told
  <2>3. Give = IF inside THEN Of("Release") ELSE Of("realRelease")
    <3>1. hooked
      BY <1>7 DEF Counted
    <3> QED
      BY <1>5, <3>1 DEF Give
  <2>4. FreeReset(k+1)'
    <3>1. CASE /\ todo' = <<Give, D3D!On("clear", k+1)>> \o next /\ Living' = Living - 1
               /\ Lent(none+1)' /\ pointers' = alive' \union {k+1}
      <4>1. Lent(1)' /\ Living' \in Nat /\ Living' + 1 = Living + 0
        <5>1. Living > 0
          <6>1. Living' \in Nat
            <7>1. alive' \subseteq D3D!Ids
              BY <2>1, Sizes
            <7> QED
              BY <7>1, SurfacesCounted DEF Living
          <6> QED
            BY <1>5, <3>1, <6>1
        <5> QED
          BY <1>5, <3>1, <5>1 DEF none
      <4>2. CASE inside
        <5>1. Counted(1, 0, TRUE)'
          BY <1>5, <1>7, <2>1, <4>1, CountedAgain
        <5>0. Of("Release")' = Of("Release")
          BY <2>1, FixedOf
        <5>2. (todo = <<Of("Release"), D3D!On("clear", k+1)>> \o (From("free", k+1) \o <<D3D!Step("reset")>>))'
          BY <1>3, <2>3, <3>1, <4>2, <5>0, Fixed DEF last
        <5> QED
          BY <2>0, <2>1, <2>2, <3>1, <4>1, <4>2, <5>1, <5>2 DEF FreeReset
      <4>3. CASE ~inside
        <5>1. Counted(1, 0, TRUE)'
          BY <1>5, <1>7, <2>1, <4>1, CountedAgain
        <5>2. Counted(0, 0, TRUE)'
          BY <2>1, <4>3, <5>1 DEF Counted
        <5>0. Of("realRelease")' = Of("realRelease")
          BY <2>1, FixedOf
        <5>3. (todo = <<Of("realRelease"), D3D!On("clear", k+1)>> \o (From("free", k+1)
                   \o <<D3D!Step("reset")>>))'
          BY <1>3, <2>3, <3>1, <4>3, <5>0, Fixed DEF last
        <5> QED
          BY <2>0, <2>1, <2>2, <3>1, <4>1, <5>2, <5>3 DEF FreeReset
      <4> QED
        BY <1>5, <4>2, <4>3
    <3>2. CASE todo' = next /\ Living' = Living /\ Lent(none)' /\ pointers' = alive'
      <4>1. Lent(0)'
        BY <3>2 DEF none
      <4>2. Living' \in Nat /\ Living' + 0 = Living + 0
        BY <1>5, <3>2
      <4>3. Counted(0, 0, TRUE)'
        BY <1>5, <1>7, <2>1, <4>2, CountedAgain
      <4>4. (todo = From("free", k+1) \o <<D3D!Step("reset")>>)'
        BY <1>3, <3>2 DEF last
      <4> QED
        BY <2>1, <2>2, <3>2, <4>1, <4>3, <4>4 DEF FreeReset
    <3> QED
      BY <2>1, <3>1, <3>2
  <2> QED
    BY <2>0, <2>1, <2>4 DEF Known
<1>8. CASE todo = rest /\ Lent(0) /\ Counted(0, 0, TRUE) /\ pointers = alive /\ k = Surfaces
  <2> DEFINE a == D3D!Step("reset")
             unprotect == <<D3D!Step("unprotect")>>
  <2>1. todo = <<a>> \o <<>> /\ a \in Deeds /\ a.do = "reset" /\ unprotect \in Seq(Deeds)
    <3>1. rest = last
      <4> HIDE DEF last
      <4> QED
        BY <1>1, <1>2, <1>8, FromEnd
    <3>2. unprotect \in Seq(Deeds)
      BY <1>1, Single
    <3> QED
      BY <1>1, <1>2, <1>8, <3>1, <3>2
  <2> HIDE DEF a, last, rest, next
  <2>2. /\ \A name : D3D!At(name) <=> name = a.do
        /\ \A steps : D3D!Continue(steps) <=> todo' = steps \o <<>>
        /\ a.do = "reset" => D3D!RealReset
    BY <1>2, <2>1, StepOf
  <2>3. D3D!RealReset /\ ~D3D!At("create")
    BY <2>1, <2>2
  <2>4. /\ UNCHANGED <<deviceRefCount, inRelease, hooked, pointers, inside, alive, Refs, Owned, dev, returned, fault>>
        /\ \/ D3D!Continue(D3D!Each("create") \o unprotect) /\ failures' = failures
           \/ D3D!Continue(unprotect) /\ failures' = failures + 1
           \/ D3D!Continue(unprotect) /\ failures' = failures /\ Refs > Owned
    BY <2>3, LongActs DEF unprotect
  <2>5. alive = {} /\ Living' = Living /\ Living = 0
    <3>1. alive = {}
      BY <1>4, <1>5, <1>8
    <3> QED
      BY <2>4, <3>1, Sizes DEF Living
  <2>11. Refs > Owned /\ failures' = failures => failures' # 0
    <3>1. Refs - (Owned + 0 + 0) \in 0..failures
      BY <1>8, <2>5 DEF Lent
    <3> QED
      BY <1>5, <2>4, <3>1
  <2>6. Counted(0, 0, TRUE)'
    <3>1. Living' \in Nat /\ Living' + 0 = Living + 0
      BY <1>5, <2>5
    <3> QED
      BY <1>5, <1>8, <2>4, <3>1, CountedAgain
  <2>7. Lent(0)'
    BY <1>5, <1>8, <2>4, <2>5 DEF Lent
  <2>8. Told' /\ Owned' > 0 /\ ~inRelease' /\ pointers' = alive' /\ alive' = {}
    BY <1>4, <1>5, <1>8, <2>4, <2>5 DEF Told
  <2>9. CASE D3D!Continue(D3D!Each("create") \o unprotect) /\ failures' = failures
    <3>1. D3D!Each("create") = From("create", 0) /\ D3D!Each("create") \in Seq(Deeds)
      BY <1>1, AllOf
    <3>2. D3D!Each("create") \o unprotect \in Seq(Deeds)
      <4> HIDE DEF unprotect
      <4> QED
        BY <2>1, <3>1, ConcatProperties
    <3>3. todo' = From("create", 0) \o unprotect
      <4> DEFINE q == D3D!Each("create") \o unprotect
      <4>1. q \in Seq(Deeds) /\ todo' = q \o <<>> /\ q = From("create", 0) \o unprotect
        BY <2>2, <2>9, <3>1, <3>2
      <4> HIDE DEF q
      <4>2. q \o <<>> = q
        BY <4>1, ConcatEmptySeq
      <4> QED
        BY <4>1, <4>2
    <3>4. (todo = From("create", 0) \o <<D3D!Step("unprotect")>>)'
      BY <3>3, Fixed
    <3>5. 1..0 = {} /\ 0 \in 0..Surfaces
      BY <1>5
    <3>6. Recreate(0)'
      BY <2>6, <2>7, <2>8, <3>4, <3>5 DEF Recreate
    <3> QED
      BY <2>3, <2>4, <3>5, <3>6 DEF Known
  <2>10. CASE D3D!Continue(unprotect) /\ failures' # 0
    <3>1. todo' = unprotect
      <4> HIDE DEF unprotect
      <4> QED
        BY <2>1, <2>2, <2>10, ConcatEmptySeq
    <3>2. From("create", Surfaces) \o unprotect = unprotect
      <4> HIDE DEF unprotect
      <4> QED
        BY <1>1, <2>1, FromEnd
    <3>3. (todo = From("create", Surfaces) \o <<D3D!Step("unprotect")>>)'
      BY <3>1, <3>2, Fixed
    <3>4. failures' # 0 /\ Surfaces \in 0..Surfaces
      BY <1>5, <2>10
    <3>5. Recreate(Surfaces)'
      BY <2>6, <2>7, <2>8, <3>3, <3>4 DEF Recreate
    <3> QED
      BY <2>3, <2>4, <3>4, <3>5 DEF Known
  <2> QED
    BY <1>5, <2>4, <2>9, <2>10, <2>11
<1>9. CASE todo = <<Of("Release"), D3D!On("clear", k)>>
                \o rest /\ inside /\ Lent(1) /\ Counted(1, 0, TRUE) /\ k > 0
           /\ pointers = alive \union {k}
  <2> HIDE DEF last
  <2>1. /\ D3D!Release /\ ~D3D!At("create")
        /\ D3D!Continue(<<Of("realRelease")>>)
                => todo' = <<Of("realRelease"), D3D!On("clear", k)>> \o rest
    BY <1>2, <1>4, <1>9, FreedNext
  <2>2. Counted(1, 1, TRUE)
    BY <1>9 DEF Counted
  <2>3. deviceRefCount > 1 /\ deviceRefCount \in Nat
    BY <1>4, <1>5, <2>2, InRange, Sizes
  <2>4. /\ todo' = <<Of("realRelease"), D3D!On("clear", k)>> \o rest /\ Same
        /\ UNCHANGED <<pointers, Refs, fault, returned>> /\ ~inRelease' /\ deviceRefCount' = deviceRefCount - 1
    <3>1. deviceRefCount # 1 /\ deviceRefCount # 0
      BY <2>3
    <3> QED
      BY <1>4, <2>1, <3>1, Released
  <2>5. Lent(1)' /\ Living' = Living
    BY <1>5, <1>9, <2>4, OwedMoves DEF Living, Same
  <2>6. Counted(0, 0, TRUE)'
    <3>1. deviceRefCount > 0
      BY <2>3
    <3> QED
      BY <1>5, <2>2, <2>4, <3>1, CountedLess
  <2>9. Of("realRelease")' = Of("realRelease")
    BY <2>4, FixedOf DEF Same
  <2>7. (todo = <<Of("realRelease"), D3D!On("clear", k)>> \o (From("free", k) \o <<D3D!Step("reset")>>))'
    BY <1>3, <2>4, <2>9, Fixed DEF last
  <2>8. FreeReset(k)'
    BY <1>4, <1>9, <2>4, <2>5, <2>6, <2>7 DEF FreeReset, Same, Told
  <2> QED
    BY <2>1, <2>4, <2>8 DEF Known
<1>10. CASE todo = <<Of("realRelease"), D3D!On("clear", k)>> \o rest /\ Lent(1) /\ Counted(0, 0, TRUE) /\ k > 0
            /\ pointers = alive \union {k}
  <2> HIDE DEF last
  <2>0. Refs > 0
    BY <1>5, <1>10 DEF Lent
  <2>1. /\ todo' = <<D3D!On("clear", k)>> \o rest /\ Same /\ Refs' = Refs - 1 /\ ~fault' /\ ~D3D!At("create")
        /\ UNCHANGED <<pointers, inRelease, deviceRefCount, returned>>
    BY <1>2, <1>4, <1>10, <2>0, FreedNext
  <2>2. Lent(0)'
    <3> DEFINE one == 1
    <3>1. one \in -2..2 /\ one > 0 /\ one - 1 = 0 /\ Lent(one)
      BY <1>10
    <3> HIDE DEF one
    <3>2. Lent(one - 1)'
      BY <2>1, <3>1, OwedMoves
    <3> QED
      BY <3>1, <3>2
  <2>3. Counted(0, 0, TRUE)'
    BY <1>5, <1>10, <2>1, CountedKept
  <2>4. (todo = <<D3D!On("clear", k)>> \o (From("free", k) \o <<D3D!Step("reset")>>))'
    BY <1>3, <2>1, Fixed DEF last
  <2>5. FreeReset(k)'
    BY <1>4, <1>10, <2>1, <2>2, <2>3, <2>4 DEF FreeReset, Same, Told
  <2> QED
    BY <2>1, <2>5 DEF Known
<1>11. CASE /\ todo = <<D3D!On("clear", k)>> \o rest /\ Lent(0) /\ Counted(0, 0, TRUE) /\ k > 0
            /\ pointers = alive \union {k}
  <2> HIDE DEF last
  <2>1. /\ todo' = rest /\ pointers' = alive' /\ Same /\ ~fault' /\ ~D3D!At("create")
        /\ UNCHANGED <<inRelease, deviceRefCount, returned, Refs>>
    BY <1>2, <1>4, <1>11, FreedNext
  <2>2. Lent(0)'
    BY <1>5, <1>11, <2>1, OwedMoves
  <2>3. Counted(0, 0, TRUE)'
    BY <1>5, <1>11, <2>1, CountedKept
  <2>4. (todo = From("free", k) \o <<D3D!Step("reset")>>)'
    BY <1>3, <2>1 DEF last
  <2>5. FreeReset(k)'
    BY <1>4, <2>1, <2>2, <2>3, <2>4 DEF FreeReset, Same, Told
  <2> QED
    BY <2>1, <2>5 DEF Known
<1>12. k < Surfaces \/ k = Surfaces
  BY <1>5
<1> QED
  BY <1>6, <1>7, <1>8, <1>9, <1>10, <1>11, <1>12

\* After a reset the surfaces are made again and the protection is taken away.
LEMMA FromRecreate ==
  ASSUME OneDevice, ~fault, NEW k \in 0..Surfaces, Recreate(k), D3D!Next
  PROVE  Known' /\ ~fault' /\ (D3D!At("create") => D3D!This \in D3D!Ids)
<1> DEFINE last == <<D3D!Step("unprotect")>>
           rest == From("create", k) \o last
           next == From("create", k + 1) \o last
<1>1. D3D!Step("unprotect") \in Deeds /\ D3D!Step("unprotect").do = "unprotect" /\ "create" \in DeedNames
  BY Names DEF DeedNames
<1>2. last \in Seq(Deeds) /\ <<>> \in Seq(Deeds) /\ last = <<D3D!Step("unprotect")>> \o <<>> /\ <<>> \o <<>> = <<>>
  BY <1>1, Short, NothingBefore
<1>3. rest \in Seq(Deeds) /\ <<>> \o rest = rest
  <2> HIDE DEF last
  <2>1. rest \in Seq(Deeds)
    BY <1>1, <1>2, FromType
  <2> HIDE DEF rest
  <2> QED
    BY <2>1, NothingBefore
<1>4. /\ ~inRelease /\ Owned > 0 /\ Told /\ pointers = alive /\ alive \subseteq 1..k /\ (failures = 0 => alive = 1..k)
      /\ \/ todo = rest /\ Lent(0) /\ Counted(0, 0, TRUE)
         \/ todo = <<Take>> \o rest /\ Lent(-1) /\ Counted(-1, 0, TRUE)
  BY DEF Recreate
<1>5. rest' = rest /\ next' = next /\ last' = last
  BY Fixed
<1>6. /\ Owned \in Nat /\ failures \in Nat /\ Living \in Nat /\ Refs \in Nat /\ Surfaces \in Nat /\ k \in Nat
      /\ k <= Surfaces
      /\ 0 \in -1..1 /\ -1 \in -1..1 /\ TRUE \in BOOLEAN /\ inside \in BOOLEAN
  <2>1. inside \in BOOLEAN
    BY Sizes
  <2> QED
    BY <2>1, Sizes, Numbers
<1>7. CASE todo = <<Take>> \o rest /\ Lent(-1) /\ Counted(-1, 0, TRUE)
  <2> HIDE DEF rest, next, last
  <2>1. /\ todo' = rest /\ Same /\ UNCHANGED <<pointers, inRelease, fault, returned>> /\ Refs' = Refs + 1
        /\ ~D3D!At("create")
        /\ deviceRefCount' = IF inside /\ hooked THEN (deviceRefCount + 1) % Word ELSE deviceRefCount
    BY <1>3, <1>7, OwnAdded
  <2>2. Lent(0)'
    BY <1>7, <2>1, OwedMoves
  <2>3. hooked
    BY <1>7 DEF Counted
  <2>4. Counted(0, 0, TRUE)'
    <3>1. CASE inside
      <4> DEFINE less == -1
      <4>0. Counted(-1, -1, TRUE)
        BY <1>7, <3>1 DEF Counted
      <4>1. less \in -1..1 /\ less <= 0 /\ less + 1 = 0
        OBVIOUS
      <4>2. deviceRefCount' = (deviceRefCount + 1) % Word
        BY <2>1, <2>3, <3>1
      <4>4. Counted(less, less, TRUE)
        BY <4>0
      <4> HIDE DEF less
      <4>3. Counted(less + 1, less + 1, TRUE)'
        BY <1>6, <2>1, <4>1, <4>2, <4>4, CountedMoves
      <4> QED
        BY <4>1, <4>3
    <3>2. CASE ~inside
      <4>1. deviceRefCount' = deviceRefCount
        BY <2>1, <3>2
      <4>2. Counted(0, 0, TRUE)
        BY <1>7, <3>2 DEF Counted
      <4> QED
        BY <1>6, <2>1, <4>1, <4>2, CountedKept
    <3> QED
      BY <1>6, <3>1, <3>2
  <2>5. Recreate(k)'
    BY <1>4, <1>5, <2>1, <2>2, <2>4 DEF Recreate, Same, Told, rest, last
  <2> QED
    BY <2>1, <2>5 DEF Known
<1>8. CASE todo = rest /\ Lent(0) /\ Counted(0, 0, TRUE) /\ k < Surfaces
  <2>1. /\ rest = <<D3D!On("create", k+1)>> \o next /\ next \in Seq(Deeds) /\ D3D!On("create", k+1) \in Deeds
        /\ k+1 \in 0..Surfaces /\ k+1 \in D3D!Ids
    BY <1>1, <1>2, <1>8, FromNext
  <2>2. D3D!On("create", k+1).do = "create" /\ D3D!On("create", k+1).on = k+1
    BY <1>1, <1>6, Names
  <2> HIDE DEF rest, next, last
  <2>3. /\ D3D!CreateSurface /\ D3D!This = k+1 /\ (\A steps : D3D!Continue(steps) => todo' = steps \o next)
        /\ <<>> \o next = next
    BY <1>8, <2>1, <2>2, StepOf, NothingBefore
  <2>4. /\ UNCHANGED <<deviceRefCount, inRelease, hooked, inside, Refs, Owned, dev, returned, fault>>
        /\ pointers' = alive'
        /\ \/ /\ D3D!Continue(<<Take>>) /\ Living' = Living + 1 /\ failures' = failures
              /\ alive' \subseteq 1..k+1 /\ (failures' = 0 => alive' = 1..k+1)
           \/ /\ todo' = From("create", Following(k)) \o last /\ Living' = Living /\ failures' = failures + 1
              /\ Following(k) \in 0..Surfaces /\ alive' \subseteq 1..Following(k) /\ failures' # 0
    BY <1>2, <1>4, <1>8, <2>1, <2>3, SurfaceMade DEF rest
  <2>5. Take' = Take /\ (failures' = failures \/ failures' # 0 => Told')
    BY <1>4, <1>6, <2>4 DEF Take, D3D!Step, Of, D3D!On, Told
  <2>6. ASSUME D3D!Continue(<<Take>>), Living' = Living + 1, failures' = failures,
               alive' \subseteq 1..k+1, failures' = 0 => alive' = 1..k+1
        PROVE  Known'
    <3>1. Lent(-1)'
      BY <1>6, <1>8, <2>4, <2>6 DEF Lent
    <3>2. todo' = <<Take>> \o next
      BY <2>3, <2>6
    <3>3. Living' \in Nat /\ Living' + -1 = Living + 0
      BY <1>6, <2>6
    <3>4. Counted(-1, 0, TRUE)'
      BY <1>6, <1>8, <2>4, <2>6, <3>3, CountedAgain
    <3>5. Recreate(k+1)'
      BY <1>4, <1>5, <2>4, <2>5, <2>6, <3>1, <3>2, <3>4 DEF Recreate, next, last
    <3> QED
      BY <2>1, <3>5 DEF Known
  <2>7. ASSUME todo' = From("create", Following(k)) \o last, Living' = Living, failures' = failures + 1,
               Following(k) \in 0..Surfaces, alive' \subseteq 1..Following(k), failures' # 0
        PROVE  Known'
    <3>1. Lent(0)'
      BY <1>6, <1>8, <2>4, <2>7 DEF Lent
    <3> DEFINE j == Following(k)
    <3>2. j \in 0..Surfaces /\ (todo = From("create", j) \o <<D3D!Step("unprotect")>>)' /\ j' = j
      BY <1>5, <2>7, Fixed DEF last, Next
    <3>3. Living' \in Nat /\ Living' + 0 = Living + 0
      BY <1>6, <2>7
    <3>4. Counted(0, 0, TRUE)'
      BY <1>6, <1>8, <2>4, <2>7, <3>3, CountedAgain
    <3> HIDE DEF j
    <3>5. Recreate(j)'
      BY <1>4, <2>4, <2>5, <2>7, <3>1, <3>2, <3>4 DEF Recreate, j
    <3> QED
      BY <3>2, <3>5 DEF Known
  <2> QED
    BY <2>1, <2>3, <2>4, <2>6, <2>7
<1>9. CASE todo = rest /\ Lent(0) /\ Counted(0, 0, TRUE) /\ k = Surfaces
  <2> DEFINE a == D3D!Step("unprotect")
  <2>1. a \in Deeds /\ a.do = "unprotect" /\ todo = <<a>> \o <<>>
    BY <1>1, <1>2, <1>9, FromEnd
  <2> HIDE DEF a, rest, next, last
  <2>2. /\ \A name : D3D!At(name) <=> name = a.do
        /\ \A steps : D3D!Continue(steps) <=> todo' = steps \o <<>>
        /\ a.do \in {"protect", "unprotect"} => D3D!Protect
    BY <1>2, <2>1, StepOf
  <2>3. D3D!Protect /\ ~D3D!At("create") /\ ~D3D!At("protect")
    BY <2>1, <2>2
  <2>4. /\ todo' = <<>> /\ Same /\ UNCHANGED <<pointers, inRelease, fault, returned, Refs>>
        /\ deviceRefCount' = (deviceRefCount + Word - Protection) % Word
    BY <1>2, <2>2, <2>3, LongActs
  <2>5. -Protection < Balance(TRUE) /\ Balance(TRUE) <= Protection
    BY <1>6, <1>9, InRange
  <2>6. Balance(FALSE)' = Balance(TRUE)
    BY <2>4, <2>5, UnprotectedCount
  <2>7. Living' = Living
    BY <2>4 DEF Living, Same
  <2>8. Counted(0, 0, FALSE)'
    BY <1>9, <2>4, <2>6, <2>7 DEF Counted, Same
  <2>9. Lent(0)'
    BY <1>9, <2>4, OwedMoves
  <2>10. Whole' /\ Told'
    BY <1>4, <1>6, <1>9, <2>4 DEF Whole, Told, Same, D3D!Ids
  <2> QED
    BY <1>4, <2>3, <2>4, <2>8, <2>9, <2>10 DEF Known, AtRest, Quiet, Same
<1>10. k < Surfaces \/ k = Surfaces
  BY <1>6
<1> QED
  BY <1>4, <1>7, <1>8, <1>9, <1>10

-----------------------------------------------------------------------------
(* Every step. *)

\* A call of these kinds has a step left that makes no surface.
LEMMA FirstStep ==
  ASSUME OneDevice, Program \/ Presenting \/ Protecting
  PROVE  ~D3D!At("create") /\ todo # <<>>
<1>1. ASSUME NEW a \in Deeds, NEW rest \in Seq(Deeds), todo = <<a>> \o rest, a.do # "create"
      PROVE  ~D3D!At("create") /\ todo # <<>>
  BY <1>1, Front DEF D3D!Idle
<1>2. /\ \A name \in DeedNames : D3D!Step(name) \in Deeds /\ D3D!Step(name).do = name
      /\ \A name \in DeedNames : Of(name) \in Deeds /\ Of(name).do = name
      /\ {"AddRef", "Release", "realRelease", "capture", "protect", "reset"} \subseteq DeedNames
      /\ Ret \in Deeds /\ Ret.do = "return"
      /\ Take \in Deeds /\ Take.do \in {"AddRef", "realAddRef"}
  BY Names DEF DeedNames
<1>3. Program => ~D3D!At("create") /\ todo # <<>>
  <2>1. ASSUME NEW name \in {"AddRef", "Release", "realRelease"}, todo = <<Of(name), Ret>>
        PROVE  ~D3D!At("create") /\ todo # <<>>
    <3>1. todo = <<Of(name)>> \o <<Ret>> /\ <<Ret>> \in Seq(Deeds)
      BY <1>2, <2>1, Short
    <3> QED
      BY <1>1, <1>2, <3>1
  <2>2. ASSUME todo = <<Ret>> PROVE ~D3D!At("create") /\ todo # <<>>
    <3>1. todo = <<Ret>> \o <<>> /\ <<>> \in Seq(Deeds)
      BY <1>2, <2>2, Short
    <3> QED
      BY <1>1, <1>2, <3>1
  <2> QED
    BY <2>1, <2>2 DEF Program, Adding, Returning, Releasing, LastReal
<1>4. Presenting => ~D3D!At("create") /\ todo # <<>>
  <2>1. ASSUME todo = <<Take, D3D!Step("capture")>> PROVE ~D3D!At("create") /\ todo # <<>>
    <3>1. todo = <<Take>> \o <<D3D!Step("capture")>> /\ <<D3D!Step("capture")>> \in Seq(Deeds)
      BY <1>2, <2>1, Short
    <3> QED
      BY <1>1, <1>2, <3>1
  <2>2. ASSUME NEW name \in {"Release", "realRelease"}, todo = <<Of(name)>>
        PROVE  ~D3D!At("create") /\ todo # <<>>
    <3>1. todo = <<Of(name)>> \o <<>> /\ <<>> \in Seq(Deeds)
      BY <1>2, <2>2, Short
    <3> QED
      BY <1>1, <1>2, <3>1
  <2>3. ASSUME todo = <<D3D!Step("capture")>> PROVE ~D3D!At("create") /\ todo # <<>>
    <3>1. todo = <<D3D!Step("capture")>> \o <<>> /\ <<>> \in Seq(Deeds)
      BY <1>2, <2>3, Short
    <3> QED
      BY <1>1, <1>2, <3>1
  <2> QED
    BY <2>1, <2>2, <2>3 DEF Presenting
<1>5. Protecting => ~D3D!At("create") /\ todo # <<>>
  <2> DEFINE rest == From("free", 0) \o <<D3D!Step("reset")>>
  <2>1. rest \in Seq(Deeds)
    <3>1. <<D3D!Step("reset")>> \in Seq(Deeds) /\ 0 \in 0..Surfaces /\ "free" \in DeedNames
      BY <1>2, Single, Numbers DEF DeedNames
    <3> QED
      BY <3>1, FromType
  <2>2. Protecting => todo = <<D3D!Step("protect")>> \o rest
    BY DEF Protecting
  <2> HIDE DEF rest
  <2> QED
    BY <1>1, <1>2, <2>1, <2>2
<1> QED
  BY <1>3, <1>4, <1>5

\* A loop that something follows is not over.
LEMMA SomeLeft ==
  ASSUME NEW name \in DeedNames, NEW k \in 0..Surfaces, NEW last \in Seq(Deeds), last # <<>>
  PROVE  From(name, k) \o last # <<>> /\ From(name, k) \o last \in Seq(Deeds)
<1> DEFINE rest == From(name, k) \o last
           next == From(name, k+1) \o last
           a == D3D!On(name, k+1)
<1>1. rest \in Seq(Deeds)
  BY FromType
<1>2. CASE k = Surfaces
  BY <1>1, <1>2, FromEnd
<1>3. CASE k < Surfaces
  <2>1. rest = <<a>> \o next /\ a \in Deeds /\ next \in Seq(Deeds)
    BY <1>3, FromNext
  <2> HIDE DEF rest, next, a
  <2>2. rest # <<>>
    BY <2>1, First
  <2> QED
    BY <1>1, <2>2 DEF rest
<1> QED
  BY <1>2, <1>3, Numbers

\* When no step is left, the hooks are at rest.
LEMMA OnlyAtRest ==
  ASSUME OneDevice, Known, D3D!Idle
  PROVE  AtRest
<1>1. todo = <<>>
  BY DEF D3D!Idle
<1>2. ~(Program \/ Presenting \/ Protecting)
  BY <1>1, FirstStep
<1>3. ASSUME NEW k \in 0..Surfaces, Device(k) \/ FreeLast(k) \/ FreeReset(k) \/ Recreate(k)
      PROVE  FALSE
  <2>1. /\ \A name \in {"count", "reset", "unprotect"} : D3D!Step(name) \in Deeds
        /\ {"create", "free"} \subseteq DeedNames /\ Take \in Deeds
    BY Names DEF DeedNames
  <2>2. \A name \in {"count", "reset", "unprotect"} : <<D3D!Step(name)>> \in Seq(Deeds) /\ <<D3D!Step(name)>> # <<>>
    BY <2>1, Single
  <2>3. ASSUME NEW name \in {"create", "free"}, NEW last \in Seq(Deeds), last # <<>>
        PROVE  /\ From(name, k) \o last # <<>>
               /\ <<Take>> \o (From(name, k) \o last) # <<>>
               /\ <<D3D!On("clear", k)>> \o (From("free", k) \o last) # <<>>
               /\ \A real \in {"Release", "realRelease"}
                       : <<Of(real), D3D!On("clear", k)>> \o (From("free", k) \o last) # <<>>
    <3>1. /\ From(name, k) \o last # <<>> /\ From(name, k) \o last \in Seq(Deeds)
          /\ From("free", k) \o last \in Seq(Deeds)
      BY <2>1, <2>3, SomeLeft
    <3> DEFINE rest == From("free", k) \o last
    <3>2. /\ D3D!On("clear", k) \in Deeds /\ <<D3D!On("clear", k)>> \o rest \in Seq(Deeds)
          /\ \A real \in {"Release", "realRelease"} : Of(real) \in Deeds
          /\ \A real \in {"Release", "realRelease"}
                  : <<Of(real), D3D!On("clear", k)>> \o rest
                       = <<Of(real)>> \o (<<D3D!On("clear", k)>> \o rest)
      <4>1. /\ D3D!On("clear", k) \in Deeds /\ <<D3D!On("clear", k)>> \o rest \in Seq(Deeds)
        BY <3>1, FreeingSteps
      <4>2. \A real \in {"Release", "realRelease"} : Of(real) \in Deeds
        BY Names DEF DeedNames
      <4>3. \A real \in {"Release", "realRelease"}
                 : <<Of(real), D3D!On("clear", k)>> \o rest
                      = <<Of(real)>> \o (<<D3D!On("clear", k)>> \o rest)
        <5>1. rest \in Seq(Deeds)
          BY <3>1
        <5> HIDE DEF rest
        <5> QED
          BY <4>1, <4>2, <5>1, FirstOfTwo
      <4> QED
        BY <4>1, <4>2, <4>3
    <3> DEFINE more == <<D3D!On("clear", k)>> \o rest
    <3>3. <<Take>> \o (From(name, k) \o last) # <<>>
      <4> DEFINE q == From(name, k) \o last
      <4>1. q \in Seq(Deeds)
        BY <3>1
      <4> HIDE DEF q
      <4>2. <<Take>> \o q # <<>>
        BY <2>1, <4>1, First
      <4> QED
        BY <4>2 DEF q
    <3>4. more # <<>>
      <4>1. rest \in Seq(Deeds)
        BY <3>1
      <4> HIDE DEF rest
      <4> QED
        BY <3>2, <4>1, First
    <3>5. \A real \in {"Release", "realRelease"} : <<Of(real)>> \o more # <<>>
      <4> HIDE DEF more
      <4> QED
        BY <3>2, First DEF more
    <3> QED
      BY <3>1, <3>2, <3>3, <3>4, <3>5
  <2>4. ~(Device(k) \/ FreeReset(k) \/ Recreate(k))
    BY <1>1, <2>2, <2>3 DEF Device, FreeReset, Recreate
  <2>5. ASSUME FreeLast(k) PROVE FALSE
    <3>1. \A tail \in Tails : <<D3D!Step("leave"), Of("realRelease")>> \o tail \in Seq(Deeds)
                             /\ <<D3D!Step("leave"), Of("realRelease")>> \o tail # <<>>
      <4> TAKE tail \in Tails
      <4>1. /\ <<D3D!Step("leave"), Of("realRelease")>> \o tail
                    = <<D3D!Step("leave")>> \o (<<Of("realRelease")>> \o tail)
            /\ <<Of("realRelease")>> \o tail \in Seq(Deeds)
            /\ <<D3D!Step("leave"), Of("realRelease")>> \o tail \in Seq(Deeds)
        BY LastFrees
      <4>2. D3D!Step("leave") \in Deeds
        BY Names DEF DeedNames
      <4> DEFINE q == <<Of("realRelease")>> \o tail
      <4> HIDE DEF q
      <4>3. <<D3D!Step("leave")>> \o q # <<>>
        BY <4>1, <4>2, First DEF q
      <4> QED
        BY <4>1, <4>3 DEF q
    <3> QED
      BY <1>1, <2>3, <2>5, <3>1 DEF FreeLast
  <2> QED
    BY <1>3, <2>4, <2>5
<1> QED
  BY <1>2, <1>3 DEF Known

-----------------------------------------------------------------------------
(* The device is the only one. *)

\* Loops over the surfaces, and steps that count nothing or a reference of the device.
LEMMA Ours ==
  ASSUME OneDevice
  PROVE  /\ \A name \in DeedNames \ Counting, s \in Nat : D3D!On(name, s) \in OwnDeeds
         /\ \A name \in DeedNames \ Counting : D3D!Step(name) \in OwnDeeds
         /\ \A name \in DeedNames : Of(name) \in OwnDeeds
         /\ Take \in OwnDeeds /\ Give \in OwnDeeds /\ Ret \in OwnDeeds
         /\ D3D!Each("free") \in Seq(OwnDeeds) /\ D3D!Each("create") \in Seq(OwnDeeds)
<1>0. Surfaces \in Nat /\ dev \in Nat
  BY Numbers, Sizes
<1>1. \A name \in DeedNames \ Counting, s \in Nat : D3D!On(name, s) \in OwnDeeds
  BY DEF D3D!On, OwnDeeds, Deeds
<1>2. \A name \in DeedNames \ Counting : D3D!Step(name) \in OwnDeeds
  BY DEF D3D!Step, OwnDeeds, Deeds
<1>3. \A name \in DeedNames : Of(name) \in OwnDeeds
  BY <1>0 DEF Of, D3D!On, OwnDeeds, Deeds
<1>4. Take \in OwnDeeds /\ Give \in OwnDeeds /\ Ret \in OwnDeeds
  <2>1. {"AddRef", "Release", "realAddRef", "realRelease"} \subseteq DeedNames /\ "return" \in DeedNames \ Counting
    BY DEF DeedNames, Counting
  <2>2. Take \in {Of("AddRef"), Of("realAddRef")} /\ Give \in {Of("Release"), Of("realRelease")}
    BY DEF Take, Give
  <2> QED
    BY <1>2, <1>3, <2>1, <2>2 DEF Ret
<1>5. ASSUME NEW name \in DeedNames \ Counting PROVE D3D!Each(name) \in Seq(OwnDeeds)
  <2>1. D3D!Each(name) \in [1..Surfaces -> OwnDeeds]
    BY <1>0, <1>1 DEF D3D!Each, D3D!Ids
  <2> QED
    BY <1>0, <2>1
<1>6. {"free", "create"} \subseteq DeedNames \ Counting
  BY DEF DeedNames, Counting
<1> QED
  BY <1>1, <1>2, <1>3, <1>4, <1>5, <1>6

\* The hooks add steps of the device to those of the device.
LEMMA StepsKept ==
  ASSUME OneDevice, D3D!Hooks
  PROVE  todo' \in Seq(OwnDeeds)
<1>1. todo \in Seq(OwnDeeds)
  BY DEF OneDevice
<1>2. todo # <<>>
  BY DEF D3D!Hooks, D3D!AddRef, D3D!Release, D3D!LeaveRelease, D3D!Return, D3D!RealAddRef, D3D!RealRelease,
    D3D!FreeSurface, D3D!ClearPointer, D3D!CreateSurface, D3D!CountDevice, D3D!Protect, D3D!RealReset, D3D!Capture,
    D3D!At
<1>3. Tail(todo) \in Seq(OwnDeeds)
  BY <1>1, <1>2
<1>4. ASSUME NEW steps \in Seq(OwnDeeds), D3D!Continue(steps) PROVE todo' \in Seq(OwnDeeds)
  BY <1>3, <1>4 DEF D3D!Continue
<1>5. {"leave", "reset", "count", "unprotect", "clear"} \subseteq DeedNames \ Counting /\ "realRelease" \in DeedNames
  BY DEF DeedNames, Counting
<1>6. /\ <<>> \in Seq(OwnDeeds) /\ <<Take>> \in Seq(OwnDeeds) /\ <<Give>> \in Seq(OwnDeeds)
      /\ <<Of("realRelease")>> \in Seq(OwnDeeds) /\ <<D3D!Step("unprotect")>> \in Seq(OwnDeeds)
      /\ <<D3D!Step("leave"), Of("realRelease")>> \in Seq(OwnDeeds)
  BY <1>5, Ours
<1>7. /\ D3D!Each("free") \o <<D3D!Step("leave"), Of("realRelease")>> \in Seq(OwnDeeds)
      /\ D3D!Each("create") \o <<D3D!Step("unprotect")>> \in Seq(OwnDeeds)
  BY <1>6, Ours, ConcatProperties
<1>8. CASE D3D!AddRef \/ D3D!LeaveRelease \/ D3D!Return \/ D3D!RealAddRef \/ D3D!RealRelease \/ D3D!ClearPointer
  BY <1>4, <1>6, <1>8, Acts
<1>9. CASE D3D!Release
  BY <1>4, <1>6, <1>7, <1>9, Acts
<1>10. CASE D3D!FreeSurface
  <2>1. CASE D3D!This \in pointers
    <3>1. D3D!On("clear", D3D!This) \in OwnDeeds
      BY <1>5, <2>1, Sizes, Ours, Numbers DEF D3D!Ids
    <3>2. <<Give, D3D!On("clear", D3D!This)>> \in Seq(OwnDeeds)
      BY <3>1, Ours
    <3> QED
      BY <1>4, <1>10, <2>1, <3>2, Acts
  <2>2. CASE D3D!This \notin pointers
    BY <1>4, <1>6, <1>10, <2>2, Acts
  <2> QED
    BY <2>1, <2>2
<1>11. CASE D3D!CreateSurface
  <2>1. CASE D3D!Continue(<<Take>>)
    BY <1>4, <1>6, <2>1
  <2>2. CASE todo' = SubSeq(todo, IF D3D!This = 1 THEN Surfaces + 1 ELSE 2, Len(todo))
    <3>1. \A m \in Nat \ {0} : SubSeq(todo, m, Len(todo)) \in Seq(OwnDeeds)
      BY <1>1
    <3>2. (IF D3D!This = 1 THEN Surfaces + 1 ELSE 2) \in Nat \ {0}
      BY Numbers
    <3> QED
      BY <2>2, <3>1, <3>2
  <2> QED
    BY <1>11, <2>1, <2>2, LongActs
<1>12. CASE D3D!CountDevice \/ D3D!Protect
  BY <1>4, <1>6, <1>12, LongActs
<1>13. CASE D3D!RealReset
  BY <1>4, <1>6, <1>7, <1>13, LongActs
<1>14. CASE D3D!Capture
  BY <1>4, <1>6, <1>14, LongActs
<1> QED
  BY <1>8, <1>9, <1>10, <1>11, <1>12, <1>13, <1>14 DEF D3D!Hooks

\* The hooks take and give up references of the device, and make surfaces for it.
LEMMA OnlyThis ==
  ASSUME OneDevice, D3D!Hooks, D3D!At("create") => D3D!This \in D3D!Ids
  PROVE  /\ UNCHANGED <<inside, owned, devices, dev, overlapped>>
         /\ refs' \in [D3D!Devices -> Nat] /\ \A d \in D3D!Devices : d # dev => refs'[d] = refs[d]
         /\ pointers' \subseteq D3D!Ids /\ alive' \subseteq D3D!Ids /\ owner' \in [D3D!Ids -> D3D!Devices]
         /\ \A s \in pointers' : owner'[s] = dev
<1>1. /\ refs \in [D3D!Devices -> Nat] /\ dev \in D3D!Devices /\ pointers \subseteq D3D!Ids /\ alive \subseteq D3D!Ids
      /\ owner \in [D3D!Ids -> D3D!Devices] /\ \A s \in pointers : owner[s] = dev
  BY DEF OneDevice, D3D!TypeOK, Alone
<1>2. UNCHANGED <<inside, owned, devices, dev, overlapped>>
  BY DEF D3D!Hooks, D3D!AddRef, D3D!Release, D3D!LeaveRelease, D3D!Return, D3D!RealAddRef, D3D!RealRelease,
    D3D!FreeSurface, D3D!ClearPointer, D3D!CreateSurface, D3D!CountDevice, D3D!Protect, D3D!RealReset, D3D!Capture,
    D3D!program
<1>3. refs' \in [D3D!Devices -> Nat] /\ \A d \in D3D!Devices : d # dev => refs'[d] = refs[d]
  <2>1. \A name \in Counting : D3D!At(name) => D3D!This = dev
    BY OfThis
  <2>2. CASE D3D!AddRef \/ D3D!RealAddRef
    <3>1. refs' = [refs EXCEPT ![dev] = @ + 1]
      BY <2>1, <2>2 DEF D3D!AddRef, D3D!RealAddRef, Counting
    <3> QED
      BY <1>1, <3>1
  <2>3. CASE D3D!RealRelease
    <3>1. refs' = [refs EXCEPT ![dev] = IF @ = 0 THEN 0 ELSE @ - 1]
      BY <2>1, <2>3 DEF D3D!RealRelease, Counting
    <3> QED
      BY <1>1, <3>1
  <2>4. CASE refs' = refs
    BY <1>1, <2>4
  <2> QED
    BY <2>2, <2>3, <2>4 DEF D3D!Hooks, D3D!Release, D3D!LeaveRelease, D3D!Return, D3D!FreeSurface,
      D3D!ClearPointer, D3D!CreateSurface, D3D!CountDevice, D3D!Protect, D3D!RealReset, D3D!Capture
<1>4. /\ pointers' \subseteq D3D!Ids /\ alive' \subseteq D3D!Ids /\ owner' \in [D3D!Ids -> D3D!Devices]
      /\ \A s \in pointers' : owner'[s] = dev
  <2>1. CASE D3D!CreateSurface
    <3>1. CASE /\ pointers' = pointers \union {D3D!This} /\ alive' = alive \union {D3D!This}
               /\ owner' = [owner EXCEPT ![D3D!This] = dev]
      <4>1. D3D!This \in D3D!Ids
        BY <2>1 DEF D3D!CreateSurface
      <4> QED
        BY <1>1, <3>1, <4>1
    <3>2. CASE UNCHANGED <<pointers, alive, owner>>
      BY <1>1, <3>2
    <3> QED
      BY <2>1, <3>1, <3>2 DEF D3D!CreateSurface
  <2>2. CASE owner' = owner /\ pointers' \subseteq pointers /\ alive' \subseteq alive
    BY <1>1, <2>2
  <2> QED
    BY <2>1, <2>2 DEF D3D!Hooks, D3D!AddRef, D3D!Release, D3D!LeaveRelease, D3D!Return, D3D!RealAddRef,
      D3D!RealRelease, D3D!FreeSurface, D3D!ClearPointer, D3D!CountDevice, D3D!Protect, D3D!RealReset, D3D!Capture,
      D3D!hooks
<1> QED
  BY <1>2, <1>3, <1>4

\* The counts keep their types.
LEMMA CountsKept ==
  ASSUME OneDevice, D3D!Hooks
  PROVE  /\ deviceRefCount' \in 0..Word-1 /\ {inRelease', hooked', fault'} \subseteq BOOLEAN
         /\ returned' \in Nat /\ failures' \in 0..MaxFailures
<1>1. /\ deviceRefCount \in 0..Word-1 /\ {inRelease, hooked, fault} \subseteq BOOLEAN /\ returned \in Nat
      /\ failures \in 0..MaxFailures /\ deviceRefCount \in Nat /\ Refs \in Nat
      /\ MaxFailures \in Nat /\ Word \in Nat /\ Protection \in Nat /\ Word > 2 * Protection /\ Word > 1
  <2>1. D3D!TypeOK
    BY DEF OneDevice
  <2> QED
    BY <2>1, Sizes, Numbers DEF D3D!TypeOK
<1>2. deviceRefCount' \in 0..Word-1
  <2>1. \A x \in Nat : x % Word \in 0..Word-1
    BY <1>1
  <2>2. CASE D3D!AddRef
    BY <1>1, <2>1, <2>2 DEF D3D!AddRef
  <2>3. CASE D3D!Release
    BY <1>1, <2>3 DEF D3D!Release
  <2>4. CASE D3D!CountDevice
    BY <1>1, <2>4 DEF D3D!CountDevice
  <2>5. CASE D3D!Protect
    <3>1. deviceRefCount + Protection \in Nat /\ deviceRefCount + Word - Protection \in Nat
      BY <1>1
    <3> QED
      BY <2>1, <2>5, <3>1 DEF D3D!Protect
  <2>6. CASE deviceRefCount' = deviceRefCount
    BY <1>1, <2>6
  <2> QED
    BY <2>2, <2>3, <2>4, <2>5, <2>6 DEF D3D!Hooks, D3D!LeaveRelease, D3D!Return, D3D!RealAddRef, D3D!RealRelease,
      D3D!FreeSurface, D3D!ClearPointer, D3D!CreateSurface, D3D!RealReset, D3D!Capture, D3D!hooks
<1>3. {inRelease', hooked'} \subseteq BOOLEAN
  BY <1>1 DEF D3D!Hooks, D3D!AddRef, D3D!Release, D3D!LeaveRelease, D3D!Return, D3D!RealAddRef, D3D!RealRelease,
    D3D!FreeSurface, D3D!ClearPointer, D3D!CreateSurface, D3D!CountDevice, D3D!Protect, D3D!RealReset, D3D!Capture,
    D3D!hooks
<1>4. fault' \in BOOLEAN
  BY <1>1 DEF D3D!Hooks, D3D!AddRef, D3D!Release, D3D!LeaveRelease, D3D!Return, D3D!RealAddRef, D3D!RealRelease,
    D3D!FreeSurface, D3D!ClearPointer, D3D!CreateSurface, D3D!CountDevice, D3D!Protect, D3D!RealReset, D3D!Capture
<1>5. returned' \in Nat
  <2>1. CASE D3D!Return
    BY <1>1, <2>1 DEF D3D!Return, Refs
  <2>2. CASE returned' = returned
    BY <1>1, <2>2
  <2> QED
    BY <2>1, <2>2 DEF D3D!Hooks, D3D!AddRef, D3D!Release, D3D!LeaveRelease, D3D!RealAddRef, D3D!RealRelease,
      D3D!FreeSurface, D3D!ClearPointer, D3D!CreateSurface, D3D!CountDevice, D3D!Protect, D3D!RealReset, D3D!Capture
<1>6. failures' \in 0..MaxFailures
  <2>1. CASE D3D!Fails
    BY <1>1, <2>1 DEF D3D!Fails
  <2>2. CASE failures' = failures
    BY <1>1, <2>2
  <2> QED
    BY <2>1, <2>2 DEF D3D!Hooks, D3D!AddRef, D3D!Release, D3D!LeaveRelease, D3D!Return, D3D!RealAddRef,
      D3D!RealRelease, D3D!FreeSurface, D3D!ClearPointer, D3D!CreateSurface, D3D!CountDevice, D3D!Protect,
      D3D!RealReset, D3D!Capture
<1> QED
  BY <1>2, <1>3, <1>4, <1>5, <1>6

\* The hooks leave the device the only one.
LEMMA HooksKeepOne ==
  ASSUME OneDevice, D3D!Hooks, D3D!At("create") => D3D!This \in D3D!Ids
  PROVE  OneDevice'
<1>1. D3D!TypeOK /\ Alone
  BY DEF OneDevice
<1>2. /\ UNCHANGED <<inside, owned, devices, dev, overlapped>>
      /\ refs' \in [D3D!Devices -> Nat] /\ \A d \in D3D!Devices : d # dev => refs'[d] = refs[d]
      /\ pointers' \subseteq D3D!Ids /\ alive' \subseteq D3D!Ids /\ owner' \in [D3D!Ids -> D3D!Devices]
      /\ \A s \in pointers' : owner'[s] = dev
  BY OnlyThis
<1>3. /\ deviceRefCount' \in 0..Word-1 /\ {inRelease', hooked', fault'} \subseteq BOOLEAN
      /\ returned' \in Nat /\ failures' \in 0..MaxFailures
  BY CountsKept
<1>4. D3D!TypeOK'
  BY <1>1, <1>2, <1>3 DEF D3D!TypeOK, D3D!Ids, D3D!Devices
<1>5. Alone'
  BY <1>1, <1>2 DEF Alone, D3D!Devices
<1>6. todo' \in Seq(OwnDeeds) /\ OwnDeeds' = OwnDeeds
  BY <1>2, StepsKept DEF OwnDeeds, Deeds
<1> QED
  BY <1>4, <1>5, <1>6 DEF OneDevice

\* So does the program, when it makes a device no earlier than the last one has gone.
LEMMA ProgramKeepsOne ==
  ASSUME OneDevice, AtRest, D3D!Next, ~overlapped'
  PROVE  OneDevice'
<1>1. D3D!TypeOK /\ Alone /\ todo = <<>> /\ dev \in D3D!Devices
  BY DEF OneDevice, AtRest, D3D!TypeOK
<1>2. MaxRefs \in Nat /\ MaxRefs > 0 /\ MaxDevices \in Nat /\ MaxFailures \in Nat
  BY Numbers
<1>3. {"free", "create", "count", "protect", "reset", "capture"} \subseteq DeedNames \ Counting
      /\ {"AddRef", "Release"} \subseteq DeedNames
  BY DEF DeedNames, Counting
<1>4. CASE /\ D3D!CreateDevice /\ (\A d \in D3D!Devices : refs[d] = 0) /\ Owned = 0 /\ pointers = {}
           /\ todo' = D3D!Each("create") \o <<D3D!Step("count")>>
  <2>1. /\ devices + 1 \in D3D!Devices /\ dev' = devices + 1 /\ devices' = devices + 1
        /\ refs' = [refs EXCEPT ![devices + 1] = 1] /\ owned' = [owned EXCEPT ![devices + 1] = 1]
        /\ UNCHANGED <<deviceRefCount, inRelease, hooked, pointers, owner, inside, alive, fault, failures>> /\ returned' = 1
    BY <1>1, <1>2, <1>4 DEF D3D!CreateDevice, D3D!Devices, D3D!TypeOK, D3D!hooks
  <2>2. overlapped' \in BOOLEAN
    BY <1>4 DEF D3D!CreateDevice
  <2>3. \A d \in D3D!Devices : owned[d] = 0
    BY <1>1, <1>4 DEF Alone, Owned
  <2>4. D3D!TypeOK'
    BY <1>1, <1>2, <2>1, <2>2 DEF D3D!TypeOK, D3D!Ids, D3D!Devices
  <2>5. Alone'
    <3>1. \A d \in D3D!Devices : d # devices + 1 => refs'[d] = 0 /\ owned'[d] = 0
      BY <1>1, <1>4, <2>1, <2>3 DEF D3D!TypeOK
    <3>2. pointers' = {}
      BY <1>4, <2>1
    <3> QED
      BY <2>1, <3>1, <3>2 DEF Alone, D3D!Devices
  <2>6. todo' \in Seq(OwnDeeds')
    <3> DEFINE Free == {a \in Deeds : a.do \notin Counting}
    <3>1. \A s \in D3D!Ids : D3D!On("create", s) \in Free
      BY <1>3, Numbers DEF D3D!On, Deeds, D3D!Ids
    <3>2. D3D!Step("count") \in Free
      BY <1>3 DEF D3D!Step, Deeds
    <3> HIDE DEF Free
    <3>3. D3D!Each("create") \in [1..Surfaces -> Free] /\ Surfaces \in Nat
      BY <3>1, Numbers DEF D3D!Each, D3D!Ids
    <3>4. D3D!Each("create") \in Seq(Free) /\ <<D3D!Step("count")>> \in Seq(Free)
      BY <3>2, <3>3
    <3>5. todo' \in Seq(Free)
      BY <1>4, <3>4, ConcatProperties
    <3>6. Free \subseteq OwnDeeds'
      BY DEF Free, OwnDeeds, Deeds
    <3> QED
      BY <3>5, <3>6
  <2> QED
    BY <2>4, <2>5, <2>6 DEF OneDevice
<1>5. ASSUME /\ UNCHANGED <<dev, devices, deviceRefCount, inRelease, hooked, inside, pointers, alive, owner, refs, fault,
                            returned, overlapped>>
             /\ \/ owned' = owned
                \/ owned[dev] \in 1..MaxRefs-1 /\ owned' = [owned EXCEPT ![dev] = @ + 1]
                \/ owned[dev] > 0 /\ owned' = [owned EXCEPT ![dev] = @ - 1]
             /\ failures' = failures \/ D3D!Fails
             /\ todo' \in Seq(OwnDeeds)
      PROVE  OneDevice'
  <2>1. owned' \in [D3D!Devices -> 0..MaxRefs] /\ \A d \in D3D!Devices : d # dev => owned'[d] = owned[d]
    <3>1. owned \in [D3D!Devices -> 0..MaxRefs] /\ owned[dev] \in 0..MaxRefs
      BY <1>1 DEF D3D!TypeOK
    <3>2. owned[dev] \in 1..MaxRefs-1 => owned[dev] + 1 \in 0..MaxRefs
      BY <1>2
    <3>3. owned[dev] > 0 => owned[dev] - 1 \in 0..MaxRefs
      BY <1>2, <3>1
    <3> QED
      BY <1>1, <1>5, <3>1, <3>2, <3>3
  <2>2. failures' \in 0..MaxFailures
    BY <1>1, <1>2, <1>5 DEF D3D!TypeOK, D3D!Fails
  <2>3. D3D!TypeOK'
    BY <1>1, <1>5, <2>1, <2>2 DEF D3D!TypeOK, D3D!Ids, D3D!Devices
  <2>4. Alone'
    BY <1>1, <1>5, <2>1 DEF Alone, D3D!Devices
  <2>5. OwnDeeds' = OwnDeeds
    BY <1>5 DEF OwnDeeds, Deeds
  <2> QED
    BY <1>5, <2>3, <2>4, <2>5 DEF OneDevice
<1>6. CASE D3D!ProgramAddRef(dev) /\ todo' = <<Of("AddRef"), Ret>> /\ dev' = dev
  <2>1. todo' \in Seq(OwnDeeds)
    BY <1>3, <1>6, Ours
  <2> QED
    BY <1>5, <1>6, <2>1 DEF D3D!ProgramAddRef, D3D!hooks
<1>7. CASE D3D!ProgramRelease(dev) /\ todo' = <<Of("Release"), Ret>> /\ dev' = dev
  <2>1. todo' \in Seq(OwnDeeds)
    BY <1>3, <1>7, Ours
  <2> QED
    BY <1>5, <1>7, <2>1 DEF D3D!ProgramRelease, D3D!hooks
<1>8. CASE /\ D3D!Reset(dev) /\ dev' = dev
           /\ todo' = (<<D3D!Step("protect")>> \o D3D!Each("free")) \o <<D3D!Step("reset")>>
  <2>1. <<D3D!Step("protect")>> \in Seq(OwnDeeds) /\ <<D3D!Step("reset")>> \in Seq(OwnDeeds)
    BY <1>3, Ours
  <2>2. todo' \in Seq(OwnDeeds)
    BY <1>8, <2>1, Ours, ConcatProperties
  <2> QED
    BY <1>5, <1>8, <2>2 DEF D3D!Reset, D3D!hooks
<1>9. CASE D3D!Present(dev) /\ dev' = dev /\ (todo' = <<>> \/ todo' = <<Take, D3D!Step("capture")>>)
  <2>1. todo' \in Seq(OwnDeeds)
    <3>1. D3D!Step("capture") \in OwnDeeds /\ Take \in OwnDeeds
      BY <1>3, Ours
    <3>2. <<>> \in Seq(OwnDeeds) /\ <<Take, D3D!Step("capture")>> \in Seq(OwnDeeds)
      BY <3>1
    <3> QED
      BY <1>9, <3>2
  <2>2. failures' = failures \/ D3D!Fails
    BY <1>9 DEF D3D!Present
  <2> QED
    BY <1>5, <1>9, <2>1, <2>2 DEF D3D!Present, D3D!hooks
<1> QED
  BY <1>4, <1>6, <1>7, <1>8, <1>9, Begins DEF Same

-----------------------------------------------------------------------------
(* What holds at every step. *)

\* A program begins without a device.
LEMMA RefInvInit == D3D!Init => RefInv
<1> SUFFICES ASSUME D3D!Init PROVE RefInv
  OBVIOUS
<1>0. 0 \in D3D!Devices /\ {MaxRefs, MaxDevices, MaxFailures, Word} \subseteq Nat /\ Word > 0
  BY Numbers DEF D3D!Devices
<1>1. D3D!TypeOK
  <2>1. /\ deviceRefCount \in 0..Word-1 /\ returned \in Nat /\ failures \in 0..MaxFailures
        /\ devices \in D3D!Devices /\ dev \in D3D!Devices
    BY <1>0 DEF D3D!Init
  <2>2. {inRelease, hooked, inside, overlapped, fault} \subseteq BOOLEAN
    BY DEF D3D!Init
  <2>3. pointers \subseteq D3D!Ids /\ alive \subseteq D3D!Ids
    BY DEF D3D!Init
  <2>4. owner \in [D3D!Ids -> D3D!Devices] /\ refs \in [D3D!Devices -> Nat] /\ owned \in [D3D!Devices -> 0..MaxRefs]
    BY <1>0 DEF D3D!Init
  <2> QED
    BY <2>1, <2>2, <2>3, <2>4 DEF D3D!TypeOK
<1>2. Alone /\ todo \in Seq(OwnDeeds)
  BY DEF Alone, D3D!Init
<1>3. Living = 0 /\ Refs = 0 /\ Owned = 0
  BY <1>0, FS_EmptySet DEF Living, D3D!Init, Refs, Owned
<1>4. Lent(0)
  BY <1>3 DEF Lent, D3D!Init
<1> QED
  BY <1>1, <1>2, <1>3, <1>4 DEF RefInv, OneDevice, Known, AtRest, Quiet, Whole, Told, D3D!Init

\* Every step, or none, keeps the invariant.
LEMMA RefInvNext == RefInv /\ (D3D!Next \/ UNCHANGED D3D!vars) => RefInv'
<1> SUFFICES ASSUME RefInv, D3D!Next \/ UNCHANGED D3D!vars, ~overlapped'
             PROVE  OneDevice' /\ ~fault' /\ Known'
  BY DEF RefInv
<1>1. CASE D3D!Next
  <2>1. ~overlapped
    <3>1. overlapped => overlapped'
      BY <1>1 DEF D3D!Next, D3D!CreateDevice, D3D!ProgramAddRef, D3D!ProgramRelease, D3D!Reset, D3D!Present,
        D3D!Hooks, D3D!AddRef, D3D!Release, D3D!LeaveRelease, D3D!Return, D3D!RealAddRef, D3D!RealRelease,
        D3D!FreeSurface, D3D!ClearPointer, D3D!CreateSurface, D3D!CountDevice, D3D!Protect, D3D!RealReset, D3D!Capture,
        D3D!program
    <3> QED
      BY <3>1
  <2>2. OneDevice /\ ~fault /\ Known
    BY <2>1 DEF RefInv
  <2>3. CASE AtRest
    BY <1>1, <2>2, <2>3, FromRest, ProgramKeepsOne
  <2>4. CASE ~AtRest
    <3>1. Known' /\ ~fault' /\ (D3D!At("create") => D3D!This \in D3D!Ids)
      <4>1. CASE Program \/ Presenting \/ Protecting
        <5>1. ~D3D!At("create")
          BY <2>2, <4>1, FirstStep
        <5> QED
          BY <1>1, <2>2, <4>1, <5>1, FromAdding, FromReturning, FromReleasing, FromLastReal, FromPresenting,
            FromProtecting DEF Program
      <4>2. ASSUME NEW k \in 0..Surfaces, Device(k) \/ FreeLast(k) \/ FreeReset(k) \/ Recreate(k)
            PROVE  Known' /\ ~fault' /\ (D3D!At("create") => D3D!This \in D3D!Ids)
        BY <1>1, <2>2, <4>2, FromDevice, FromFreeLast, FromFreeReset, FromRecreate
      <4> QED
        BY <2>2, <2>4, <4>1, <4>2 DEF Known
    <3>2. ~D3D!Idle
      BY <2>2, <2>4, OnlyAtRest
    <3>3. D3D!Hooks
      BY <1>1, <3>2 DEF D3D!Next, D3D!CreateDevice, D3D!ProgramAddRef, D3D!ProgramRelease, D3D!Reset, D3D!Present
    <3> QED
      BY <2>2, <3>1, <3>3, HooksKeepOne
  <2> QED
    BY <2>3, <2>4
<1>2. CASE UNCHANGED D3D!vars
  <2>0. OneDevice /\ ~fault /\ Known
    BY <1>2 DEF RefInv, D3D!vars, D3D!program
  <2>1. OneDevice' /\ ~fault'
    BY <1>2, <2>0 DEF OneDevice, Alone, OwnDeeds, Deeds, D3D!TypeOK, D3D!vars, D3D!hooks, D3D!program, D3D!Ids,
      D3D!Devices
  <2>2. Known' = Known
    BY <1>2 DEF D3D!vars, D3D!hooks, D3D!program, Known, AtRest, Program, Adding, Returning, Releasing, LastReal,
      Presenting, Protecting, Device, FreeLast, FreeReset, Recreate, Lent, Counted, Balance, Whole, Told, Gone,
      Quiet, Tails, From, D3D!Each, D3D!On, D3D!Step, Of, Ret, Living, D3D!Ids, Take, Refs, Owned
  <2> QED
    BY <2>0, <2>1, <2>2
<1> QED
  BY <1>1, <1>2

\* What RefInv says of the devices at rest.
LEMMA RefInvGives == RefInv => D3D!DeviceDiesWithProgram
<1> SUFFICES ASSUME RefInv, ~overlapped, D3D!Idle, failures = 0
             PROVE  /\ \A d \in D3D!Devices : refs[d] = IF owned[d] = 0 THEN 0 ELSE owned[d] + Surfaces
                    /\ alive = pointers /\ returned = Owned
  BY DEF D3D!DeviceDiesWithProgram, RefInv, Owned
<1>1. OneDevice /\ AtRest
  BY OnlyAtRest DEF RefInv
<1>2. /\ pointers = alive /\ returned = Owned /\ alive = (IF Owned = 0 THEN {} ELSE D3D!Ids)
      /\ Refs - (Owned + Living + 0) \in 0..0
  BY <1>1 DEF AtRest, Quiet, Whole, Told, Lent
<1>3. Refs \in Nat /\ Owned \in Nat /\ Living \in Nat /\ (Living = 0 <=> alive = {})
  BY <1>1, Sizes
<1>4. Living = IF Owned = 0 THEN 0 ELSE Surfaces
  BY <1>2, <1>3, SurfacesCounted DEF Living
<1>5. Refs = IF Owned = 0 THEN 0 ELSE Owned + Surfaces
  BY <1>2, <1>3, <1>4, Numbers
<1>6. \A d \in D3D!Devices : d # dev => refs[d] = 0 /\ owned[d] = 0
  BY <1>1 DEF OneDevice, Alone
<1> QED
  BY <1>2, <1>5, <1>6 DEF Refs, Owned

\* A program with one device at a time does not notice the capture surfaces, whether
\* Direct3D's own calls come through the hooks or not and whatever fails: the hooks'
\* count and the real one are what RefInv says at every step of a call.
THEOREM DeviceDies == GraphicsSpec => []DeviceDiesWithProgram
<1>1. GraphicsInit => RefInv
  BY RefInvInit DEF GraphicsInit
<1>2. RefInv /\ [GraphicsNext]_graphicsVars => RefInv'
  <2> SUFFICES ASSUME RefInv, [GraphicsNext]_graphicsVars PROVE RefInv'
    OBVIOUS
  <2>1. D3D!Next \/ UNCHANGED d3d
    BY DEF GraphicsNext, graphicsVars
  <2>2. UNCHANGED d3d => UNCHANGED D3D!vars
    BY DEF d3d, D3D!vars, D3D!hooks, D3D!program
  <2> QED
    BY <2>1, <2>2, RefInvNext
<1>3. RefInv => DeviceDiesWithProgram
  BY RefInvGives DEF DeviceDiesWithProgram
<1> QED
  BY <1>1, <1>2, <1>3, PTL DEF GraphicsSpec

-----------------------------------------------------------------------------
(* DirectDraw: what is left of a call, and of the frames. *)

\* Pictures of which it is not decided yet whether they are written, and those whose frame
\* has not been counted.
Due(p, f) == written + refused + undrawn + p = presented /\ advanced + f = presented
NoData == primaryData = 0
Frame == DDraw!Step("nextFrame")
Version == PrimarySurfaceVersion

\* The program draws to memory of kkapture's exactly if its Lock was seen.
Tied == virtual <=> ~NoData

\* The steps that are left of a call.
NoCall == calls = <<>> /\ Due(0, 0) /\ Tied
Creating ==
  /\ \E w \in DDraw!Patched : calls = <<DDraw!Call("PrimarySurfaceCreated", Primary, w, None)>>
  /\ Due(0, 0) /\ Tied /\ PrimarySurface = None
Blitting ==
  /\ Tied /\ PrimarySurface = Primary
  /\ \E me \in {Primary, Other}, from \in {Other, None} :
       /\ calls = <<DDraw!Call("Blt", me, Version, from)>>
       /\ IF me = Primary /\ from # None THEN Due(1, 1) /\ (~NoData => careless) ELSE Due(0, 0)
Flipping ==
  /\ \E me \in {Primary, Other} : calls = <<DDraw!Call("Flip", me, Version, None)>>
  /\ Due(1, 1) /\ Tied /\ PrimarySurface = Primary
Seen(what) == result /\ what = DDraw!Whole /\ VirtualFramebuffer /\ Version \in DDraw!LockHooks(Version)
Locking ==
  /\ Due(0, 0) /\ PrimarySurface = Primary
  /\ \E what \in {DDraw!Whole, DDraw!Part} :
       \/ calls = <<DDraw!Call("Lock", Primary, Version, what), DDraw!With("given", what)>> /\ Tied
       \/ /\ calls = <<DDraw!With("given", what)>> /\ (result => locked = DDraw!Nothing)
          /\ IF Seen(what) THEN ~NoData /\ capture = primaryData ELSE Tied
       \/ /\ calls = <<DDraw!Step("lockPrimary"), DDraw!With("given", what)>> /\ Tied
          /\ result /\ locked = DDraw!Nothing /\ what = DDraw!Whole /\ Version \in DDraw!LockHooks(Version)
Drawing == ~virtual /\ PrimarySurface = Primary /\ IF NoData THEN Due(0, 1) ELSE Due(1, 1)
Unlocking ==
  /\ \E done \in BOOLEAN :
       /\ calls = <<DDraw!Call("Unlock", Primary, Version, done)>>
       /\ ~VirtualFramebuffer => IF done THEN Due(1, 1) ELSE Due(0, 0)
  /\ VirtualFramebuffer => Drawing
  /\ ~virtual /\ PrimarySurface = Primary
Drawn == calls = <<DDraw!Step("unlockPrimary"), Frame>> /\ Drawing
Reading ==
  /\ Due(1, 1) /\ Tied /\ PrimarySurface = Primary
  /\ \/ /\ \E s \in {Primary, Other} : calls = <<DDraw!With("resolution", s), DDraw!Step("readBack"), Frame>>
        /\ ~NoData => careless
     \/ calls = <<DDraw!Step("readBack"), Frame>>
     \/ calls = <<DDraw!Call("Blt", Blit, Version, Primary), DDraw!Step("blitted"), Frame>>
     \/ calls = <<DDraw!Step("blitted"), Frame>>
     \/ calls = <<DDraw!Call("Lock", Blit, Version, DDraw!Whole), DDraw!Step("locked"), Frame>>
     \/ calls = <<DDraw!Step("locked"), Frame>>
     \/ calls = <<DDraw!Call("Unlock", Blit, Version, TRUE), DDraw!Step("write"), Frame>>
     \/ calls = <<DDraw!Step("write"), Frame>>
LastFrame == calls = <<Frame>> /\ Due(0, 1) /\ Tied /\ PrimarySurface = Primary
Crashed == crashed /\ (Due(0, 0) \/ Due(1, 1))

PrimaryKept ==
  /\ PrimarySurface # None => Version \in DDraw!Patched
  /\ PrimarySurface = None => locked = DDraw!Nothing /\ NoData
  /\ ~NoData => VirtualFramebuffer /\ (careless \/ capture = primaryData)
  /\ virtual => locked = DDraw!Whole

Shapes == NoCall \/ Creating \/ Blitting \/ Flipping \/ Locking \/ Unlocking \/ Drawn \/ Reading \/ LastFrame
KnownCalls == Crashed \/ (~crashed /\ Shapes)
PictureInv == DDraw!TypeOK /\ PrimaryKept /\ KnownCalls

\* The first of the steps that are left, and the others.
LEMMA FirstCall ==
  ASSUME NEW a, NEW b, NEW c, NEW d
  PROVE  /\ <<a>> # <<>> /\ Head(<<a>>) = a /\ Tail(<<a>>) = <<>>
         /\ <<a, b>> # <<>> /\ Head(<<a, b>>) = a /\ Tail(<<a, b>>) = <<b>>
         /\ <<a, b, c>> # <<>> /\ Head(<<a, b, c>>) = a /\ Tail(<<a, b, c>>) = <<b, c>>
         /\ <<a, b, c, d>> # <<>> /\ Head(<<a, b, c, d>>) = a /\ Tail(<<a, b, c, d>>) = <<b, c, d>>
OBVIOUS

\* What an action puts in front of the others.
LEMMA CallsJoined ==
  ASSUME NEW a, NEW b, NEW c, NEW d
  PROVE  /\ <<>> \o <<>> = <<>> /\ <<>> \o <<a>> = <<a>> /\ <<>> \o <<a, b>> = <<a, b>>
         /\ <<>> \o <<a, b, c>> = <<a, b, c>>
         /\ <<a>> \o <<>> = <<a>> /\ <<a, b>> \o <<>> = <<a, b>> /\ <<a, b, c>> \o <<>> = <<a, b, c>>
         /\ <<a>> \o <<b>> = <<a, b>> /\ <<a, b>> \o <<c>> = <<a, b, c>> /\ <<a, b, c>> \o <<d>> = <<a, b, c, d>>
<1> DEFINE S == {a, b, c, d}
<1>0. a \in S /\ b \in S /\ c \in S /\ d \in S
  OBVIOUS
<1> HIDE DEF S
<1>1. <<>> \o <<>> = <<>> /\ <<>> \o <<a>> = <<a>>
  OBVIOUS
<1>2. <<>> \o <<a, b>> = <<a, b>> /\ <<>> \o <<a, b, c>> = <<a, b, c>>
  OBVIOUS
<1>3. <<a>> \o <<>> = <<a>>
  OBVIOUS
<1>4. <<a, b>> \o <<>> = <<a, b>>
  OBVIOUS
<1>5. <<a, b, c>> \o <<>> = <<a, b, c>>
  OBVIOUS
<1>6. <<a>> \o <<b>> = <<a, b>>
  <2> DEFINE p == <<a>> \o <<b>>
             q == <<a, b>>
  <2>1. <<a>> \in Seq(S) /\ <<b>> \in Seq(S) /\ Len(<<a>>) + Len(<<b>>) = Len(q) /\ q \in Seq(S)
    BY <1>0
  <2>2. p \in Seq(S) /\ Len(p) = Len(q)
    BY <2>1
  <2>3. \A i \in 1..Len(p) : p[i] = q[i]
    BY <1>0
  <2> HIDE DEF p, q
  <2>4. p = q
    BY <2>1, <2>2, <2>3, SeqEqual
  <2> QED
    BY <2>4 DEF p, q
<1>7. <<a, b>> \o <<c>> = <<a, b, c>>
  <2> DEFINE p == <<a, b>> \o <<c>>
             q == <<a, b, c>>
  <2>1. <<a, b>> \in Seq(S) /\ <<c>> \in Seq(S) /\ Len(<<a, b>>) + Len(<<c>>) = Len(q) /\ q \in Seq(S)
    BY <1>0
  <2>2. p \in Seq(S) /\ Len(p) = Len(q)
    BY <2>1
  <2>3. \A i \in 1..Len(p) : p[i] = q[i]
    BY <1>0
  <2> HIDE DEF p, q
  <2>4. p = q
    BY <2>1, <2>2, <2>3, SeqEqual
  <2> QED
    BY <2>4 DEF p, q
<1>8. <<a, b, c>> \o <<d>> = <<a, b, c, d>>
  <2> DEFINE p == <<a, b, c>> \o <<d>>
             q == <<a, b, c, d>>
  <2>1. <<a, b, c>> \in Seq(S) /\ <<d>> \in Seq(S) /\ Len(<<a, b, c>>) + Len(<<d>>) = Len(q) /\ q \in Seq(S)
    BY <1>0
  <2>2. p \in Seq(S) /\ Len(p) = Len(q)
    BY <2>1
  <2>3. \A i \in 1..Len(p) : p[i] = q[i]
    BY <1>0
  <2> HIDE DEF p, q
  <2>4. p = q
    BY <2>1, <2>2, <2>3, SeqEqual
  <2> QED
    BY <2>4 DEF p, q
<1> QED
  BY <1>1, <1>2, <1>3, <1>4, <1>5, <1>6, <1>7, <1>8

\* The first step of the sequence says which action comes next.
LEMMA CallOf ==
  ASSUME DDraw!Next, calls # <<>>
  PROVE  /\ ~crashed
         /\ DDraw!This.do = "PrimarySurfaceCreated" => DDraw!PrimarySurfaceCreated
         /\ DDraw!This.do = "Blt" => DDraw!MineBlt
         /\ DDraw!This.do = "Flip" => DDraw!MineFlip
         /\ DDraw!This.do = "Lock" => DDraw!MineLock
         /\ DDraw!This.do = "given" => DDraw!Given
         /\ DDraw!This.do = "Unlock" => DDraw!MineUnlock
         /\ DDraw!This.do = "lockPrimary" => DDraw!LockPrimary
         /\ DDraw!This.do = "unlockPrimary" => DDraw!UnlockPrimary
         /\ DDraw!This.do = "resolution" => DDraw!Resolution
         /\ DDraw!This.do = "readBack" => DDraw!ReadBack
         /\ DDraw!This.do = "blitted" => DDraw!Blitted
         /\ DDraw!This.do = "locked" => DDraw!Locked
         /\ DDraw!This.do = "write" => DDraw!WriteFrame
         /\ DDraw!This.do = "nextFrame" => DDraw!nextFrame
<1>1. DDraw!Hook
  BY DEF DDraw!Next, DDraw!Program, DDraw!CreateSurface, DDraw!QueryInterface, DDraw!HasPrimary, DDraw!Blt,
    DDraw!Flip, DDraw!Lock, DDraw!Unlock, DDraw!Idle
<1>2. /\ DDraw!PrimarySurfaceCreated => DDraw!This.do = "PrimarySurfaceCreated" /\ ~crashed
      /\ DDraw!MineBlt => DDraw!This.do = "Blt" /\ ~crashed
      /\ DDraw!MineFlip => DDraw!This.do = "Flip" /\ ~crashed
      /\ DDraw!MineLock => DDraw!This.do = "Lock" /\ ~crashed
      /\ DDraw!Given => DDraw!This.do = "given" /\ ~crashed
      /\ DDraw!MineUnlock => DDraw!This.do = "Unlock" /\ ~crashed
      /\ DDraw!LockPrimary => DDraw!This.do = "lockPrimary" /\ ~crashed
      /\ DDraw!UnlockPrimary => DDraw!This.do = "unlockPrimary" /\ ~crashed
      /\ DDraw!Resolution => DDraw!This.do = "resolution" /\ ~crashed
      /\ DDraw!ReadBack => DDraw!This.do = "readBack" /\ ~crashed
      /\ DDraw!Blitted => DDraw!This.do = "blitted" /\ ~crashed
      /\ DDraw!Locked => DDraw!This.do = "locked" /\ ~crashed
      /\ DDraw!WriteFrame => DDraw!This.do = "write" /\ ~crashed
      /\ DDraw!nextFrame => DDraw!This.do = "nextFrame" /\ ~crashed
  BY DEF DDraw!At, DDraw!This, DDraw!PrimarySurfaceCreated, DDraw!MineBlt, DDraw!MineFlip, DDraw!MineLock,
    DDraw!Given, DDraw!MineUnlock, DDraw!LockPrimary, DDraw!UnlockPrimary, DDraw!Resolution, DDraw!ReadBack,
    DDraw!Blitted, DDraw!Locked, DDraw!WriteFrame, DDraw!nextFrame
<1> HIDE DEF DDraw!This
<1> QED
  BY <1>1, <1>2 DEF DDraw!Hook

\* What a call says.
LEMMA CallSays ==
  ASSUME NEW method, NEW me, NEW version, NEW with
  PROVE  /\ DDraw!Call(method, me, version, with).do = method /\ DDraw!Call(method, me, version, with).me = me
         /\ DDraw!Call(method, me, version, with).version = version
         /\ DDraw!Call(method, me, version, with).with = with
         /\ DDraw!Step(method).do = method /\ DDraw!With(method, with).do = method
         /\ DDraw!With(method, with).with = with
BY DEF DDraw!Call, DDraw!Step, DDraw!With

\* A sequence that is taken once is itself.
LEMMA OnceOver ==
  ASSUME NEW S, NEW steps \in Seq(S)
  PROVE  /\ [i \in 1..1 * Len(steps) |-> steps[((i - 1) % Len(steps)) + 1]] = steps
         /\ [i \in 1..0 * Len(steps) |-> steps[((i - 1) % Len(steps)) + 1]] = <<>>
<1>1. Len(steps) \in Nat /\ 1 * Len(steps) = Len(steps) /\ 0 * Len(steps) = 0
  OBVIOUS
<1>2. ASSUME NEW n \in Nat, NEW i \in 1..n
      PROVE  ((i - 1) % n) + 1 = i
  <2>1. i - 1 \in Nat /\ i - 1 < n /\ n > 0
    OBVIOUS
  <2>2. (i - 1) % n = i - 1
    BY <2>1, SMT
  <2> QED
    BY <2>2
<1>3. [i \in 1..Len(steps) |-> steps[((i - 1) % Len(steps)) + 1]] = [i \in 1..Len(steps) |-> steps[i]]
  BY <1>1, <1>2
<1>4. [i \in 1..Len(steps) |-> steps[i]] = steps
  OBVIOUS
<1>5. [i \in 1..0 |-> steps[((i - 1) % Len(steps)) + 1]] = <<>>
  OBVIOUS
<1> QED
  BY <1>1, <1>3, <1>4, <1>5

\* Once taken in turn, or not at all.
LEMMA EachOnce ==
  ASSUME NEW v, NEW S, NEW steps \in Seq(S)
  PROVE  DDraw!Each({v}, steps) = steps /\ DDraw!Each({}, steps) = <<>>
<1>1. Cardinality({v}) = 1 /\ Cardinality({}) = 0
  BY FS_Singleton, FS_EmptySet
<1> DEFINE Over(n) == [i \in 1..n * Len(steps) |-> steps[((i - 1) % Len(steps)) + 1]]
<1>2. \A versions : DDraw!Each(versions, steps) = Over(Cardinality(versions))
  BY DEF DDraw!Each, DDraw!Cardinality, Cardinality
<1>3. Over(1) = steps /\ Over(0) = <<>>
  BY OnceOver
<1> HIDE DEF Over
<1> QED
  BY <1>1, <1>2, <1>3

\* A call of the primary's version comes through that version's hook once, which takes the
\* primary's calls for its own and no others; a Lock may go past it.
LEMMA HookedOnce ==
  ASSUME DDraw!TypeOK, Version \in DDraw!Patched, PrimarySurface = Primary, DDraw!This.version = Version,
         NEW S, NEW steps \in Seq(S)
  PROVE  /\ DDraw!Each(DDraw!Hooks(DDraw!This.version) \intersect DDraw!OfPrimary, steps)
              = IF DDraw!This.me = Primary THEN steps ELSE <<>>
         /\ DDraw!Each(DDraw!LockHooks(DDraw!This.version) \intersect DDraw!OfPrimary, steps)
              = IF DDraw!This.me = Primary /\ Version \in DDraw!LockHooks(Version) THEN steps ELSE <<>>
         /\ DDraw!Each(DDraw!Hooks(DDraw!This.version) \intersect {PrimarySurfaceVersion}, steps) = steps
<1>1. Version \in DDraw!Versions /\ DDraw!OfPrimary = IF DDraw!This.me = Primary THEN {Version} ELSE {}
  BY DEF DDraw!OfPrimary, DDraw!Mine, Version, DDraw!Patched
<1>2. Version \in DDraw!Hooks(DDraw!This.version)
  BY DEF DDraw!Hooks
<1> DEFINE hooks == DDraw!Hooks(DDraw!This.version)
           locks == DDraw!LockHooks(DDraw!This.version)
<1>3. /\ hooks \intersect {Version} = {Version} /\ hooks \intersect {} = {} /\ locks \intersect {} = {}
      /\ locks \intersect {Version} = IF Version \in DDraw!LockHooks(Version) THEN {Version} ELSE {}
  <2>1. hooks \intersect {Version} = {Version}
    BY <1>2
  <2>2. locks = DDraw!LockHooks(Version)
    OBVIOUS
  <2> HIDE DEF hooks, locks
  <2> QED
    BY <2>1, <2>2
<1>4. DDraw!Each({Version}, steps) = steps /\ DDraw!Each({}, steps) = <<>>
  BY EachOnce
<1> HIDE DEF hooks, locks
<1>5. CASE DDraw!This.me = Primary
  <2>1. DDraw!OfPrimary = {Version}
    BY <1>1, <1>5
  <2>2. DDraw!Each(hooks \intersect DDraw!OfPrimary, steps) = steps
    BY <1>3, <1>4, <2>1
  <2>3. DDraw!Each(locks \intersect DDraw!OfPrimary, steps)
          = IF Version \in DDraw!LockHooks(Version) THEN steps ELSE <<>>
    BY <1>3, <1>4, <2>1
  <2>4. DDraw!Each(hooks \intersect {PrimarySurfaceVersion}, steps) = steps
    BY <1>3, <1>4 DEF Version
  <2> QED
    BY <1>5, <2>2, <2>3, <2>4 DEF hooks, locks
<1>6. CASE DDraw!This.me # Primary
  <2>1. DDraw!OfPrimary = {}
    BY <1>1, <1>6
  <2>2. DDraw!Each(hooks \intersect DDraw!OfPrimary, steps) = <<>>
    BY <1>3, <1>4, <2>1
  <2>3. DDraw!Each(locks \intersect DDraw!OfPrimary, steps) = <<>>
    BY <1>3, <1>4, <2>1
  <2>4. DDraw!Each(hooks \intersect {PrimarySurfaceVersion}, steps) = steps
    BY <1>3, <1>4 DEF Version
  <2> QED
    BY <1>6, <2>2, <2>3, <2>4 DEF hooks, locks
<1> QED
  BY <1>5, <1>6

\* A version that is patched stays so.
LEMMA PatchedMore ==
  ASSUME DDraw!TypeOK, NEW v \in DDraw!Versions, DDraw!Patch(v)
  PROVE  patched' \in [DDraw!Versions -> Nat] /\ DDraw!Patched \subseteq DDraw!Patched' /\ v \in DDraw!Patched'
<1>1. patched \in [DDraw!Versions -> Nat]
  BY DEF DDraw!TypeOK
<1>2. IsFiniteSet(DDraw!Patched)
  <2>1. IsFiniteSet({1, 4, 7})
    <3>1. IsFiniteSet({1})
      BY FS_Singleton
    <3>2. IsFiniteSet({1} \union {4}) /\ IsFiniteSet(({1} \union {4}) \union {7})
      BY <3>1, FS_AddElement
    <3>3. ({1} \union {4}) \union {7} = {1, 4, 7}
      OBVIOUS
    <3> QED
      BY <3>2, <3>3
  <2>2. DDraw!Patched \subseteq {1, 4, 7}
    BY DEF DDraw!Patched, DDraw!Versions
  <2> QED
    BY <2>1, <2>2, FS_Subset
<1>3. DDraw!Cardinality(DDraw!Patched) \in Nat
  BY <1>2, FS_CardinalityType DEF DDraw!Cardinality, Cardinality
<1> DEFINE n == DDraw!Cardinality(DDraw!Patched) + 1
<1>4. n \in Nat /\ n # 0
  BY <1>3
<1>5. patched' = IF v \in DDraw!Patched THEN patched ELSE [patched EXCEPT ![v] = n]
  BY DEF DDraw!Patch
<1> HIDE DEF n
<1> QED
  BY <1>1, <1>4, <1>5 DEF DDraw!Patched

\* The frames: a picture is presented, decided, and its frame counted.
LEMMA DueMoves ==
  ASSUME DDraw!TypeOK
  PROVE  /\ UNCHANGED <<DDraw!frames, presented, undrawn>> =>
               (Due(0, 0) => Due(0, 0)') /\ (Due(1, 1) => Due(1, 1)') /\ (Due(0, 1) => Due(0, 1)')
         /\ Due(0, 0) /\ UNCHANGED <<DDraw!frames, undrawn>> /\ presented' = presented + 1 => Due(1, 1)'
         /\ Due(0, 0) /\ UNCHANGED DDraw!frames /\ undrawn' = undrawn + 1 /\ presented' = presented + 1 => Due(0, 1)'
         /\ Due(1, 1) /\ UNCHANGED <<refused, advanced, presented, undrawn>> /\ written' = written + 1 => Due(0, 1)'
         /\ Due(1, 1) /\ UNCHANGED <<written, advanced, presented, undrawn>> /\ refused' = refused + 1 => Due(0, 1)'
         /\ Due(0, 1) /\ UNCHANGED <<written, refused, presented, undrawn>> /\ advanced' = advanced + 1 => Due(0, 0)'
<1>1. written \in Nat /\ refused \in Nat /\ undrawn \in Nat /\ advanced \in Nat /\ presented \in Nat
  BY DirectDrawAssumption DEF DDraw!TypeOK
<1> QED
  BY <1>1 DEF Due, DDraw!frames

\* What is known of the primary stays while it is as it was.
LEMMA PrimaryMoves ==
  ASSUME PrimaryKept, UNCHANGED <<DDraw!params, DDraw!primary, capture, primaryData, locked, virtual>>,
         careless \in BOOLEAN, careless => careless', careless' \in BOOLEAN, DDraw!Patched \subseteq DDraw!Patched'
  PROVE  /\ PrimaryKept' /\ Version' = Version /\ PrimarySurface' = PrimarySurface /\ NoData' = NoData
         /\ Tied' = Tied
<1>1. Version' = Version /\ PrimarySurface' = PrimarySurface /\ NoData' = NoData /\ Tied' = Tied
  BY DEF DDraw!primary, Version, NoData, Tied
<1>2. PrimarySurface # None => Version' \in DDraw!Patched'
  BY <1>1 DEF PrimaryKept
<1> QED
  BY <1>1, <1>2 DEF PrimaryKept, DDraw!params

\* A step that no more than takes the next call from the sequence, or changes the frames.
LEMMA OnlyMoves ==
  ASSUME DDraw!TypeOK, PrimaryKept, DDraw!Only, UNCHANGED <<capture, primaryData>>
  PROVE  /\ PrimaryKept' /\ Version' = Version /\ PrimarySurface' = PrimarySurface /\ NoData' = NoData
         /\ Tied' = Tied /\ UNCHANGED <<presented, undrawn, locked, virtual, careless, patched, DDraw!params>>
<1>1. UNCHANGED <<presented, undrawn, locked, virtual, careless, patched, DDraw!params, DDraw!primary>>
  BY DEF DDraw!Only, DDraw!program
<1>2. DDraw!Patched' = DDraw!Patched
  BY <1>1 DEF DDraw!Patched
<1>3. careless \in BOOLEAN
  BY DEF DDraw!TypeOK
<1> QED
  BY <1>1, <1>2, <1>3, PrimaryMoves

\* The program may begin a call when the hooks are done.
LEMMA FromNoCall ==
  ASSUME DDraw!TypeOK, PrimaryKept, NoCall, ~crashed, DDraw!Next
  PROVE  Shapes' /\ PrimaryKept' /\ crashed' = crashed
<1>1. DDraw!Program
  BY DEF NoCall, DDraw!Next, DDraw!Hook, DDraw!PrimarySurfaceCreated, DDraw!MineBlt, DDraw!MineFlip, DDraw!MineLock,
    DDraw!Given, DDraw!MineUnlock, DDraw!LockPrimary, DDraw!UnlockPrimary, DDraw!Resolution, DDraw!ReadBack,
    DDraw!Blitted, DDraw!Locked, DDraw!WriteFrame, DDraw!nextFrame, DDraw!At
<1>2. Due(0, 0) /\ Tied /\ (PrimarySurface # None => PrimarySurface = Primary)
  BY DEF NoCall, DDraw!TypeOK
<1>3. careless \in BOOLEAN /\ virtual \in BOOLEAN
  BY DEF DDraw!TypeOK
<1>4. ASSUME patched' = patched
      PROVE  DDraw!Patched \subseteq DDraw!Patched'
  BY <1>4 DEF DDraw!Patched
<1>5. ASSUME NEW v \in DDraw!Versions, DDraw!CreateSurface(Primary, v)
      PROVE  Shapes' /\ PrimaryKept' /\ crashed' = crashed
  <2>1. /\ PrimarySurface = None /\ DDraw!Patch(v)
        /\ calls' = <<DDraw!Call("PrimarySurfaceCreated", Primary, v, None)>>
        /\ UNCHANGED <<DDraw!params, DDraw!primary, capture, primaryData, locked, virtual, careless>>
        /\ UNCHANGED <<DDraw!frames, presented, undrawn, crashed>>
    BY <1>5 DEF DDraw!CreateSurface, DDraw!Unchanged, DDraw!program
  <2>2. v \in DDraw!Patched' /\ DDraw!Patched \subseteq DDraw!Patched'
    BY <2>1, PatchedMore
  <2>3. PrimaryKept' /\ PrimarySurface' = None /\ Tied'
    BY <1>2, <1>3, <2>1, <2>2, PrimaryMoves
  <2>4. Due(0, 0)'
    BY <1>2, <2>1, DueMoves
  <2> QED
    BY <2>1, <2>2, <2>3, <2>4 DEF Shapes, Creating, DDraw!Call
<1>6. ASSUME NEW v \in DDraw!Versions, DDraw!CreateSurface(Other, v) \/ DDraw!QueryInterface(v)
      PROVE  Shapes' /\ PrimaryKept' /\ crashed' = crashed
  <2>1. /\ DDraw!Patch(v) /\ calls' = <<>>
        /\ UNCHANGED <<DDraw!params, DDraw!primary, capture, primaryData, locked, virtual, careless>>
        /\ UNCHANGED <<DDraw!frames, presented, undrawn, crashed>>
    BY <1>6, DirectDrawAssumption DEF DDraw!CreateSurface, DDraw!QueryInterface, DDraw!Unchanged, NoCall, DDraw!program
  <2>2. DDraw!Patched \subseteq DDraw!Patched'
    BY <2>1, PatchedMore
  <2>3. PrimaryKept' /\ Tied'
    BY <1>2, <1>3, <2>1, <2>2, PrimaryMoves
  <2>4. Due(0, 0)'
    BY <1>2, <2>1, DueMoves
  <2> QED
    BY <2>1, <2>3, <2>4 DEF Shapes, NoCall
<1>7. ASSUME NEW me \in {Primary, Other}, NEW from \in {Other, None}, DDraw!Blt(me, from)
      PROVE  Shapes' /\ PrimaryKept' /\ crashed' = crashed
  <2>1. /\ PrimarySurface # None /\ calls' = <<DDraw!Call("Blt", me, Version, from)>>
        /\ IF me = Primary /\ from # None
           THEN presented' = presented + 1 /\ careless' = (careless \/ locked # DDraw!Nothing)
           ELSE presented' = presented /\ careless' = careless
        /\ UNCHANGED <<DDraw!params, DDraw!primary, capture, primaryData, locked, virtual, patched>>
        /\ UNCHANGED <<DDraw!frames, undrawn, crashed>>
    BY <1>7 DEF DDraw!Blt, DDraw!HasPrimary, DDraw!Unchanged, DDraw!Presents, Version
  <2>2. careless' \in BOOLEAN /\ (careless => careless')
    BY <1>3, <2>1
  <2>3. PrimaryKept' /\ PrimarySurface' = Primary /\ Version' = Version /\ Tied' /\ NoData' = NoData
    BY <1>2, <1>3, <1>4, <2>1, <2>2, PrimaryMoves
  <2>4. IF me = Primary /\ from # None THEN Due(1, 1)' ELSE Due(0, 0)'
    BY <1>2, <2>1, DueMoves
  <2>5. me = Primary /\ from # None => (~NoData => careless')
    <3>1. virtual => locked # DDraw!Nothing
      BY DEF PrimaryKept, DDraw!Whole, DDraw!Nothing
    <3> QED
      BY <1>2, <2>1, <3>1 DEF Tied
  <2>6. DDraw!Call("Blt", me, Version, from)' = DDraw!Call("Blt", me, Version, from)
    BY <2>3 DEF DDraw!Call
  <2> QED
    BY <2>1, <2>3, <2>4, <2>5, <2>6 DEF Shapes, Blitting
<1>8. ASSUME NEW me \in {Primary, Other}, DDraw!Flip(me)
      PROVE  Shapes' /\ PrimaryKept' /\ crashed' = crashed
  <2>1. /\ PrimarySurface # None /\ calls' = <<DDraw!Call("Flip", me, Version, None)>>
        /\ presented' = presented + 1
        /\ UNCHANGED <<DDraw!params, DDraw!primary, capture, primaryData, locked, virtual, careless, patched>>
        /\ UNCHANGED <<DDraw!frames, undrawn, crashed>>
    BY <1>8 DEF DDraw!Flip, DDraw!HasPrimary, DDraw!Unchanged, DDraw!Presents, Version
  <2>2. PrimaryKept' /\ PrimarySurface' = Primary /\ Version' = Version /\ Tied'
    BY <1>2, <1>3, <1>4, <2>1, PrimaryMoves
  <2>3. Due(1, 1)'
    BY <1>2, <2>1, DueMoves
  <2>4. DDraw!Call("Flip", me, Version, None)' = DDraw!Call("Flip", me, Version, None)
    BY <2>2 DEF DDraw!Call
  <2> QED
    BY <2>1, <2>2, <2>3, <2>4 DEF Shapes, Flipping
<1>9. ASSUME NEW what \in {DDraw!Whole, DDraw!Part}, DDraw!Lock(what)
      PROVE  Shapes' /\ PrimaryKept' /\ crashed' = crashed
  <2>1. /\ PrimarySurface # None
        /\ calls' = <<DDraw!Call("Lock", Primary, Version, what), DDraw!With("given", what)>>
        /\ UNCHANGED <<DDraw!params, DDraw!primary, capture, primaryData, locked, virtual, careless, patched>>
        /\ UNCHANGED <<DDraw!frames, presented, undrawn, crashed>>
    BY <1>9 DEF DDraw!Lock, DDraw!HasPrimary, DDraw!Unchanged, DDraw!program, Version
  <2>2. PrimaryKept' /\ PrimarySurface' = Primary /\ Version' = Version /\ Tied'
    BY <1>2, <1>3, <1>4, <2>1, PrimaryMoves
  <2>3. Due(0, 0)'
    BY <1>2, <2>1, DueMoves
  <2>4. /\ DDraw!Call("Lock", Primary, Version, what)' = DDraw!Call("Lock", Primary, Version, what)
        /\ DDraw!With("given", what)' = DDraw!With("given", what)
    BY <2>2 DEF DDraw!Call, DDraw!With
  <2> QED
    BY <2>1, <2>2, <2>3, <2>4 DEF Shapes, Locking, DDraw!Whole, DDraw!Part
<1>10. ASSUME NEW done \in BOOLEAN, DDraw!Unlock(done)
       PROVE  Shapes' /\ PrimaryKept' /\ crashed' = crashed
  <2>1. /\ PrimarySurface # None /\ calls' = <<DDraw!Call("Unlock", Primary, Version, done)>>
        /\ locked' = (IF done THEN DDraw!Nothing ELSE locked) /\ ~virtual'
        /\ IF done \/ VirtualFramebuffer THEN presented' = presented + 1 ELSE presented' = presented
        /\ undrawn' = (IF VirtualFramebuffer /\ ~virtual THEN undrawn + 1 ELSE undrawn)
        /\ UNCHANGED <<DDraw!params, DDraw!primary, capture, primaryData, careless, patched>>
        /\ UNCHANGED <<DDraw!frames, crashed>>
    BY <1>10 DEF DDraw!Unlock, DDraw!HasPrimary, DDraw!Unchanged, DDraw!Presents, Version
  <2>2. /\ PrimarySurface' = Primary /\ Version' = Version /\ NoData' = NoData /\ DDraw!Patched' = DDraw!Patched
        /\ VirtualFramebuffer' = VirtualFramebuffer
    BY <1>2, <2>1 DEF DDraw!primary, DDraw!params, Version, NoData, DDraw!Patched
  <2>3. PrimaryKept'
    BY <1>2, <2>1, <2>2, DirectDrawAssumption DEF PrimaryKept, DDraw!params
  <2>4. VirtualFramebuffer => IF NoData THEN Due(0, 1)' ELSE Due(1, 1)'
    <3>1. VirtualFramebuffer /\ NoData => Due(0, 1)'
      BY <1>2, <2>1, DueMoves DEF Tied
    <3>2. VirtualFramebuffer /\ ~NoData => Due(1, 1)'
      BY <1>2, <2>1, DueMoves DEF Tied, DDraw!frames
    <3> QED
      BY <3>1, <3>2
  <2>5. ~VirtualFramebuffer => IF done THEN Due(1, 1)' ELSE Due(0, 0)'
    <3>1. ~VirtualFramebuffer /\ done => Due(1, 1)'
      BY <1>2, <2>1, DueMoves DEF DDraw!frames
    <3>2. ~VirtualFramebuffer /\ ~done => Due(0, 0)'
      BY <1>2, <2>1, DueMoves
    <3> QED
      BY <3>1, <3>2
  <2>6. DDraw!Call("Unlock", Primary, Version, done)' = DDraw!Call("Unlock", Primary, Version, done)
    BY <2>2 DEF DDraw!Call
  <2>7. VirtualFramebuffer => Drawing'
    BY <2>1, <2>2, <2>4 DEF Drawing
  <2> QED
    BY <2>1, <2>2, <2>3, <2>5, <2>6, <2>7 DEF Shapes, Unlocking
<1> QED
  BY <1>1, <1>5, <1>6, <1>7, <1>8, <1>9, <1>10 DEF DDraw!Program

\* The primary surface is there from now on.
LEMMA FromCreating ==
  ASSUME DDraw!TypeOK, PrimaryKept, Creating, DDraw!Next
  PROVE  Shapes' /\ PrimaryKept' /\ crashed' = crashed
<1>1. PICK w \in DDraw!Patched : calls = <<DDraw!Call("PrimarySurfaceCreated", Primary, w, None)>>
  BY DEF Creating
<1> DEFINE a == DDraw!Call("PrimarySurfaceCreated", Primary, w, None)
<1>2. a.do = "PrimarySurfaceCreated" /\ a.me = Primary /\ a.version = w
  BY CallSays
<1> HIDE DEF a
<1>3. calls # <<>> /\ DDraw!This = a /\ Tail(calls) = <<>>
  BY <1>1, FirstCall DEF a, DDraw!This
<1>4. DDraw!PrimarySurfaceCreated
  BY <1>2, <1>3, CallOf
<1>5. /\ calls' = <<>> \o <<>> /\ PrimarySurface' = Primary /\ Version' = w
      /\ UNCHANGED <<DDraw!params, patched, primaryData, locked, virtual, careless>>
      /\ UNCHANGED <<DDraw!frames, presented, undrawn, crashed>>
  BY <1>2, <1>3, <1>4 DEF DDraw!PrimarySurfaceCreated, DDraw!Continue, Version, DDraw!frames, DDraw!program
<1>6. NoData /\ NoData' /\ Tied' /\ DDraw!Patched' = DDraw!Patched
  BY <1>5 DEF PrimaryKept, Creating, NoData, Tied, DDraw!Patched
<1>7. PrimaryKept'
  BY <1>5, <1>6, DirectDrawAssumption DEF PrimaryKept
<1>8. Due(0, 0)'
  BY <1>5, DueMoves DEF Creating
<1> QED
  BY <1>5, <1>6, <1>7, <1>8, CallsJoined DEF Shapes, NoCall

\* A blit presents a picture if it is from a surface to the primary.
LEMMA FromBlitting ==
  ASSUME DDraw!TypeOK, PrimaryKept, Blitting, DDraw!Next
  PROVE  Shapes' /\ PrimaryKept' /\ crashed' = crashed
<1>1. PICK me \in {Primary, Other}, from \in {Other, None} :
        /\ calls = <<DDraw!Call("Blt", me, Version, from)>>
        /\ IF me = Primary /\ from # None THEN Due(1, 1) /\ (~NoData => careless) ELSE Due(0, 0)
  BY DEF Blitting
<1>2. Tied /\ PrimarySurface = Primary /\ Version \in DDraw!Patched
  BY DirectDrawAssumption DEF Blitting, PrimaryKept
<1> DEFINE a == DDraw!Call("Blt", me, Version, from)
<1>3. a.do = "Blt" /\ a.me = me /\ a.version = Version /\ a.with = from
  BY CallSays
<1> HIDE DEF a
<1>4. calls # <<>> /\ DDraw!This = a /\ Tail(calls) = <<>>
  BY <1>1, FirstCall DEF a, DDraw!This
<1>5. DDraw!MineBlt
  BY <1>3, <1>4, CallOf
<1> DEFINE steps == DDraw!BltToPrimary(from)
           three == <<DDraw!With("resolution", from), DDraw!Step("readBack"), Frame>>
<1>6. /\ calls' = DDraw!Each(DDraw!Hooks(DDraw!This.version) \intersect DDraw!OfPrimary, steps) \o <<>>
      /\ DDraw!Only /\ UNCHANGED <<capture, primaryData, crashed, DDraw!frames>>
  BY <1>3, <1>4, <1>5 DEF DDraw!MineBlt, DDraw!Continue
<1>7. /\ PrimaryKept' /\ PrimarySurface' = Primary /\ NoData' = NoData /\ Tied' /\ careless' = careless
      /\ UNCHANGED <<presented, undrawn>>
  BY <1>2, <1>6, OnlyMoves
<1>8. steps = IF from = None THEN <<>> ELSE three
  BY DEF DDraw!BltToPrimary, Frame
<1>9. three \in Seq({DDraw!With("resolution", from), DDraw!Step("readBack"), Frame}) /\ three \o <<>> = three
  <2>1. three \o <<>> = three
    BY CallsJoined
  <2> QED
    BY <2>1
<1> HIDE DEF steps, three
<1>10. steps \in Seq({DDraw!With("resolution", from), DDraw!Step("readBack"), Frame})
  BY <1>8, <1>9
<1>11. calls' = (IF me = Primary THEN steps ELSE <<>>) \o <<>>
  BY <1>2, <1>3, <1>4, <1>6, <1>10, HookedOnce
<1>12. CASE me = Primary /\ from # None
  <2>1. from = Other
    BY <1>12
  <2>2. calls' = three
    BY <1>8, <1>9, <1>11, <1>12
  <2>3. Due(1, 1)' /\ (~NoData => careless)
    BY <1>1, <1>6, <1>7, <1>12, DueMoves
  <2> QED
    BY <1>6, <1>7, <2>1, <2>2, <2>3 DEF Shapes, Reading, three, Frame, DDraw!With, DDraw!Step, DDraw!Call
<1>13. CASE ~(me = Primary /\ from # None)
  <2>1. calls' = <<>>
    BY <1>8, <1>11, <1>13, CallsJoined
  <2>2. Due(0, 0)'
    BY <1>1, <1>6, <1>7, <1>13, DueMoves
  <2> QED
    BY <1>6, <1>7, <2>1, <2>2 DEF Shapes, NoCall
<1> QED
  BY <1>12, <1>13

\* A flip presents a picture, which is read back or not there.
LEMMA FromFlipping ==
  ASSUME DDraw!TypeOK, PrimaryKept, Flipping, DDraw!Next
  PROVE  Shapes' /\ PrimaryKept' /\ crashed' = crashed
<1>1. PICK me \in {Primary, Other} : calls = <<DDraw!Call("Flip", me, Version, None)>>
  BY DEF Flipping
<1>2. Due(1, 1) /\ Tied /\ PrimarySurface = Primary /\ Version \in DDraw!Patched
  BY DirectDrawAssumption DEF Flipping, PrimaryKept
<1> DEFINE a == DDraw!Call("Flip", me, Version, None)
<1>3. a.do = "Flip" /\ a.version = Version
  BY CallSays
<1> HIDE DEF a
<1>4. calls # <<>> /\ DDraw!This = a /\ Tail(calls) = <<>>
  BY <1>1, FirstCall DEF a, DDraw!This
<1>5. DDraw!MineFlip
  BY <1>3, <1>4, CallOf
<1> DEFINE two == <<DDraw!Step("readBack"), Frame>>
           one == <<Frame>>
           flips == DDraw!Hooks(DDraw!This.version) \intersect {PrimarySurfaceVersion}
<1>6. /\ DDraw!Only /\ UNCHANGED <<capture, primaryData, written, advanced, crashed>>
      /\ \/ calls' = DDraw!Each(flips, two) \o <<>> /\ refused' = refused
         \/ calls' = DDraw!Each(flips, one) \o <<>> /\ refused' = refused + 1
  BY <1>4, <1>5 DEF DDraw!MineFlip, DDraw!Continue, Frame
<1>7. PrimaryKept' /\ PrimarySurface' = Primary /\ Tied' /\ UNCHANGED <<presented, undrawn>>
  BY <1>2, <1>6, OnlyMoves
<1>8. /\ two \in Seq({DDraw!Step("readBack"), Frame}) /\ one \in Seq({DDraw!Step("readBack"), Frame})
      /\ two \o <<>> = two /\ one \o <<>> = one
  <2>1. two \o <<>> = two /\ one \o <<>> = one
    BY CallsJoined
  <2> QED
    BY <2>1
<1> HIDE DEF two, one
<1>9. DDraw!Each(flips, two) = two /\ DDraw!Each(flips, one) = one
  BY <1>2, <1>3, <1>4, <1>8, HookedOnce
<1> HIDE DEF flips
<1>10. CASE calls' = DDraw!Each(flips, two) \o <<>> /\ refused' = refused
  <2>1. Due(1, 1)' /\ calls' = two
    BY <1>2, <1>6, <1>7, <1>8, <1>9, <1>10, DueMoves DEF DDraw!frames
  <2> QED
    BY <1>6, <1>7, <2>1 DEF Shapes, Reading, two, Frame, DDraw!Step, DDraw!Call
<1>11. CASE calls' = DDraw!Each(flips, one) \o <<>> /\ refused' = refused + 1
  <2>1. Due(0, 1)' /\ calls' = one
    BY <1>2, <1>6, <1>7, <1>8, <1>9, <1>11, DueMoves
  <2> QED
    BY <1>6, <1>7, <2>1 DEF Shapes, LastFrame, one, Frame, DDraw!Step, DDraw!Call
<1> QED
  BY <1>6, <1>10, <1>11

\* The program locks the primary, draws to it or to memory of kkapture's.
LEMMA FromLocking ==
  ASSUME DDraw!TypeOK, PrimaryKept, Locking, ~crashed, DDraw!Next
  PROVE  PrimaryKept' /\ ((Shapes' /\ ~crashed') \/ Crashed')
<1>1. PICK what \in {DDraw!Whole, DDraw!Part} :
       \/ calls = <<DDraw!Call("Lock", Primary, Version, what), DDraw!With("given", what)>> /\ Tied
       \/ /\ calls = <<DDraw!With("given", what)>> /\ (result => locked = DDraw!Nothing)
          /\ IF Seen(what) THEN ~NoData /\ capture = primaryData ELSE Tied
       \/ /\ calls = <<DDraw!Step("lockPrimary"), DDraw!With("given", what)>> /\ Tied
          /\ result /\ locked = DDraw!Nothing /\ what = DDraw!Whole /\ Version \in DDraw!LockHooks(Version)
  BY DEF Locking
<1>2. Due(0, 0) /\ PrimarySurface = Primary /\ Version \in DDraw!Patched
  BY DirectDrawAssumption DEF Locking, PrimaryKept
<1>3. virtual \in BOOLEAN /\ careless \in BOOLEAN /\ result \in BOOLEAN
  BY DEF DDraw!TypeOK
<1> DEFINE given == DDraw!With("given", what)
<1>4. given' = given /\ given.do = "given" /\ given.with = what
  BY CallSays DEF DDraw!With, DDraw!Call
<1> HIDE DEF given
<1>5. ASSUME UNCHANGED <<DDraw!params, patched, Version>>
      PROVE  DDraw!LockHooks(Version)' = DDraw!LockHooks(Version) /\ VirtualFramebuffer' = VirtualFramebuffer
  BY <1>5 DEF DDraw!LockHooks, DDraw!Hooks, DDraw!Patched, DDraw!params
<1>6. ASSUME calls = <<DDraw!Call("Lock", Primary, Version, what), given>>, Tied
      PROVE  PrimaryKept' /\ ((Shapes' /\ ~crashed') \/ Crashed')
  <2> DEFINE a == DDraw!Call("Lock", Primary, Version, what)
  <2>1. a.do = "Lock" /\ a.me = Primary /\ a.version = Version /\ a.with = what
    BY CallSays
  <2> HIDE DEF a
  <2>2. calls # <<>> /\ DDraw!This = a /\ Tail(calls) = <<given>>
    BY <1>6, FirstCall DEF a, DDraw!This
  <2>3. DDraw!MineLock
    BY <2>1, <2>2, CallOf
  <2> DEFINE steps == <<DDraw!Step("lockPrimary")>>
             locks == DDraw!LockHooks(DDraw!This.version) \intersect DDraw!OfPrimary
  <2>4. /\ DDraw!Only /\ UNCHANGED <<capture, primaryData>> /\ UNCHANGED DDraw!frames
        /\ crashed' \in BOOLEAN /\ result' \in BOOLEAN /\ (result' => locked = DDraw!Nothing)
        /\ calls' = (IF result' /\ what # DDraw!Part THEN DDraw!Each(locks, steps) ELSE <<>>) \o <<given>>
    <3>1. crashed' \in BOOLEAN
      BY <2>3 DEF DDraw!MineLock, DDraw!LockLost
    <3> QED
      BY <2>1, <2>2, <2>3, <3>1 DEF DDraw!MineLock, DDraw!Continue
  <2>5. /\ PrimaryKept' /\ PrimarySurface' = Primary /\ Version' = Version /\ NoData' = NoData /\ Tied'
        /\ UNCHANGED <<presented, undrawn, locked, patched, DDraw!params>>
    BY <1>2, <1>6, <2>4, OnlyMoves
  <2>6. steps \in Seq({DDraw!Step("lockPrimary")}) /\ steps \o <<given>> = <<DDraw!Step("lockPrimary"), given>>
    <3>1. steps \o <<given>> = <<DDraw!Step("lockPrimary"), given>>
      BY CallsJoined
    <3> QED
      BY <3>1
  <2> HIDE DEF steps
  <2>7. DDraw!Each(locks, steps) = IF Version \in DDraw!LockHooks(Version) THEN steps ELSE <<>>
    BY <1>2, <2>1, <2>2, <2>6, HookedOnce
  <2> HIDE DEF locks
  <2>8. Due(0, 0)'
    BY <1>2, <2>4, <2>5, DueMoves
  <2>9. CASE crashed'
    BY <2>5, <2>8, <2>9 DEF Crashed
  <2>10. CASE ~crashed' /\ result' /\ what = DDraw!Whole /\ Version \in DDraw!LockHooks(Version)
    <3>1. calls' = <<DDraw!Step("lockPrimary"), given>>
      BY <2>4, <2>6, <2>7, <2>10 DEF DDraw!Whole, DDraw!Part
    <3>2. Version' \in DDraw!LockHooks(Version)' /\ locked' = DDraw!Nothing
      BY <1>5, <2>4, <2>5, <2>10
    <3>3. DDraw!Step("lockPrimary")' = DDraw!Step("lockPrimary") /\ given' = DDraw!With("given", what)'
      BY DEF DDraw!Step, DDraw!Call, given
    <3>4. Locking'
      BY <1>4, <2>5, <2>8, <2>10, <3>1, <3>2, <3>3 DEF Locking, DDraw!Whole, DDraw!Part, DDraw!Nothing
    <3> QED
      BY <2>5, <2>10, <3>4 DEF Shapes
  <2>11. CASE ~crashed' /\ ~(result' /\ what = DDraw!Whole /\ Version \in DDraw!LockHooks(Version))
    <3>1. calls' = <<given>>
      <4>1. (IF result' /\ what # DDraw!Part THEN DDraw!Each(locks, steps) ELSE <<>>) = <<>>
        BY <1>1, <2>7, <2>11 DEF DDraw!Whole, DDraw!Part
      <4> QED
        BY <2>4, <4>1, CallsJoined
    <3>2. ~Seen(what)'
      BY <1>5, <2>5, <2>11 DEF Seen, DDraw!Whole
    <3>3. result' => locked' = DDraw!Nothing
      BY <2>4, <2>5
    <3>4. Locking'
      BY <1>4, <2>5, <2>8, <3>1, <3>2, <3>3 DEF Locking, given, DDraw!Whole, DDraw!Part, DDraw!Nothing
    <3> QED
      BY <2>5, <2>11, <3>4 DEF Shapes
  <2> QED
    BY <2>4, <2>9, <2>10, <2>11
<1>7. ASSUME calls = <<given>>, result => locked = DDraw!Nothing,
             IF Seen(what) THEN ~NoData /\ capture = primaryData ELSE Tied
      PROVE  PrimaryKept' /\ Shapes' /\ crashed' = crashed
  <2>1. calls # <<>> /\ DDraw!This = given /\ Tail(calls) = <<>>
    BY <1>7, FirstCall DEF DDraw!This
  <2>2. DDraw!Given
    BY <1>4, <2>1, CallOf
  <2>3. /\ calls' = <<>> \o <<>> /\ locked' = (IF result THEN what ELSE locked)
        /\ virtual' = (virtual \/ Seen(what)) /\ careless' = (careless /\ ~Seen(what))
        /\ UNCHANGED <<DDraw!params, patched, DDraw!primary, capture, primaryData>>
        /\ UNCHANGED <<DDraw!frames, presented, undrawn, crashed>>
    BY <1>4, <2>1, <2>2 DEF DDraw!Given, DDraw!Continue, Seen, Version
  <2>4. /\ PrimarySurface' = Primary /\ Version' = Version /\ NoData' = NoData /\ DDraw!Patched' = DDraw!Patched
        /\ VirtualFramebuffer' = VirtualFramebuffer
    BY <1>2, <2>3 DEF DDraw!primary, DDraw!params, Version, NoData, DDraw!Patched
  <2>5. Seen(what) \in BOOLEAN
    BY DEF Seen
  <2>6. Tied'
    BY <1>3, <1>7, <2>3, <2>4, <2>5, Zenon DEF Tied
  <2>7. ~NoData => VirtualFramebuffer /\ (careless' \/ capture = primaryData)
    BY <1>3, <1>7, <2>3, <2>5 DEF PrimaryKept
  <2>8. virtual' => locked' = DDraw!Whole
    <3>1. CASE Seen(what)
      BY <2>3, <3>1 DEF Seen
    <3>2. CASE ~Seen(what)
      <4>1. virtual => ~result
        BY <1>7 DEF PrimaryKept, DDraw!Whole, DDraw!Nothing
      <4> QED
        BY <1>3, <2>3, <3>2, <4>1 DEF PrimaryKept
    <3> QED
      BY <3>1, <3>2
  <2>9. PrimaryKept'
    BY <1>2, <2>3, <2>4, <2>7, <2>8, DirectDrawAssumption DEF PrimaryKept
  <2>10. Due(0, 0)'
    BY <1>2, <2>3, DueMoves
  <2> QED
    BY <2>3, <2>6, <2>9, <2>10, CallsJoined DEF Shapes, NoCall
<1>8. ASSUME calls = <<DDraw!Step("lockPrimary"), given>>, Tied, result, locked = DDraw!Nothing, what = DDraw!Whole,
             Version \in DDraw!LockHooks(Version)
      PROVE  PrimaryKept' /\ Shapes' /\ crashed' = crashed
  <2> DEFINE a == DDraw!Step("lockPrimary")
  <2>1. a.do = "lockPrimary"
    BY CallSays
  <2> HIDE DEF a
  <2>2. calls # <<>> /\ DDraw!This = a /\ Tail(calls) = <<given>>
    BY <1>8, FirstCall DEF a, DDraw!This
  <2>3. DDraw!LockPrimary
    BY <2>1, <2>2, CallOf
  <2>4. ~virtual /\ NoData
    BY <1>3, <1>8 DEF PrimaryKept, Tied, DDraw!Whole, DDraw!Nothing
  <2>5. /\ DDraw!Only /\ UNCHANGED <<result, crashed>> /\ UNCHANGED DDraw!frames /\ calls' = <<>> \o <<given>>
        /\ IF VirtualFramebuffer THEN capture' = sizes[PrimarySurface] /\ primaryData' = sizes[PrimarySurface]
                                 ELSE UNCHANGED <<capture, primaryData>>
    BY <2>2, <2>3, <2>4 DEF DDraw!LockPrimary, DDraw!Continue, NoData
  <2>6. /\ UNCHANGED <<presented, undrawn, locked, virtual, careless, patched, DDraw!params, DDraw!primary>>
        /\ PrimarySurface' = Primary /\ Version' = Version /\ DDraw!Patched' = DDraw!Patched
        /\ VirtualFramebuffer' = VirtualFramebuffer
    BY <1>2, <2>5 DEF DDraw!Only, DDraw!program, DDraw!primary, DDraw!params, Version, DDraw!Patched
  <2>7. sizes[PrimarySurface] # 0
    BY <1>2 DEF DDraw!TypeOK, DDraw!Sizes
  <2>8. NoData' = ~VirtualFramebuffer /\ (VirtualFramebuffer => capture' = primaryData')
    <3>1. CASE VirtualFramebuffer
      BY <2>5, <2>7, <3>1 DEF NoData
    <3>2. CASE ~VirtualFramebuffer
      <4>1. primaryData' = 0
        BY <2>4, <2>5, <3>2 DEF NoData
      <4> QED
        BY <3>2, <4>1 DEF NoData
    <3> QED
      BY <3>1, <3>2
  <2>9. PrimaryKept'
    BY <1>2, <2>4, <2>6, <2>8, DirectDrawAssumption DEF PrimaryKept
  <2>10. Due(0, 0)'
    BY <1>2, <2>5, <2>6, DueMoves
  <2>11. calls' = <<given>>
    BY <2>5, CallsJoined
  <2>12. Seen(what)' = VirtualFramebuffer
    <3>1. Version' \in DDraw!LockHooks(Version)'
      BY <1>5, <1>8, <2>6
    <3>2. what = DDraw!Whole' /\ result'
      BY <1>8, <2>5 DEF DDraw!Whole
    <3>3. VirtualFramebuffer \in BOOLEAN
      BY DEF DDraw!TypeOK
    <3> QED
      BY <2>6, <3>1, <3>2, <3>3 DEF Seen
  <2>13. IF Seen(what)' THEN ~NoData' /\ capture' = primaryData' ELSE Tied'
    <3>1. ~virtual'
      BY <2>4, <2>6
    <3>2. ~VirtualFramebuffer => Tied'
      BY <2>8, <3>1 DEF Tied
    <3> QED
      BY <2>8, <2>12, <3>2
  <2>14. locked' = DDraw!Nothing'
    BY <1>8, <2>6 DEF DDraw!Nothing
  <2>15. Locking'
    BY <1>4, <1>8, <2>6, <2>10, <2>11, <2>13, <2>14 DEF Locking, given, DDraw!Whole, DDraw!Part
  <2> QED
    BY <2>5, <2>9, <2>15 DEF Shapes
<1> QED
  BY <1>1, <1>6, <1>7, <1>8 DEF given

\* What the program drew to the primary is read back, what it drew to memory is there.
LEMMA FromUnlocking ==
  ASSUME DDraw!TypeOK, PrimaryKept, Unlocking, DDraw!Next
  PROVE  Shapes' /\ PrimaryKept' /\ crashed' = crashed
<1>1. PICK done \in BOOLEAN :
        /\ calls = <<DDraw!Call("Unlock", Primary, Version, done)>>
        /\ ~VirtualFramebuffer => IF done THEN Due(1, 1) ELSE Due(0, 0)
  BY DEF Unlocking
<1>2. /\ VirtualFramebuffer => Drawing
      /\ ~virtual /\ PrimarySurface = Primary /\ Version \in DDraw!Patched /\ VirtualFramebuffer \in BOOLEAN
  BY DirectDrawAssumption DEF Unlocking, PrimaryKept, DDraw!TypeOK
<1> DEFINE a == DDraw!Call("Unlock", Primary, Version, done)
<1>3. a.do = "Unlock" /\ a.me = Primary /\ a.version = Version /\ a.with = done
  BY CallSays
<1> HIDE DEF a
<1>4. calls # <<>> /\ DDraw!This = a /\ Tail(calls) = <<>>
  BY <1>1, FirstCall DEF a, DDraw!This
<1>5. DDraw!MineUnlock
  BY <1>3, <1>4, CallOf
<1> DEFINE drawn == <<DDraw!Step("unlockPrimary"), Frame>>
           reading == <<DDraw!With("resolution", Primary), DDraw!Step("readBack"), Frame>>
           steps == IF VirtualFramebuffer THEN drawn ELSE IF done THEN reading ELSE <<>>
<1>6. /\ DDraw!Only /\ UNCHANGED <<capture, primaryData, crashed>> /\ UNCHANGED DDraw!frames
      /\ calls' = DDraw!Each(DDraw!Hooks(DDraw!This.version) \intersect DDraw!OfPrimary, steps) \o <<>>
  BY <1>3, <1>4, <1>5, DirectDrawAssumption DEF DDraw!MineUnlock, DDraw!Continue, Frame, DDraw!BltToPrimary
<1>7. /\ PrimaryKept' /\ PrimarySurface' = Primary /\ NoData' = NoData
      /\ UNCHANGED <<presented, undrawn, virtual, DDraw!params>> /\ Version' = Version
  BY <1>2, <1>6, OnlyMoves
<1>8. drawn \o <<>> = drawn /\ reading \o <<>> = reading
  BY CallsJoined
<1>9. steps \in Seq({DDraw!Step("unlockPrimary"), DDraw!With("resolution", Primary), DDraw!Step("readBack"), Frame})
  <2> DEFINE S == {DDraw!Step("unlockPrimary"), DDraw!With("resolution", Primary), DDraw!Step("readBack"), Frame}
  <2>1. drawn \in Seq(S) /\ reading \in Seq(S) /\ <<>> \in Seq(S)
    OBVIOUS
  <2> HIDE DEF drawn, reading, S
  <2>2. steps \in Seq(S)
    BY <2>1
  <2> QED
    BY <2>2 DEF S
<1> HIDE DEF drawn, reading, steps
<1>10. calls' = steps \o <<>>
  BY <1>2, <1>3, <1>4, <1>6, <1>9, HookedOnce
<1>11. CASE VirtualFramebuffer
  <2>1. calls' = drawn
    BY <1>8, <1>10, <1>11 DEF steps
  <2>2. Drawing'
    <3>1. IF NoData THEN Due(0, 1) ELSE Due(1, 1)
      BY <1>2, <1>11 DEF Drawing
    <3>2. IF NoData THEN Due(0, 1)' ELSE Due(1, 1)'
      BY <1>6, <1>7, <3>1, DueMoves
    <3> QED
      BY <1>2, <1>7, <3>2 DEF Drawing
  <2> QED
    BY <1>6, <1>7, <2>1, <2>2 DEF Shapes, Drawn, drawn, Frame, DDraw!Step, DDraw!Call
<1>12. CASE ~VirtualFramebuffer
  <2>1. NoData /\ NoData' /\ Tied'
    <3>1. NoData
      BY <1>12 DEF PrimaryKept
    <3>2. ~virtual' /\ NoData'
      BY <1>2, <1>7, <3>1
    <3> QED
      BY <3>1, <3>2 DEF Tied
  <2>2. CASE done
    <3>1. calls' = reading
      BY <1>8, <1>10, <1>12, <2>2 DEF steps
    <3>2. Due(1, 1)'
      BY <1>1, <1>6, <1>7, <1>12, <2>2, DueMoves
    <3> QED
      BY <1>6, <1>7, <2>1, <3>1, <3>2 DEF Shapes, Reading, reading, Frame, DDraw!With, DDraw!Step, DDraw!Call
  <2>3. CASE ~done
    <3>1. calls' = <<>>
      BY <1>10, <1>12, <2>3, CallsJoined DEF steps
    <3>2. Due(0, 0)'
      BY <1>1, <1>6, <1>7, <1>12, <2>3, DueMoves
    <3> QED
      BY <1>6, <1>7, <2>1, <3>1, <3>2 DEF Shapes, NoCall
  <2> QED
    BY <2>2, <2>3
<1> QED
  BY <1>11, <1>12

\* What the program drew to memory is a picture, if there is such memory.
LEMMA FromDrawn ==
  ASSUME DDraw!TypeOK, PrimaryKept, Drawn, DDraw!Next
  PROVE  Shapes' /\ PrimaryKept' /\ crashed' = crashed
<1> DEFINE a == DDraw!Step("unlockPrimary")
<1>1. /\ calls = <<a, Frame>> /\ ~virtual /\ PrimarySurface = Primary
      /\ IF NoData THEN Due(0, 1) ELSE Due(1, 1)
  BY DEF Drawn, Drawing
<1>2. a.do = "unlockPrimary"
  BY CallSays
<1> HIDE DEF a
<1>3. calls # <<>> /\ DDraw!This = a /\ Tail(calls) = <<Frame>>
  BY <1>1, FirstCall DEF DDraw!This
<1>4. DDraw!UnlockPrimary
  BY <1>2, <1>3, CallOf
<1>5. /\ calls' = <<>> \o <<Frame>> /\ DDraw!Only /\ primaryData' = 0
      /\ UNCHANGED <<capture, refused, advanced, crashed>>
      /\ written' = (IF NoData THEN written ELSE written + 1)
  BY <1>3, <1>4 DEF DDraw!UnlockPrimary, DDraw!Continue, NoData
<1>6. /\ UNCHANGED <<presented, undrawn, locked, virtual, patched, DDraw!params, DDraw!primary>>
      /\ NoData' /\ PrimarySurface' = Primary
  BY <1>1, <1>5 DEF DDraw!Only, DDraw!program, DDraw!primary, NoData
<1>7. PrimaryKept'
  BY <1>1, <1>6 DEF PrimaryKept, DDraw!params, DDraw!primary, Version, DDraw!Patched
<1>8. Due(0, 1)'
  <2>1. CASE NoData
    BY <1>1, <1>5, <1>6, <2>1, DueMoves DEF DDraw!frames
  <2>2. CASE ~NoData
    BY <1>1, <1>5, <1>6, <2>2, DueMoves
  <2> QED
    BY <2>1, <2>2
<1>9. Tied'
  BY <1>1, <1>6 DEF Tied
<1> QED
  BY <1>5, <1>6, <1>7, <1>8, <1>9, CallsJoined DEF Shapes, LastFrame, Frame, DDraw!Step, DDraw!Call

\* After the picture its frame is counted.
LEMMA FromLastFrame ==
  ASSUME DDraw!TypeOK, PrimaryKept, LastFrame, DDraw!Next
  PROVE  Shapes' /\ PrimaryKept' /\ crashed' = crashed
<1>1. calls = <<Frame>> /\ Due(0, 1) /\ Tied /\ Frame.do = "nextFrame"
  BY CallSays DEF LastFrame, Frame
<1>2. calls # <<>> /\ DDraw!This = Frame /\ Tail(calls) = <<>>
  BY <1>1, FirstCall DEF DDraw!This
<1>3. DDraw!nextFrame
  BY <1>1, <1>2, CallOf
<1>4. /\ calls' = <<>> \o <<>> /\ DDraw!Only /\ UNCHANGED <<capture, primaryData, written, refused, crashed>>
      /\ advanced' = advanced + 1
  BY <1>2, <1>3 DEF DDraw!nextFrame, DDraw!Continue
<1>5. PrimaryKept' /\ Tied' /\ UNCHANGED <<presented, undrawn>>
  BY <1>1, <1>4, OnlyMoves
<1>6. Due(0, 0)'
  BY <1>1, <1>4, <1>5, DueMoves
<1> QED
  BY <1>4, <1>5, <1>6, CallsJoined DEF Shapes, NoCall

\* The surface is read back by hooked calls, which are not taken for the program's.
LEMMA FromReading ==
  ASSUME DDraw!TypeOK, PrimaryKept, Reading, ~crashed, DDraw!Next
  PROVE  PrimaryKept' /\ ((Shapes' /\ ~crashed') \/ Crashed')
<1>1. Due(1, 1) /\ Tied /\ PrimarySurface = Primary /\ Version \in DDraw!Patched /\ Version \in DDraw!Versions
  BY DirectDrawAssumption DEF Reading, PrimaryKept, DDraw!Patched
<1>2. /\ Frame' = Frame /\ DDraw!Step("readBack")' = DDraw!Step("readBack")
      /\ DDraw!Step("blitted")' = DDraw!Step("blitted")
      /\ DDraw!Step("locked")' = DDraw!Step("locked") /\ DDraw!Step("write")' = DDraw!Step("write")
  BY DEF Frame, DDraw!Step, DDraw!Call
<1> DEFINE blt == DDraw!Call("Blt", Blit, Version, Primary)
           lock == DDraw!Call("Lock", Blit, Version, DDraw!Whole)
           unlock == DDraw!Call("Unlock", Blit, Version, TRUE)
           blitted == DDraw!Step("blitted")
           locking == DDraw!Step("locked")
           write == DDraw!Step("write")
<1>3. /\ blt.do = "Blt" /\ lock.do = "Lock" /\ unlock.do = "Unlock"
      /\ \A x \in {blt, lock, unlock} : x.me = Blit /\ x.version = Version
      /\ blt.with = Primary /\ lock.with = DDraw!Whole /\ unlock.with = TRUE
      /\ blitted.do = "blitted" /\ locking.do = "locked" /\ write.do = "write"
  <2>1. blt.do = "Blt" /\ blt.me = Blit /\ blt.version = Version /\ blt.with = Primary
    BY CallSays
  <2>2. lock.do = "Lock" /\ lock.me = Blit /\ lock.version = Version /\ lock.with = DDraw!Whole
    BY CallSays
  <2>3. unlock.do = "Unlock" /\ unlock.me = Blit /\ unlock.version = Version /\ unlock.with = TRUE
    BY DEF DDraw!Call
  <2>4. blitted.do = "blitted" /\ locking.do = "locked" /\ write.do = "write"
    BY CallSays
  <2> HIDE DEF blt, lock, unlock, blitted, locking, write
  <2> QED
    BY <2>1, <2>2, <2>3, <2>4
<1>4. Version' = Version => blt' = blt /\ lock' = lock /\ unlock' = unlock
  BY DEF DDraw!Call
<1> HIDE DEF blt, lock, unlock, blitted, locking, write
<1>5. ASSUME NEW S, NEW steps \in Seq(S), DDraw!This \in {blt, lock, unlock}
      PROVE  /\ DDraw!Each(DDraw!Hooks(DDraw!This.version) \intersect DDraw!OfPrimary, steps) = <<>>
             /\ DDraw!Each(DDraw!LockHooks(DDraw!This.version) \intersect DDraw!OfPrimary, steps) = <<>>
  <2>1. DDraw!This.version = Version /\ DDraw!This.me # Primary
    BY <1>3, <1>5, DirectDrawAssumption
  <2> QED
    BY <1>1, <1>5, <2>1, HookedOnce
\* The picture was refused, and only its frame is left.
<1>6. ASSUME PrimaryKept', Tied', PrimarySurface' = Primary, Due(0, 1)', calls' = <<Frame>>, ~crashed'
      PROVE  PrimaryKept' /\ ((Shapes' /\ ~crashed') \/ Crashed')
  BY <1>2, <1>6 DEF Shapes, LastFrame
\* The picture is on its way.
<1>7. ASSUME DDraw!Only, UNCHANGED <<capture, primaryData>>, UNCHANGED DDraw!frames, ~crashed',
             calls' \in {<<blitted, Frame>>, <<lock, locking, Frame>>, <<locking, Frame>>,
                  <<unlock, write, Frame>>, <<write, Frame>>}
      PROVE  PrimaryKept' /\ ((Shapes' /\ ~crashed') \/ Crashed')
  <2>1. PrimaryKept' /\ Version' = Version /\ PrimarySurface' = Primary /\ Tied' /\ UNCHANGED <<presented, undrawn>>
    BY <1>1, <1>7, OnlyMoves
  <2>2. Due(1, 1)'
    BY <1>1, <1>7, <2>1, DueMoves
  <2>3. lock' = lock /\ unlock' = unlock
    BY <1>4, <2>1
  <2>4. Reading'
    BY <1>2, <1>7, <2>1, <2>2, <2>3 DEF Reading, lock, unlock, blitted, locking, write
  <2> QED
    BY <1>7, <2>1, <2>4 DEF Shapes
\* One of kkapture's own calls was done or refused.
<1>8. ASSUME NEW steps, DDraw!Refused(steps), Tail(calls) = <<Frame>>,
             steps \o <<Frame>> \in {<<lock, locking, Frame>>, <<unlock, write, Frame>>}
      PROVE  PrimaryKept' /\ ((Shapes' /\ ~crashed') \/ Crashed')
  <2>1. /\ DDraw!Only /\ UNCHANGED <<capture, primaryData>> /\ UNCHANGED <<written, advanced>> /\ ~crashed'
        /\ \/ calls' = steps \o <<Frame>> /\ refused' = refused
           \/ calls' = <<>> \o <<Frame>> /\ refused' = refused + 1
    BY <1>8 DEF DDraw!Refused, DDraw!Continue
  <2>2. PrimaryKept' /\ PrimarySurface' = Primary /\ Tied' /\ UNCHANGED <<presented, undrawn>>
    BY <1>1, <2>1, OnlyMoves
  <2>3. CASE calls' = steps \o <<Frame>> /\ refused' = refused
    BY <1>7, <1>8, <2>1, <2>3 DEF DDraw!frames
  <2>4. CASE calls' = <<>> \o <<Frame>> /\ refused' = refused + 1
    <3>1. Due(0, 1)'
      BY <1>1, <2>1, <2>2, <2>4, DueMoves
    <3>2. calls' = <<Frame>>
      BY <2>4, CallsJoined
    <3> QED
      BY <1>6, <2>1, <2>2, <3>1, <3>2
  <2> QED
    BY <2>1, <2>3, <2>4
<1>9. ASSUME NEW s \in {Primary, Other}, calls = <<DDraw!With("resolution", s), DDraw!Step("readBack"), Frame>>,
             ~NoData => careless
      PROVE  PrimaryKept' /\ ((Shapes' /\ ~crashed') \/ Crashed')
  <2> DEFINE a == DDraw!With("resolution", s)
  <2>1. a.do = "resolution"
    BY CallSays
  <2> HIDE DEF a
  <2>2. calls # <<>> /\ DDraw!This = a /\ Tail(calls) = <<DDraw!Step("readBack"), Frame>>
    BY <1>9, FirstCall DEF DDraw!This, a
  <2>3. DDraw!Resolution
    BY <2>1, <2>2, CallOf
  <2>4. /\ DDraw!Only /\ UNCHANGED <<primaryData, DDraw!frames>> /\ ~crashed'
        /\ calls' = <<>> \o <<DDraw!Step("readBack"), Frame>>
    BY <2>2, <2>3 DEF DDraw!Resolution, DDraw!Continue
  <2>5. /\ UNCHANGED <<presented, undrawn, locked, virtual, careless, patched, DDraw!params, DDraw!primary>>
        /\ NoData' = NoData /\ Tied' /\ PrimarySurface' = Primary
    BY <1>1, <2>4 DEF DDraw!Only, DDraw!program, DDraw!primary, NoData, Tied
  <2>6. PrimaryKept'
    BY <1>9, <2>5 DEF PrimaryKept, DDraw!params, DDraw!primary, Version, DDraw!Patched
  <2>7. Due(1, 1)'
    BY <1>1, <2>4, <2>5, DueMoves
  <2>8. calls' = <<DDraw!Step("readBack"), Frame>>
    BY <2>4, CallsJoined
  <2> QED
    BY <1>2, <2>4, <2>5, <2>6, <2>7, <2>8 DEF Shapes, Reading
<1>10. ASSUME calls = <<DDraw!Step("readBack"), Frame>>
       PROVE  PrimaryKept' /\ ((Shapes' /\ ~crashed') \/ Crashed')
  <2> DEFINE a == DDraw!Step("readBack")
  <2>1. a.do = "readBack"
    BY CallSays
  <2> HIDE DEF a
  <2>2. calls # <<>> /\ DDraw!This = a /\ Tail(calls) = <<Frame>>
    BY <1>10, FirstCall DEF DDraw!This, a
  <2>3. DDraw!ReadBack
    BY <2>1, <2>2, CallOf
  <2>4. /\ UNCHANGED <<DDraw!params, DDraw!primary, capture, primaryData, DDraw!program, written, advanced>>
        /\ DDraw!Patch(Version) \/ UNCHANGED patched
        /\ \/ calls' = <<blt, blitted>> \o <<Frame>> /\ ~crashed' /\ refused' = refused
           \/ calls' = <<>> \o <<Frame>> /\ ~crashed' /\ refused' = refused + 1
           \/ crashed' /\ refused' = refused
    <3>1. UNCHANGED <<DDraw!params, DDraw!primary, capture, primaryData, DDraw!program, written, advanced>>
      BY <2>3 DEF DDraw!ReadBack
    <3>2. ~crashed
      BY <2>3 DEF DDraw!ReadBack, DDraw!At
    <3>3. \/ /\ calls' = <<blt, blitted>> \o Tail(calls) /\ DDraw!Patch(Version) /\ crashed' = crashed
             /\ refused' = refused
          \/ /\ calls' = <<>> \o Tail(calls) /\ refused' = refused + 1 /\ patched' = patched
             /\ crashed' = crashed
          \/ crashed' = TRUE /\ patched' = patched /\ refused' = refused
      BY <2>3, Zenon DEF DDraw!ReadBack, DDraw!Continue, blt, blitted, Version
    <3> HIDE DEF DDraw!This
    <3>4. CASE /\ calls' = <<blt, blitted>> \o Tail(calls) /\ DDraw!Patch(Version) /\ crashed' = crashed
               /\ refused' = refused
      <4>1. ~crashed'
        BY <3>2, <3>4
      <4> QED
        BY <2>2, <3>1, <3>4, <4>1
    <3>5. CASE /\ calls' = <<>> \o Tail(calls) /\ refused' = refused + 1 /\ patched' = patched
               /\ crashed' = crashed
      <4>1. ~crashed'
        BY <3>2, <3>5
      <4> QED
        BY <2>2, <3>1, <3>5, <4>1
    <3>6. CASE crashed' = TRUE /\ patched' = patched /\ refused' = refused
      BY <3>1, <3>6, Zenon
    <3> QED
      BY <3>3, <3>4, <3>5, <3>6
  <2>5. DDraw!Patched \subseteq DDraw!Patched'
    <3>1. CASE DDraw!Patch(Version)
      BY <1>1, <3>1, PatchedMore
    <3>2. CASE UNCHANGED patched
      BY <3>2 DEF DDraw!Patched
    <3> QED
      BY <2>4, <3>1, <3>2
  <2>6. UNCHANGED <<presented, undrawn, locked, virtual, careless>> /\ careless \in BOOLEAN
    BY <2>4 DEF DDraw!program, DDraw!TypeOK
  <2>7. PrimaryKept' /\ Version' = Version /\ PrimarySurface' = Primary /\ Tied'
    BY <1>1, <2>4, <2>5, <2>6, PrimaryMoves
  <2>8. CASE calls' = <<blt, blitted>> \o <<Frame>> /\ ~crashed' /\ refused' = refused
    <3>1. Due(1, 1)'
      BY <1>1, <2>4, <2>6, <2>8, DueMoves DEF DDraw!frames
    <3>2. calls' = <<blt, blitted, Frame>>
      BY <2>8, CallsJoined
    <3>3. blt' = blt
      BY <1>4, <2>7
    <3>4. Reading'
      BY <1>2, <2>7, <3>1, <3>2, <3>3 DEF Reading, blt, blitted
    <3> QED
      BY <2>7, <2>8, <3>4 DEF Shapes
  <2>9. CASE calls' = <<>> \o <<Frame>> /\ ~crashed' /\ refused' = refused + 1
    <3>1. Due(0, 1)'
      BY <1>1, <2>4, <2>6, <2>9, DueMoves
    <3>2. calls' = <<Frame>>
      BY <2>9, CallsJoined
    <3> QED
      BY <1>6, <2>7, <2>9, <3>1, <3>2
  <2>10. CASE crashed' /\ refused' = refused
    <3>1. Due(1, 1)'
      BY <1>1, <2>4, <2>6, <2>10, DueMoves DEF DDraw!frames
    <3> QED
      BY <2>7, <2>10, <3>1 DEF Crashed
  <2> QED
    BY <2>4, <2>8, <2>9, <2>10
<1>11. ASSUME calls = <<blt, blitted, Frame>>
       PROVE  PrimaryKept' /\ ((Shapes' /\ ~crashed') \/ Crashed')
  <2>1. calls # <<>> /\ DDraw!This = blt /\ Tail(calls) = <<blitted, Frame>>
    BY <1>11, FirstCall DEF DDraw!This
  <2>2. DDraw!MineBlt
    BY <1>3, <2>1, CallOf
  <2> DEFINE x == DDraw!With("resolution", Primary)
             y == DDraw!Step("readBack")
             z == DDraw!Step("nextFrame")
  <2>3. DDraw!BltToPrimary(Primary) = <<x, y, z>>
    BY DirectDrawAssumption DEF DDraw!BltToPrimary
  <2>4. /\ calls' = DDraw!Each(DDraw!Hooks(DDraw!This.version) \intersect DDraw!OfPrimary, <<x, y, z>>)
                \o <<blitted, Frame>>
        /\ DDraw!Only /\ UNCHANGED <<capture, primaryData>> /\ UNCHANGED DDraw!frames /\ ~crashed'
    BY <1>3, <2>1, <2>2, <2>3 DEF DDraw!MineBlt, DDraw!Continue
  <2> HIDE DEF x, y, z
  <2>5. <<x, y, z>> \in Seq({x, y, z})
    OBVIOUS
  <2>6. DDraw!Each(DDraw!Hooks(DDraw!This.version) \intersect DDraw!OfPrimary, <<x, y, z>>) = <<>>
    BY <1>5, <2>1, <2>5
  <2>7. calls' = <<blitted, Frame>>
    BY <2>4, <2>6, CallsJoined
  <2> QED
    BY <1>7, <2>4, <2>7
<1>12. ASSUME calls = <<blitted, Frame>>
       PROVE  PrimaryKept' /\ ((Shapes' /\ ~crashed') \/ Crashed')
  <2>1. calls # <<>> /\ DDraw!This = blitted /\ Tail(calls) = <<Frame>>
    BY <1>12, FirstCall DEF DDraw!This
  <2>2. DDraw!Blitted
    BY <1>3, <2>1, CallOf
  <2>3. DDraw!Refused(<<lock, locking>>)
    BY <2>2 DEF DDraw!Blitted, lock, locking, Version
  <2>4. <<lock, locking>> \o <<Frame>> = <<lock, locking, Frame>>
    BY CallsJoined
  <2> QED
    BY <1>8, <2>1, <2>3, <2>4
<1>13. ASSUME calls = <<lock, locking, Frame>>
       PROVE  PrimaryKept' /\ ((Shapes' /\ ~crashed') \/ Crashed')
  <2>1. calls # <<>> /\ DDraw!This = lock /\ Tail(calls) = <<locking, Frame>>
    BY <1>13, FirstCall DEF DDraw!This
  <2>2. DDraw!MineLock
    BY <1>3, <2>1, CallOf
  <2> DEFINE x == DDraw!Step("lockPrimary")
             hooks == DDraw!LockHooks(DDraw!This.version) \intersect DDraw!OfPrimary
  <2>3. /\ calls' = (IF result' /\ lock.with # DDraw!Part THEN DDraw!Each(hooks, <<x>>) ELSE <<>>) \o <<locking, Frame>>
        /\ DDraw!Only /\ UNCHANGED <<capture, primaryData>> /\ UNCHANGED DDraw!frames
    BY <2>1, <2>2 DEF DDraw!MineLock, DDraw!Continue
  <2> HIDE DEF x
  <2>4. <<x>> \in Seq({x})
    OBVIOUS
  <2>5. DDraw!Each(hooks, <<x>>) = <<>>
    BY <1>5, <2>1, <2>4
  <2> HIDE DEF hooks
  <2>6. calls' = <<locking, Frame>>
    BY <2>3, <2>5, CallsJoined
  <2>7. CASE crashed'
    <3>1. PrimaryKept' /\ UNCHANGED <<presented, undrawn>>
      BY <2>3, OnlyMoves
    <3>2. Due(1, 1)'
      BY <1>1, <2>3, <3>1, DueMoves
    <3> QED
      BY <2>7, <3>1, <3>2 DEF Crashed
  <2>8. CASE ~crashed'
    BY <1>7, <2>3, <2>6, <2>8
  <2> QED
    BY <2>7, <2>8
<1>14. ASSUME calls = <<locking, Frame>>
       PROVE  PrimaryKept' /\ ((Shapes' /\ ~crashed') \/ Crashed')
  <2>1. calls # <<>> /\ DDraw!This = locking /\ Tail(calls) = <<Frame>>
    BY <1>14, FirstCall DEF DDraw!This
  <2>2. DDraw!Locked
    BY <1>3, <2>1, CallOf
  <2>3. DDraw!Refused(<<unlock, write>>)
    BY <2>2 DEF DDraw!Locked, unlock, write, Version
  <2>4. <<unlock, write>> \o <<Frame>> = <<unlock, write, Frame>>
    BY CallsJoined
  <2> QED
    BY <1>8, <2>1, <2>3, <2>4
<1>15. ASSUME calls = <<unlock, write, Frame>>
       PROVE  PrimaryKept' /\ ((Shapes' /\ ~crashed') \/ Crashed')
  <2>1. calls # <<>> /\ DDraw!This = unlock /\ Tail(calls) = <<write, Frame>>
    BY <1>15, FirstCall DEF DDraw!This
  <2>2. DDraw!MineUnlock
    BY <1>3, <2>1, CallOf
  <2> DEFINE w == DDraw!Step("unlockPrimary")
             x == DDraw!With("resolution", Blit)
             y == DDraw!Step("readBack")
             z == DDraw!Step("nextFrame")
             steps == IF VirtualFramebuffer THEN <<w, z>> ELSE <<x, y, z>>
  <2>3. /\ calls' = DDraw!Each(DDraw!Hooks(DDraw!This.version) \intersect DDraw!OfPrimary, steps) \o <<write, Frame>>
        /\ DDraw!Only /\ UNCHANGED <<capture, primaryData>> /\ UNCHANGED DDraw!frames /\ ~crashed'
    <3>1. unlock.me = Blit /\ DDraw!BltToPrimary(Blit) = <<x, y, z>>
      BY <1>3, DirectDrawAssumption DEF DDraw!BltToPrimary
    <3> QED
      BY <1>3, <2>1, <2>2, <3>1 DEF DDraw!MineUnlock, DDraw!Continue
  <2> HIDE DEF w, x, y, z
  <2>4. steps \in Seq({w, x, y, z})
    <3>1. <<w, z>> \in Seq({w, x, y, z}) /\ <<x, y, z>> \in Seq({w, x, y, z})
      OBVIOUS
    <3> QED
      BY <3>1
  <2> HIDE DEF steps
  <2>5. DDraw!Each(DDraw!Hooks(DDraw!This.version) \intersect DDraw!OfPrimary, steps) = <<>>
    BY <1>5, <2>1, <2>4
  <2>6. calls' = <<write, Frame>>
    BY <2>3, <2>5, CallsJoined
  <2> QED
    BY <1>7, <2>3, <2>6
<1>16. ASSUME calls = <<write, Frame>>
       PROVE  PrimaryKept' /\ ((Shapes' /\ ~crashed') \/ Crashed')
  <2>1. calls # <<>> /\ DDraw!This = write /\ Tail(calls) = <<Frame>>
    BY <1>16, FirstCall DEF DDraw!This
  <2>2. DDraw!WriteFrame
    BY <1>3, <2>1, CallOf
  <2>3. /\ DDraw!Only /\ UNCHANGED <<capture, primaryData>> /\ UNCHANGED <<refused, advanced>> /\ ~crashed'
        /\ calls' = <<>> \o <<Frame>> /\ written' = written + 1
    BY <2>1, <2>2 DEF DDraw!WriteFrame, DDraw!Continue
  <2>4. PrimaryKept' /\ PrimarySurface' = Primary /\ Tied' /\ UNCHANGED <<presented, undrawn>>
    BY <1>1, <2>3, OnlyMoves
  <2>5. Due(0, 1)'
    BY <1>1, <2>3, <2>4, DueMoves
  <2>6. calls' = <<Frame>>
    BY <2>3, CallsJoined
  <2> QED
    BY <1>6, <2>3, <2>4, <2>5, <2>6
<1> QED
  BY <1>9, <1>10, <1>11, <1>12, <1>13, <1>14, <1>15, <1>16 DEF Reading, blt, lock, unlock, blitted, locking, write


\* What a step names is there.
Meant(a) ==
  /\ a.do = "PrimarySurfaceCreated" => a.me = Primary /\ a.version \in DDraw!Patched
  /\ a.do = "given" => a.with \in {DDraw!Whole, DDraw!Part}
  /\ a.do = "resolution" => a.with \in {Primary, Other}
  /\ a.do \in {"lockPrimary", "readBack"} => PrimarySurface = Primary

\* The step at hand names what is there.
LEMMA CallTypes ==
  ASSUME PictureInv, calls # <<>>, ~crashed
  PROVE  Meant(DDraw!This)
<1>1. ASSUME NEW me, NEW version, NEW with
      PROVE  /\ \A w \in DDraw!Patched : Meant(DDraw!Call("PrimarySurfaceCreated", Primary, w, None))
             /\ Meant(DDraw!Call("Blt", me, version, with)) /\ Meant(DDraw!Call("Flip", me, version, with))
             /\ Meant(DDraw!Call("Lock", me, version, with)) /\ Meant(DDraw!Call("Unlock", me, version, with))
  BY CallSays DEF Meant
<1>2. /\ \A name \in {"unlockPrimary", "blitted", "locked", "write", "nextFrame"} : Meant(DDraw!Step(name))
      /\ \A what \in {DDraw!Whole, DDraw!Part} : Meant(DDraw!With("given", what))
      /\ \A s \in {Primary, Other} : Meant(DDraw!With("resolution", s))
      /\ PrimarySurface = Primary => Meant(DDraw!Step("lockPrimary")) /\ Meant(DDraw!Step("readBack"))
  <2>1. \A name \in {"unlockPrimary", "blitted", "locked", "write", "nextFrame"} : Meant(DDraw!Step(name))
    BY CallSays DEF Meant
  <2>2. \A what \in {DDraw!Whole, DDraw!Part} : Meant(DDraw!With("given", what))
    BY CallSays DEF Meant
  <2>3. \A s \in {Primary, Other} : Meant(DDraw!With("resolution", s))
    BY CallSays DEF Meant
  <2>4. PrimarySurface = Primary => Meant(DDraw!Step("lockPrimary")) /\ Meant(DDraw!Step("readBack"))
    BY CallSays DEF Meant
  <2> QED
    BY <2>1, <2>2, <2>3, <2>4
<1>3. ~NoCall
  BY DEF NoCall
<1>4. CASE Creating
  <2>1. \E w \in DDraw!Patched : DDraw!This = DDraw!Call("PrimarySurfaceCreated", Primary, w, None)
    BY <1>4, FirstCall DEF Creating, DDraw!This
  <2> QED
    BY <1>1, <2>1
<1>5. CASE Blitting
  <2>1. \E me, from : DDraw!This = DDraw!Call("Blt", me, Version, from)
    BY <1>5, FirstCall DEF Blitting, DDraw!This
  <2> QED
    BY <1>1, <2>1
<1>6. CASE Flipping
  <2>1. \E me : DDraw!This = DDraw!Call("Flip", me, Version, None)
    BY <1>6, FirstCall DEF Flipping, DDraw!This
  <2> QED
    BY <1>1, <2>1
<1>7. CASE Locking
  <2>1. PICK what \in {DDraw!Whole, DDraw!Part} :
          \/ calls = <<DDraw!Call("Lock", Primary, Version, what), DDraw!With("given", what)>>
          \/ calls = <<DDraw!With("given", what)>>
          \/ calls = <<DDraw!Step("lockPrimary"), DDraw!With("given", what)>>
    BY <1>7 DEF Locking
  <2>2. /\ DDraw!This \in {DDraw!Call("Lock", Primary, Version, what), DDraw!With("given", what), DDraw!Step("lockPrimary")}
        /\ PrimarySurface = Primary
    BY <1>7, <2>1, FirstCall DEF Locking, DDraw!This
  <2> QED
    BY <1>1, <1>2, <2>2
<1>8. CASE Unlocking
  <2>1. \E done : DDraw!This = DDraw!Call("Unlock", Primary, Version, done)
    BY <1>8, FirstCall DEF Unlocking, DDraw!This
  <2> QED
    BY <1>1, <2>1
<1>9. CASE Drawn
  <2>1. DDraw!This = DDraw!Step("unlockPrimary")
    BY <1>9, FirstCall DEF Drawn, DDraw!This
  <2> QED
    BY <1>2, <2>1
<1>10. CASE Reading
  <2>1. /\ PrimarySurface = Primary
        /\ \/ \E s \in {Primary, Other} : DDraw!This = DDraw!With("resolution", s)
           \/ \E name \in {"readBack", "blitted", "locked", "write"} : DDraw!This = DDraw!Step(name)
           \/ DDraw!This = DDraw!Call("Blt", Blit, Version, Primary)
           \/ DDraw!This = DDraw!Call("Lock", Blit, Version, DDraw!Whole)
           \/ DDraw!This = DDraw!Call("Unlock", Blit, Version, TRUE)
    <3> DEFINE two(a, b) == calls = <<a, b>>
               three(a, b, c) == calls = <<a, b, c>>
    <3>1. /\ \A a, b : two(a, b) => DDraw!This = a
          /\ \A a, b, c : three(a, b, c) => DDraw!This = a
      BY FirstCall DEF DDraw!This
    <3>2. /\ PrimarySurface = Primary
          /\ \/ \E s \in {Primary, Other} : three(DDraw!With("resolution", s), DDraw!Step("readBack"), Frame)
             \/ two(DDraw!Step("readBack"), Frame)
             \/ three(DDraw!Call("Blt", Blit, Version, Primary), DDraw!Step("blitted"), Frame)
             \/ two(DDraw!Step("blitted"), Frame)
             \/ three(DDraw!Call("Lock", Blit, Version, DDraw!Whole), DDraw!Step("locked"), Frame)
             \/ two(DDraw!Step("locked"), Frame)
             \/ three(DDraw!Call("Unlock", Blit, Version, TRUE), DDraw!Step("write"), Frame)
             \/ two(DDraw!Step("write"), Frame)
      BY <1>10 DEF Reading
    <3> HIDE DEF two, three
    <3> QED
      BY <3>1, <3>2
  <2> QED
    BY <1>1, <1>2, <2>1
<1>11. CASE LastFrame
  <2>1. DDraw!This = DDraw!Step("nextFrame")
    BY <1>11, FirstCall DEF LastFrame, Frame, DDraw!This
  <2> QED
    BY <1>2, <2>1
<1>12. Shapes
  BY DEF PictureInv, KnownCalls, Crashed
<1> QED
  BY <1>3, <1>4, <1>5, <1>6, <1>7, <1>8, <1>9, <1>10, <1>11, <1>12 DEF Shapes

\* A step keeps every variable within its type.
LEMMA PictureTypes ==
  ASSUME PictureInv, DDraw!Next
  PROVE  DDraw!TypeOK'
<1>1. /\ VirtualFramebuffer \in BOOLEAN /\ shared \in BOOLEAN /\ result \in BOOLEAN /\ crashed \in BOOLEAN
      /\ virtual \in BOOLEAN /\ careless \in BOOLEAN
      /\ patched \in [DDraw!Versions -> Nat] /\ PrimarySurface \in {None, Primary}
      /\ PrimarySurfaceVersion \in DDraw!Versions \union {0}
      /\ sizes \in [{Primary, Other, Blit} -> DDraw!Sizes] /\ capture \in DDraw!Sizes \union {0}
      /\ primaryData \in DDraw!Sizes \union {0}
      /\ locked \in {DDraw!Whole, DDraw!Part, DDraw!Nothing}
      /\ presented \in 0..MaxShown /\ written \in Nat /\ refused \in Nat /\ undrawn \in Nat /\ advanced \in Nat
      /\ MaxShown \in Nat
  BY DirectDrawAssumption DEF PictureInv, DDraw!TypeOK
<1>2. CASE DDraw!Program
  <2>1. UNCHANGED <<DDraw!params, DDraw!primary, sizes, capture, primaryData, result, crashed, DDraw!frames>>
    BY <1>2 DEF DDraw!Program, DDraw!CreateSurface, DDraw!QueryInterface, DDraw!Blt, DDraw!Flip, DDraw!Lock,
      DDraw!Unlock, DDraw!Unchanged
  <2>2. patched' = patched \/ \E v \in DDraw!Versions : DDraw!Patch(v)
    BY <1>2 DEF DDraw!Program, DDraw!CreateSurface, DDraw!QueryInterface, DDraw!Blt, DDraw!Flip, DDraw!Lock,
      DDraw!Unlock
  <2>3. locked' \in {locked, DDraw!Nothing}
    BY <1>2 DEF DDraw!Program, DDraw!CreateSurface, DDraw!QueryInterface, DDraw!Blt, DDraw!Flip, DDraw!Lock,
      DDraw!Unlock, DDraw!program
  <2>4. presented' = presented \/ (presented < MaxShown /\ presented' = presented + 1)
    BY <1>2 DEF DDraw!Program, DDraw!CreateSurface, DDraw!QueryInterface, DDraw!Blt, DDraw!Flip, DDraw!Lock,
      DDraw!Unlock, DDraw!Presents, DDraw!program
  <2>5. undrawn' \in {undrawn, undrawn + 1}
    BY <1>2 DEF DDraw!Program, DDraw!CreateSurface, DDraw!QueryInterface, DDraw!Blt, DDraw!Flip, DDraw!Lock,
      DDraw!Unlock, DDraw!program
  <2>6. virtual' \in BOOLEAN /\ careless' \in BOOLEAN
    <3>1. \/ UNCHANGED <<virtual, careless>>
          \/ virtual' = virtual /\ careless' = (careless \/ locked # DDraw!Nothing)
          \/ virtual' = FALSE /\ careless' = careless
      BY <1>2 DEF DDraw!Program, DDraw!CreateSurface, DDraw!QueryInterface, DDraw!Blt, DDraw!Flip, DDraw!Lock,
        DDraw!Unlock, DDraw!program
    <3> QED
      BY <1>1, <3>1
  <2>7. /\ patched' \in [DDraw!Versions -> Nat] /\ locked' \in {DDraw!Whole, DDraw!Part, DDraw!Nothing}
        /\ presented' \in 0..MaxShown /\ undrawn' \in Nat
    <3>1. patched' \in [DDraw!Versions -> Nat]
      BY <1>1, <2>2, PatchedMore DEF PictureInv
    <3> QED
      BY <1>1, <2>3, <2>4, <2>5, <3>1
  <2> QED
    BY <1>1, <2>1, <2>6, <2>7 DEF DDraw!TypeOK, DDraw!params, DDraw!primary, DDraw!frames
<1>3. CASE DDraw!Hook
  <2>1. calls # <<>> /\ ~crashed
    BY <1>3 DEF DDraw!Hook, DDraw!PrimarySurfaceCreated, DDraw!MineBlt, DDraw!MineFlip, DDraw!MineLock, DDraw!Given,
      DDraw!MineUnlock, DDraw!LockPrimary, DDraw!UnlockPrimary, DDraw!Resolution, DDraw!ReadBack, DDraw!Blitted,
      DDraw!Locked, DDraw!WriteFrame, DDraw!nextFrame, DDraw!At
  <2>2. /\ DDraw!PrimarySurfaceCreated => DDraw!This.me = Primary /\ DDraw!This.version \in DDraw!Patched
        /\ DDraw!Given => DDraw!This.with \in {DDraw!Whole, DDraw!Part}
        /\ DDraw!Resolution => DDraw!This.with \in {Primary, Other}
        /\ DDraw!LockPrimary \/ DDraw!ReadBack => PrimarySurface = Primary
    BY <2>1, CallTypes DEF Meant, DDraw!PrimarySurfaceCreated, DDraw!Given, DDraw!Resolution, DDraw!LockPrimary,
      DDraw!ReadBack, DDraw!At, DDraw!This
  <2>3. PrimarySurface = Primary => PrimarySurfaceVersion \in DDraw!Versions
    BY DirectDrawAssumption DEF PictureInv, PrimaryKept, Version, DDraw!Patched
  <2>4. (\A s \in {Primary, Other} : sizes[s] \in DDraw!Sizes) /\ DDraw!Patched \subseteq DDraw!Versions
    BY <1>1 DEF DDraw!Patched
  <2> HIDE DEF DDraw!This, DDraw!Hooks, DDraw!LockHooks, DDraw!OfPrimary, DDraw!BltToPrimary
  <2>5. ASSUME UNCHANGED DDraw!program
        PROVE  /\ locked' \in {DDraw!Whole, DDraw!Part, DDraw!Nothing} /\ virtual' \in BOOLEAN /\ careless' \in BOOLEAN
               /\ presented' \in 0..MaxShown /\ undrawn' \in Nat
    BY <1>1, <2>5 DEF DDraw!program
  <2>6. CASE DDraw!PrimarySurfaceCreated
    <3>1. /\ PrimarySurface' = Primary /\ PrimarySurfaceVersion' \in DDraw!Versions /\ capture' \in DDraw!Sizes
          /\ UNCHANGED <<DDraw!params, patched, sizes, primaryData, result, crashed, DDraw!program, DDraw!frames>>
      BY <1>1, <2>2, <2>4, <2>6 DEF DDraw!PrimarySurfaceCreated
    <3> QED
      BY <1>1, <2>5, <3>1 DEF DDraw!TypeOK, DDraw!params, DDraw!frames
  <2>7. CASE DDraw!Given
    <3>1. /\ UNCHANGED <<DDraw!params, patched, DDraw!primary, sizes, capture, primaryData, result, crashed,
                  presented, undrawn, DDraw!frames>>
          /\ locked' = IF result THEN DDraw!This.with ELSE locked
          /\ \E seen \in BOOLEAN : virtual' = (virtual \/ seen) /\ careless' = (careless /\ ~seen)
      BY <2>7 DEF DDraw!Given
    <3>2. /\ locked' \in {DDraw!Whole, DDraw!Part, DDraw!Nothing}
          /\ virtual' \in BOOLEAN /\ careless' \in BOOLEAN
      BY <1>1, <2>2, <2>7, <3>1
    <3> QED
      BY <1>1, <3>1, <3>2 DEF DDraw!TypeOK, DDraw!params, DDraw!primary, DDraw!frames
  <2>8. CASE DDraw!ReadBack
    <3>1. /\ patched' = patched \/ DDraw!Patch(PrimarySurfaceVersion)
          /\ refused' \in {refused, refused + 1} /\ crashed' \in {crashed, TRUE}
          /\ UNCHANGED <<DDraw!params, DDraw!primary, sizes, capture, primaryData, result,
                  DDraw!program, written, advanced>>
      BY <2>8 DEF DDraw!ReadBack
    <3>2. patched' \in [DDraw!Versions -> Nat] /\ refused' \in Nat /\ crashed' \in BOOLEAN
      <4>1. patched' \in [DDraw!Versions -> Nat]
        <5>1. PrimarySurfaceVersion \in DDraw!Versions
          BY <2>2, <2>3, <2>8
        <5>2. DDraw!TypeOK
          BY DEF PictureInv
        <5>3. CASE DDraw!Patch(PrimarySurfaceVersion)
          BY <5>1, <5>2, <5>3, PatchedMore
        <5>4. CASE patched' = patched
          BY <1>1, <5>4
        <5> QED
          BY <3>1, <5>3, <5>4
      <4>2. refused' \in Nat
        BY <1>1, <3>1
      <4>3. crashed' \in BOOLEAN
        BY <1>1, <3>1
      <4> QED
        BY <4>1, <4>2, <4>3
    <3> QED
      BY <1>1, <2>5, <3>1, <3>2 DEF DDraw!TypeOK, DDraw!params, DDraw!primary
  <2>9. CASE DDraw!LockPrimary \/ DDraw!Resolution
    <3>1. /\ capture' \in DDraw!Sizes \union {0} /\ primaryData' \in DDraw!Sizes \union {0}
          /\ DDraw!Only /\ UNCHANGED <<result, crashed, DDraw!frames>>
      BY <1>1, <2>2, <2>4, <2>9 DEF DDraw!LockPrimary, DDraw!Resolution
    <3> QED
      BY <1>1, <2>5, <3>1 DEF DDraw!TypeOK, DDraw!Only, DDraw!params, DDraw!primary, DDraw!frames
  <2>10. CASE DDraw!MineLock
    <3>1. /\ crashed' \in BOOLEAN /\ result' \in BOOLEAN /\ DDraw!Only
          /\ UNCHANGED <<capture, primaryData, DDraw!frames>>
      BY <2>10 DEF DDraw!MineLock, DDraw!LockLost
    <3> QED
      BY <1>1, <2>5, <3>1 DEF DDraw!TypeOK, DDraw!Only, DDraw!params, DDraw!primary, DDraw!frames
  <2>11. CASE DDraw!MineBlt
    <3>1. result' \in BOOLEAN /\ DDraw!Only /\ UNCHANGED <<capture, primaryData, crashed, DDraw!frames>>
      BY <2>11 DEF DDraw!MineBlt
    <3> QED
      BY <1>1, <2>5, <3>1 DEF DDraw!TypeOK, DDraw!Only, DDraw!params, DDraw!primary, DDraw!frames
  <2>12. CASE DDraw!MineFlip \/ DDraw!MineUnlock \/ DDraw!UnlockPrimary \/ DDraw!Blitted \/ DDraw!Locked
                   \/ DDraw!WriteFrame \/ DDraw!nextFrame
    <3>1. DDraw!Only /\ UNCHANGED <<capture, result, crashed>>
      BY <2>12 DEF DDraw!MineFlip, DDraw!MineUnlock, DDraw!UnlockPrimary, DDraw!Blitted, DDraw!Locked, DDraw!Refused,
        DDraw!WriteFrame, DDraw!nextFrame
    <3>2. /\ primaryData' \in {primaryData, 0}
          /\ written' \in {written, written + 1} /\ refused' \in {refused, refused + 1}
          /\ advanced' \in {advanced, advanced + 1}
      BY <2>12 DEF DDraw!MineFlip, DDraw!MineUnlock, DDraw!UnlockPrimary, DDraw!Blitted, DDraw!Locked, DDraw!Refused,
        DDraw!WriteFrame, DDraw!nextFrame, DDraw!frames
    <3>3. primaryData' \in DDraw!Sizes \union {0} /\ written' \in Nat /\ refused' \in Nat /\ advanced' \in Nat
      BY <1>1, <3>2
    <3> QED
      BY <1>1, <2>5, <3>1, <3>3 DEF DDraw!TypeOK, DDraw!Only, DDraw!params, DDraw!primary
  <2> QED
    BY <1>3, <2>6, <2>7, <2>8, <2>9, <2>10, <2>11, <2>12 DEF DDraw!Hook
<1> QED
  BY <1>2, <1>3 DEF DDraw!Next

\* Nothing has been presented yet.
LEMMA PictureInit == DDraw!Init => PictureInv
<1> SUFFICES ASSUME DDraw!Init PROVE PictureInv
  OBVIOUS
<1>1. /\ PrimarySurface = None /\ PrimarySurfaceVersion = 0 /\ capture = 0 /\ primaryData = 0
      /\ locked = DDraw!Nothing
      /\ calls = <<>> /\ patched \in [DDraw!Versions -> Nat] /\ sizes \in [{Primary, Other, Blit} -> DDraw!Sizes]
      /\ presented = 0 /\ written = 0 /\ refused = 0 /\ undrawn = 0 /\ advanced = 0
  BY DEF DDraw!Init
<1>2. /\ VirtualFramebuffer \in BOOLEAN /\ shared \in BOOLEAN /\ ~result /\ ~crashed /\ ~virtual /\ ~careless
      /\ result \in BOOLEAN /\ crashed \in BOOLEAN /\ virtual \in BOOLEAN /\ careless \in BOOLEAN
  BY DEF DDraw!Init
<1>3. DDraw!TypeOK
  BY <1>1, <1>2, DirectDrawAssumption DEF DDraw!TypeOK
<1>4. PrimaryKept /\ NoCall
  BY <1>1, <1>2 DEF PrimaryKept, NoCall, NoData, Due, Tied
<1> QED
  BY <1>2, <1>3, <1>4 DEF PictureInv, KnownCalls, Shapes

\* Every step, or none, keeps the invariant.
LEMMA PictureNext == PictureInv /\ (DDraw!Next \/ UNCHANGED DDraw!vars) => PictureInv'
<1> SUFFICES ASSUME PictureInv, DDraw!Next \/ UNCHANGED DDraw!vars PROVE PictureInv'
  OBVIOUS
<1>1. CASE DDraw!Next
  <2>1. DDraw!TypeOK /\ PrimaryKept /\ KnownCalls
    BY DEF PictureInv
  <2>2. ~crashed
    <3>1. CASE calls = <<>>
      BY <1>1, <3>1 DEF DDraw!Next, DDraw!Program, DDraw!CreateSurface, DDraw!QueryInterface, DDraw!HasPrimary,
        DDraw!Blt, DDraw!Flip, DDraw!Lock, DDraw!Unlock, DDraw!Idle, DDraw!Hook, DDraw!PrimarySurfaceCreated,
        DDraw!MineBlt, DDraw!MineFlip, DDraw!MineLock, DDraw!Given, DDraw!MineUnlock, DDraw!LockPrimary,
        DDraw!UnlockPrimary, DDraw!Resolution, DDraw!ReadBack, DDraw!Blitted, DDraw!Locked, DDraw!WriteFrame,
        DDraw!nextFrame, DDraw!At
    <3>2. CASE calls # <<>>
      BY <1>1, <3>2, CallOf
    <3> QED
      BY <3>1, <3>2
  <2>3. Shapes
    BY <2>1, <2>2 DEF KnownCalls, Crashed
  <2>4. (Shapes' /\ PrimaryKept' /\ crashed' = crashed) \/ (PrimaryKept' /\ ((Shapes' /\ ~crashed') \/ Crashed'))
    BY <1>1, <2>1, <2>2, <2>3, FromNoCall, FromCreating, FromBlitting, FromFlipping, FromLocking, FromUnlocking,
      FromDrawn, FromReading, FromLastFrame, Zenon DEF Shapes
  <2>5. KnownCalls' /\ PrimaryKept'
    <3>1. CASE Shapes' /\ PrimaryKept' /\ crashed' = crashed
      <4>1. ~crashed'
        BY <2>2, <3>1
      <4> QED
        BY <3>1, <4>1 DEF KnownCalls
    <3>2. CASE PrimaryKept' /\ Shapes' /\ ~crashed'
      BY <3>2 DEF KnownCalls
    <3>3. CASE PrimaryKept' /\ Crashed'
      BY <3>3 DEF KnownCalls
    <3> QED
      BY <2>4, <3>1, <3>2, <3>3
  <2> QED
    BY <1>1, <2>5, PictureTypes DEF PictureInv
<1>2. CASE UNCHANGED DDraw!vars
  <2>1. UNCHANGED <<VirtualFramebuffer, shared, patched, PrimarySurface, PrimarySurfaceVersion, sizes, capture,
                    primaryData, result, calls, crashed, locked, virtual, careless, presented, undrawn, written,
                    refused, advanced>>
    BY <1>2 DEF DDraw!vars, DDraw!params, DDraw!primary, DDraw!program, DDraw!frames
  <2>2. DDraw!TypeOK'
    BY <2>1 DEF PictureInv, DDraw!TypeOK
  <2>3. PrimaryKept' = PrimaryKept
    BY <2>1 DEF PrimaryKept, NoData, Version, DDraw!Patched
  <2>4. KnownCalls' = KnownCalls
    BY <2>1 DEF KnownCalls, Shapes, Crashed, NoCall, Creating, Blitting, Flipping, Locking, Seen, Unlocking, Drawing,
      Drawn, Reading, LastFrame, Due, NoData, Tied, Frame, Version, DDraw!Step, DDraw!With, DDraw!Call,
      DDraw!Patched, DDraw!Hooks, DDraw!LockHooks
  <2> QED
    BY <2>2, <2>3, <2>4 DEF PictureInv
<1> QED
  BY <1>1, <1>2

\* What PictureInv says of the frames.
LEMMA PictureGives == PictureInv => DDraw!OnePictureOneFrame
<1> SUFFICES ASSUME PictureInv PROVE DDraw!OnePictureOneFrame
  OBVIOUS
<1>1. /\ DDraw!TypeOK /\ written \in Nat /\ refused \in Nat /\ undrawn \in Nat /\ advanced \in Nat
      /\ presented \in Nat
  BY DirectDrawAssumption DEF PictureInv, DDraw!TypeOK
<1>2. Due(0, 0) \/ Due(1, 1) \/ Due(0, 1)
  BY DEF PictureInv, KnownCalls, Shapes, Crashed, NoCall, Creating, Blitting, Flipping, Locking, Unlocking, Drawing,
    Drawn, Reading, LastFrame
<1>3. written + refused + undrawn <= presented /\ advanced <= presented
  BY <1>1, <1>2 DEF Due
<1>4. ASSUME calls = <<>>, ~crashed
      PROVE  NoCall
  <2>1. /\ \A a : calls # <<a>> /\ \A b : calls # <<a, b>>
        /\ \A a, b, c : calls # <<a, b, c>>
    BY <1>4, FirstCall
  <2>2. ~Creating /\ ~Flipping /\ ~Unlocking /\ ~Drawn /\ ~LastFrame
    BY <2>1 DEF Creating, Flipping, Unlocking, Drawn, LastFrame
  <2>3. ~Blitting /\ ~Locking
    BY <2>1 DEF Blitting, Locking
  <2>4. ~Reading
    BY <2>1 DEF Reading
  <2> QED
    BY <1>4, <2>2, <2>3, <2>4 DEF PictureInv, KnownCalls, Shapes, Crashed
<1>5. DDraw!Idle => advanced = presented /\ written + refused + undrawn = presented
  BY <1>1, <1>4 DEF DDraw!Idle, NoCall, Due
<1>6. DDraw!Idle => (virtual <=> primaryData # 0)
  BY <1>4 DEF DDraw!Idle, NoCall, Tied, NoData
<1>7. primaryData # 0 /\ ~careless => capture = primaryData
  BY DEF PictureInv, PrimaryKept, NoData
<1> QED
  BY <1>1, <1>3, <1>5, <1>6, <1>7 DEF DDraw!OnePictureOneFrame

\* Every call that presents a picture, on whichever surface, done or not, is one frame, and
\* its picture is written once unless DirectDraw did not hand it over or the program did
\* not draw it to memory of kkapture's; kkapture's own calls count for none.
THEOREM PicturesCounted == GraphicsSpec => []OnePictureOneFrame
<1>1. GraphicsInit => PictureInv
  BY PictureInit DEF GraphicsInit
<1>2. PictureInv /\ [GraphicsNext]_graphicsVars => PictureInv'
  <2> SUFFICES ASSUME PictureInv, [GraphicsNext]_graphicsVars PROVE PictureInv'
    OBVIOUS
  <2>1. DDraw!Next \/ UNCHANGED ddraw
    BY DEF GraphicsNext, graphicsVars
  <2>2. UNCHANGED ddraw => UNCHANGED DDraw!vars
    BY DEF ddraw, DDraw!vars, DDraw!params, DDraw!primary, DDraw!program, DDraw!frames
  <2> QED
    BY <2>1, <2>2, PictureNext
<1>3. PictureInv => OnePictureOneFrame
  BY PictureGives DEF OnePictureOneFrame
<1> QED
  BY <1>1, <1>2, <1>3, PTL DEF GraphicsSpec
=============================================================================
