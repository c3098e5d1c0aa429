----------------------------- MODULE EventTimers -----------------------------
(***************************************************************************)
(* The multimedia timers (timeSetEvent, timeKillEvent) of                  *)
(* src/kkapturedll/timing.cpp, driven by the captured frames.              *)
(*                                                                         *)
(* nextFrameTiming calls ProcessEventTimers with the milliseconds of the   *)
(* frame. It holds TimerAllocLock, so no other thread can set a timer      *)
(* meanwhile; a timer's callback can, since the lock is recursive, and     *)
(* timeKillEvent takes no lock at all. When the lock is left the frame is  *)
(* not counted yet: the watchdog, the exit and the message of              *)
(* nextFrameTiming come in between, and other threads go on.               *)
(***************************************************************************)
EXTENDS Integers

CONSTANTS
  MaxEventTimers,     \* number of slots (256 in the code)
  Delays,             \* values of uDelay the program asks for
  Millis, FrameSpan,  \* a frame lasts Millis / FrameSpan milliseconds
  MaxFrames           \* bound on the number of frames

ASSUME TimersAssumption ==
  /\ {MaxEventTimers, Millis, FrameSpan, MaxFrames} \subseteq Nat \ {0}
  /\ Delays \subseteq Nat

Slots == 0..MaxEventTimers-1

VARIABLES
  Used, Dead, Counter, Delay, Periodic,  \* the fields of EventTimer
  currentFrame,
  pc,          \* "idle", or where nextFrameTiming is: in ProcessEventTimers, or "left"
  slot,        \* its loop variable
  setIn,       \* history: currentFrame when the timer was set
  setDuring,   \* history: pc when it was set
  fired        \* history: how often it fired

fields == <<Used, Dead, Counter, Delay, Periodic>>
history == <<setIn, setDuring, fired>>
vars == <<fields, currentFrame, pc, slot, history>>

\* UMulDiv(frame, 1000 * frameRateDenom, frameRateScaled)
TimeOf(f) == (f * Millis) \div FrameSpan

TypeOK ==
  /\ Used \in [Slots -> BOOLEAN] /\ Dead \in [Slots -> BOOLEAN]
  /\ Periodic \in [Slots -> BOOLEAN] /\ setDuring \in [Slots -> {"idle", "callback", "left"}]
  /\ Counter \in [Slots -> Int] /\ Delay \in [Slots -> Nat]
  /\ currentFrame \in Nat
  /\ pc \in {"idle", "visit", "test", "callback", "left"}
  /\ slot \in 0..MaxEventTimers
  /\ setIn \in [Slots -> Nat] /\ fired \in [Slots -> Nat]

Init ==
  /\ Used = [i \in Slots |-> FALSE] /\ Dead = [i \in Slots |-> FALSE]
  /\ Periodic = [i \in Slots |-> FALSE] /\ setDuring = [i \in Slots |-> "idle"]
  /\ Counter = [i \in Slots |-> 0] /\ Delay = [i \in Slots |-> 0]
  /\ currentFrame = 0 /\ pc = "idle" /\ slot = 0
  /\ setIn = [i \in Slots |-> 0] /\ fired = [i \in Slots |-> 0]

-----------------------------------------------------------------------------
\* The first free slot is taken, whoever had it before.
FillSlot(i, d, periodic) ==
  /\ pc \in {"idle", "callback", "left"}
  /\ ~Used[i] /\ \A j \in Slots : j < i => Used[j]
  /\ Used' = [Used EXCEPT ![i] = TRUE]
  /\ Dead' = [Dead EXCEPT ![i] = FALSE]
  /\ Counter' = [Counter EXCEPT ![i] = d]
  /\ Delay' = [Delay EXCEPT ![i] = d]
  /\ Periodic' = [Periodic EXCEPT ![i] = periodic]
  /\ setIn' = [setIn EXCEPT ![i] = currentFrame]
  /\ setDuring' = [setDuring EXCEPT ![i] = pc]
  /\ fired' = [fired EXCEPT ![i] = 0]
  /\ UNCHANGED <<currentFrame, pc, slot>>

\* Mutant: a delay of 0 is accepted.
timeSetEventWithoutDelay(d) ==
  \E i \in Slots, periodic \in BOOLEAN : FillSlot(i, d, periodic)

timeSetEvent(d) ==
  /\ d # 0
  /\ \E i \in Slots, periodic \in BOOLEAN : FillSlot(i, d, periodic)

\* By any thread at any time.
timeKillEvent(i) ==
  /\ Used[i]
  /\ Used' = [Used EXCEPT ![i] = FALSE]
  /\ UNCHANGED <<Dead, Counter, Delay, Periodic, currentFrame, pc, slot, history>>

\* ProcessEventTimers(newFrameTime - oldFrameTime) begins.
BeginProcess ==
  /\ pc = "idle" /\ currentFrame < MaxFrames
  /\ pc' = "visit" /\ slot' = 0
  /\ UNCHANGED <<fields, currentFrame, history>>

TimeElapsed == TimeOf(currentFrame + 1) - TimeOf(currentFrame)

Visit ==
  /\ pc = "visit" /\ slot < MaxEventTimers
  /\ IF Used[slot] /\ ~Dead[slot]
     THEN /\ Counter' = [Counter EXCEPT ![slot] = @ - TimeElapsed]
          /\ pc' = "test" /\ UNCHANGED slot
     ELSE slot' = slot + 1 /\ UNCHANGED <<Counter, pc>>
  /\ UNCHANGED <<Used, Dead, Delay, Periodic, currentFrame, history>>

\* FireTimer runs the callback; Used is not looked at again.
FireTimer ==
  /\ pc = "test" /\ Counter[slot] <= 0
  /\ pc' = "callback"
  /\ fired' = [fired EXCEPT ![slot] = @ + 1]
  /\ UNCHANGED <<fields, currentFrame, slot, setIn, setDuring>>

NotDue ==
  /\ pc = "test" /\ Counter[slot] > 0
  /\ pc' = "visit" /\ slot' = slot + 1
  /\ UNCHANGED <<fields, currentFrame, history>>

\* Mutant: what a late period overshot is forgotten.
AfterCallbackRestarts ==
  /\ pc = "callback"
  /\ IF Periodic[slot]
     THEN /\ Counter' = [Counter EXCEPT ![slot] = Delay[slot]]
          /\ pc' = "test" /\ UNCHANGED <<Dead, slot>>
     ELSE /\ Dead' = [Dead EXCEPT ![slot] = TRUE]
          /\ pc' = "visit" /\ slot' = slot + 1 /\ UNCHANGED Counter
  /\ UNCHANGED <<Used, Delay, Periodic, currentFrame, history>>

\* The callback returns; the fields may belong to another timer by now.
AfterCallback ==
  /\ pc = "callback"
  /\ IF Periodic[slot]
     THEN /\ Counter' = [Counter EXCEPT ![slot] = @ + Delay[slot]]
          /\ pc' = "test" /\ UNCHANGED <<Dead, slot>>
     ELSE /\ Dead' = [Dead EXCEPT ![slot] = TRUE]
          /\ pc' = "visit" /\ slot' = slot + 1 /\ UNCHANGED Counter
  /\ UNCHANGED <<Used, Delay, Periodic, currentFrame, history>>

\* The lock is left.
EndProcess ==
  /\ pc = "visit" /\ slot = MaxEventTimers
  /\ pc' = "left"
  /\ UNCHANGED <<fields, currentFrame, slot, history>>

\* currentFrame++, by the one thread that presents (VirtualClock has more of them).
CountFrame ==
  /\ pc = "left"
  /\ pc' = "idle" /\ slot' = 0
  /\ currentFrame' = currentFrame + 1
  /\ UNCHANGED <<fields, history>>

-----------------------------------------------------------------------------
ProcessEventTimers == Visit \/ FireTimer \/ NotDue \/ AfterCallback \/ EndProcess

Next ==
  \/ \E d \in Delays : timeSetEvent(d)
  \/ \E i \in Slots : timeKillEvent(i)
  \/ BeginProcess
  \/ ProcessEventTimers \/ CountFrame

Spec == Init /\ [][Next]_vars

\* The presenting thread is scheduled and callbacks return.
FairSpec == Spec /\ WF_vars(ProcessEventTimers \/ CountFrame)

-----------------------------------------------------------------------------
(* Properties. *)

\* The time a timer is counted from. One that is set after ProcessEventTimers has left
\* the lock (264) and before currentFrame++ (559) is set in a frame whose timers are
\* done: it is not charged for it, and runs late by the length of that frame.
Start(i) == TimeOf(IF setDuring[i] = "left" THEN setIn[i] + 1 ELSE setIn[i])

\* A timer keeps time with the frames: between two frames it has fired as often
\* as its delay fits into the time since it was set, once at most for a one-shot
\* timer, no drift from the rounded length of a frame, whatever other timers'
\* callbacks set and kill (lines 240-265), and it is one frame late, for good but
\* never more, if it was set in the gap at the end of a frame. Only a timer set by a
\* callback may come early, late or never.
FiredOnTime ==
  /\ TypeOK
  /\ pc = "idle" =>
    \A i \in Slots : Used[i] /\ setDuring[i] # "callback" =>
      LET due == (TimeOf(currentFrame) - Start(i)) \div Delay[i]
      IN  fired[i] = IF Periodic[i] \/ due = 0 THEN due ELSE 1

\* The timers of a frame come to an end: nothing that can be set fires for ever
\* (lines 185, 250).
ProcessEnds == pc # "idle" ~> pc = "idle"
=============================================================================
