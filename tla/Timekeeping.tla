----------------------------- MODULE Timekeeping -----------------------------
(***************************************************************************)
(* The two ways in which a program follows the time of the capture: its    *)
(* threads ask for it (VirtualClock), or it is called when time is up      *)
(* (EventTimers). Both run on the frames that nextFrameTiming counts in    *)
(* currentFrame and on nothing else the two have in common; a program is   *)
(* taken to use one of them.                                               *)
(***************************************************************************)
EXTENDS EventTimers

CONSTANTS
  Threads, NoThread, MAX_TIMERQUERY_PER_FRAME, FrequentTimerCheck, Frequency, Denom, Scaled, \* see VirtualClock
  MaxAskedFrames, MaxNow  \* bounds: frames of a program that asks, readings of the real clock

ASSUME ClockAssumption ==
  /\ NoThread \notin Threads
  /\ FrequentTimerCheck \in BOOLEAN
  /\ {MAX_TIMERQUERY_PER_FRAME, Frequency, Denom, Scaled, MaxAskedFrames, MaxNow} \subseteq Nat \ {0}

VARIABLES
  asks,  \* the program asks for the time
  now, timerHammeringCounter, TimersSeeded, TimerSeedLock, firstTimeQPC, firstTimeTGT, at, frame, counted, skipping,
  base, latest

Clock == INSTANCE VirtualClock WITH pc <- at, MaxFrames <- MaxAskedFrames

timers == <<fields, pc, slot, history>>
clock == <<now, timerHammeringCounter, TimersSeeded, TimerSeedLock, firstTimeQPC, firstTimeTGT, at, frame, counted,
  skipping, base, latest>>
allVars == <<asks, currentFrame, timers, clock>>

TimeInit == asks \in BOOLEAN /\ Init /\ Clock!Init

Asks(A) == asks /\ A /\ UNCHANGED <<asks, timers>>
IsCalled(A) == ~asks /\ A /\ UNCHANGED <<asks, clock>>

TimeNext == Asks(Clock!Next) \/ IsCalled(Next)

\* The presenting thread is scheduled and callbacks return; every thread that asks
\* does so again and again.
TimeSpec ==
  /\ TimeInit /\ [][TimeNext]_allVars
  /\ WF_allVars(IsCalled(ProcessEventTimers \/ CountFrame))
  /\ \A t \in Threads : WF_allVars(Asks(Clock!nextFrameTiming(t) \/ Clock!Asking(t)))

-----------------------------------------------------------------------------
(* Properties, with FiredOnTime and ProcessEnds. *)

\* The program's clocks follow the pictures: whichever threads asked first, an answer
\* that has seen a picture is the seeds of the first such answer plus the length of
\* the frames it has seen, the same seeds for every clock; one that has seen none is
\* not before an earlier one (timing.cpp:72-104).
ClockFollowsFrames == asks => Clock!ClockFollowsFrames

\* A program that waits for its clock to change does not wait for ever, though it
\* presents nothing (timing.cpp:60 "if timer functions are called frequently in a
\* single frame, assume the app is waiting for the current time to change and advance
\* it").
TimeMovesOn ==
  asks /\ FrequentTimerCheck => \A f \in 0..MaxAskedFrames-1 : currentFrame = f ~> currentFrame # f
=============================================================================
