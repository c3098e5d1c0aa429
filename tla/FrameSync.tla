------------------------------ MODULE FrameSync ------------------------------
(***************************************************************************)
(* The frame barrier of kkapture (src/kkapturedll/timing.cpp).             *)
(*                                                                         *)
(* The hooked Sleep and WaitFor... functions let a thread of the captured  *)
(* program sleep until the next captured frame; nextFrameTiming releases   *)
(* all of them once per frame and doneTiming does the same on the way out. *)
(* Three manual-reset events, one interlocked counter and a plain frame    *)
(* counter are shared; every read and every write of them is a step.       *)
(*                                                                         *)
(* A thread that is about to enter a kernel wait and one that is blocked   *)
(* in it are the same program point: the wait returns in any state where   *)
(* its event is set, and a thread preempted before it may miss a pulse.    *)
(***************************************************************************)
EXTENDS Integers, FiniteSets

CONSTANTS
  Sleepers,        \* threads of the program that call the hooked waits
  Renderers,       \* threads of the program that present frames
  Breakers,        \* threads that only end the process: the keyboard hook
  Stuck,           \* kkapture's own thread running stuckThreadProc
  NoThread,        \* nobody
  EnableAutoSkip,  \* params.EnableAutoSkip
  MayExit,         \* whether the program or the user ends the capture
  FrameModulus     \* range of the int currentFrame (2^32 in the code)

ASSUME ThreadsAssumption ==
  /\ IsFiniteSet(Sleepers \union Renderers \union Breakers)
  /\ Breakers \intersect (Sleepers \union Renderers) = {}
  /\ Stuck \notin Sleepers \union Renderers \union Breakers
  /\ NoThread \notin Sleepers \union Renderers \union Breakers \union {Stuck}
  /\ EnableAutoSkip \in BOOLEAN
  /\ MayExit \in BOOLEAN
  /\ FrameModulus \in Nat \ {0, 1}

Threads == Sleepers \union Renderers \union Breakers \union {Stuck}

VARIABLES
  resyncEvent,     \* set while hooked waits may start
  nextFrameEvent,  \* set while the waits of the frame are being released
  noOneWaiting,    \* set by the thread that takes waitCounter to 0
  waitCounter,     \* hooked waits in progress
  currentFrame,
  stuckTimer,      \* "off", "armed" or "due" (a manual-reset timer)
  endStuckEvent,
  exitNextFrame,   \* the clean-exit key was pressed
  exiting,         \* the thread inside doneTiming, if any
  pc,              \* where each thread is
  oldFrame,        \* the value a thread has read in currentFrame++, else 0
  released,        \* history: waits ended by nextFrameEvent since it was set
  missed,          \* history: releases begun since this wait was counted
  falseSignal      \* history: noOneWaiting was set by a thread that came late

events == <<resyncEvent, nextFrameEvent, noOneWaiting>>
exitVars == <<endStuckEvent, exitNextFrame, exiting>>
frameVars == <<currentFrame, oldFrame, stuckTimer>>
history == <<released, missed, falseSignal>>
vars == <<events, waitCounter, frameVars, exitVars, pc, history>>

Sleeping == {"atResync", "admitted", "counted", "woken", "signalling"}
Advancing == {"closing", "releasing", "reading", "arming", "marking",
              "polling", "recheck", "withdrawing", "reopening", "ticking",
              "loading", "storing"}
Points == {"run", "joining", "barred", "gone"} \union Sleeping \union Advancing

TypeOK ==
  /\ {resyncEvent, nextFrameEvent, noOneWaiting} \subseteq BOOLEAN
  /\ waitCounter \in 0..Cardinality(Sleepers)
  /\ currentFrame \in 0..FrameModulus-1
  /\ stuckTimer \in {"off", "armed", "due"}
  /\ endStuckEvent \in BOOLEAN /\ exitNextFrame \in BOOLEAN
  /\ exiting \in Threads \union {NoThread}
  /\ pc \in [Threads -> Points]
  /\ oldFrame \in [Threads -> 0..FrameModulus-1]
  /\ released \in [Threads -> 0..2]
  /\ missed \in [Threads -> 0..2]
  /\ falseSignal \in BOOLEAN

Init ==
  /\ resyncEvent = TRUE /\ nextFrameEvent = FALSE /\ noOneWaiting = FALSE
  /\ waitCounter = 0
  /\ currentFrame = 0
  /\ stuckTimer = "off"
  /\ endStuckEvent = FALSE /\ exitNextFrame = FALSE
  /\ exiting = NoThread
  /\ pc = [t \in Threads |-> "run"]
  /\ oldFrame = [t \in Threads |-> 0]
  /\ released = [t \in Threads |-> 0]
  /\ missed = [t \in Threads |-> 0]
  /\ falseSignal = FALSE

Goto(t, from, to) == pc[t] = from /\ pc' = [pc EXCEPT ![t] = to]

\* The history counters saturate at 2: every property about them says "at most 1".
Bump(n) == IF n = 2 THEN 2 ELSE n + 1

-----------------------------------------------------------------------------
(* The hooked waits: Mine_Sleep, Mine_WaitForSingleObject,                  *)
(* Mine_WaitForMultipleObjects and Mine_MsgWaitForMultipleObjects.          *)

\* A hooked wait is called; infinite waits for handles and Sleep(0) pass through
\* unseen.
CallWait(t) ==
  /\ Goto(t, "run", "atResync")
  /\ UNCHANGED <<events, waitCounter, frameVars, exitVars, history>>

\* The wait for resyncEvent returns.
PassResync(t) ==
  /\ resyncEvent
  /\ Goto(t, "atResync", "admitted")
  /\ UNCHANGED <<events, waitCounter, frameVars, exitVars, history>>

IncrementWaiting(t) ==
  /\ Goto(t, "admitted", "counted")
  /\ waitCounter' = waitCounter + 1
  /\ UNCHANGED <<events, frameVars, exitVars, history>>

\* The wait ends because of nextFrameEvent ...
ReleaseWait(t) ==
  /\ nextFrameEvent
  /\ Goto(t, "counted", "woken")
  /\ released' = [released EXCEPT ![t] = Bump(@)]
  /\ UNCHANGED <<events, waitCounter, frameVars, exitVars, missed, falseSignal>>

\* ... or because its own handle is signalled or its time is up.
EndWait(t) ==
  /\ Goto(t, "counted", "woken")
  /\ UNCHANGED <<events, waitCounter, frameVars, exitVars, history>>

DecrementWaiting(t) ==
  /\ Goto(t, "woken", IF waitCounter = 1 THEN "signalling" ELSE "run")
  /\ waitCounter' = waitCounter - 1
  /\ missed' = [missed EXCEPT ![t] = 0]
  /\ UNCHANGED <<events, frameVars, exitVars, released, falseSignal>>

\* SetEvent(noOneWaiting) of the thread that saw the counter reach 0; others may
\* be waiting again by then.
SignalNoOne(t) ==
  /\ Goto(t, "signalling", "run")
  /\ noOneWaiting' = TRUE
  /\ falseSignal' = (falseSignal \/ waitCounter # 0)
  /\ UNCHANGED <<resyncEvent, nextFrameEvent, waitCounter, frameVars, exitVars,
                 released, missed>>

-----------------------------------------------------------------------------
(* nextFrameTiming, and the same sequence inside doneTiming.                *)

\* A frame is presented, or timer queries are hammered: nextFrameTiming starts.
PresentFrame(t) ==
  /\ Goto(t, "run", "closing")
  /\ UNCHANGED <<events, waitCounter, frameVars, exitVars, history>>

\* stuckThreadProc: stuckTimer is due and endStuckEvent, which has the lower
\* index in the handle array, is not set: skipFrame runs nextFrameTiming.
FrameTimedOut ==
  /\ stuckTimer = "due"
  /\ ~endStuckEvent
  /\ Goto(Stuck, "run", "closing")
  /\ UNCHANGED <<events, waitCounter, frameVars, exitVars, history>>

\* Mutant: resyncEvent is left open during the release.
CloseResyncForgotten(t) ==
  /\ Goto(t, "closing", "releasing")
  /\ UNCHANGED <<events, waitCounter, frameVars, exitVars, history>>

CloseResync(t) ==
  /\ Goto(t, "closing", "releasing")
  /\ resyncEvent' = FALSE
  /\ UNCHANGED <<nextFrameEvent, noOneWaiting, waitCounter, frameVars, exitVars,
                 history>>

SetNextFrame(t) ==
  /\ Goto(t, "releasing", "reading")
  /\ nextFrameEvent' = TRUE
  /\ released' = [u \in Threads |-> 0]
  /\ missed' = [u \in Threads |->
                  IF pc[u] = "counted" THEN Bump(missed[u]) ELSE missed[u]]
  /\ UNCHANGED <<resyncEvent, noOneWaiting, waitCounter, frameVars, exitVars, falseSignal>>

\* Mutant: noOneWaiting is set without looking at the counter.
ReadCounterIgnored(t) ==
  /\ Goto(t, "reading", "marking")
  /\ UNCHANGED <<events, waitCounter, frameVars, exitVars, history>>

\* if(waitCounter) ResetEvent(noOneWaiting); else SetEvent(noOneWaiting);
ReadCounter(t) ==
  /\ Goto(t, "reading", IF waitCounter # 0 THEN "arming" ELSE "marking")
  /\ UNCHANGED <<events, waitCounter, frameVars, exitVars, history>>

ResetNoOne(t) ==
  /\ Goto(t, "arming", "polling")
  /\ noOneWaiting' = FALSE
  /\ UNCHANGED <<resyncEvent, nextFrameEvent, waitCounter, frameVars, exitVars,
                 history>>

SetNoOne(t) ==
  /\ Goto(t, "marking", "polling")
  /\ noOneWaiting' = TRUE
  /\ UNCHANGED <<resyncEvent, nextFrameEvent, waitCounter, frameVars, exitVars,
                 history>>

\* Where a thread goes after the loop: doneTiming only tears things down.
AfterLoop(t) == IF exiting = t THEN "gone" ELSE "withdrawing"

Poll(t) ==
  /\ noOneWaiting
  /\ Goto(t, "polling", AfterLoop(t))
  /\ UNCHANGED <<events, waitCounter, frameVars, exitVars, history>>

\* The 5 ms wait times out: the counter itself is looked at.
PollTimeout(t) ==
  /\ ~noOneWaiting
  /\ Goto(t, "polling", "recheck")
  /\ UNCHANGED <<events, waitCounter, frameVars, exitVars, history>>

\* Mutants: the first timeout ends the loop; the counter is not looked at again.
RecheckGivesUp(t) ==
  /\ Goto(t, "recheck", AfterLoop(t))
  /\ UNCHANGED <<events, waitCounter, frameVars, exitVars, history>>

RecheckKeepsPolling(t) ==
  /\ Goto(t, "recheck", "polling")
  /\ UNCHANGED <<events, waitCounter, frameVars, exitVars, history>>

Recheck(t) ==
  /\ Goto(t, "recheck", IF waitCounter = 0 THEN AfterLoop(t) ELSE "polling")
  /\ UNCHANGED <<events, waitCounter, frameVars, exitVars, history>>

ResetNextFrame(t) ==
  /\ Goto(t, "withdrawing", "reopening")
  /\ nextFrameEvent' = FALSE
  /\ released' = [u \in Threads |-> 0]
  /\ UNCHANGED <<resyncEvent, noOneWaiting, waitCounter, frameVars, exitVars,
                 missed, falseSignal>>

SetResync(t) ==
  /\ Goto(t, "reopening", "ticking")
  /\ resyncEvent' = TRUE
  /\ UNCHANGED <<nextFrameEvent, noOneWaiting, waitCounter, frameVars, exitVars,
                 history>>

\* SetWaitableTimer restarts the timer and takes a due one back.
RearmStuckTimer == stuckTimer' = IF EnableAutoSkip THEN "armed" ELSE stuckTimer

\* ProcessEventTimers (module EventTimers), the watchdog is re-armed, and a
\* requested clean exit leaves through ExitProcess and done(), where the first
\* thread holds shuttingDown and every other one waits for it.
Tick(t) ==
  /\ RearmStuckTimer
  /\ \/ /\ ~exitNextFrame
        /\ Goto(t, "ticking", "loading")
        /\ UNCHANGED exitVars
     \/ /\ exitNextFrame /\ exiting # NoThread
        /\ Goto(t, "ticking", "barred")
        /\ UNCHANGED exitVars
     \/ /\ exitNextFrame /\ exiting = NoThread
        /\ Goto(t, "ticking", "joining")
        /\ exiting' = t
        /\ endStuckEvent' = TRUE
        /\ UNCHANGED exitNextFrame
  /\ UNCHANGED <<events, waitCounter, currentFrame, oldFrame, history>>

\* currentFrame++ on a plain int.
LoadFrame(t) ==
  /\ Goto(t, "loading", "storing")
  /\ oldFrame' = [oldFrame EXCEPT ![t] = currentFrame]
  /\ UNCHANGED <<events, waitCounter, currentFrame, stuckTimer, exitVars, history>>

StoreFrame(t) ==
  /\ Goto(t, "storing", "run")
  /\ currentFrame' = (oldFrame[t] + 1) % FrameModulus
  /\ oldFrame' = [oldFrame EXCEPT ![t] = 0]
  /\ UNCHANGED <<events, waitCounter, stuckTimer, exitVars, history>>

-----------------------------------------------------------------------------
(* The watchdog and the way out.                                            *)

\* graphicsInitTiming: the first-frame timeout is set.
GraphicsInit(t) ==
  /\ EnableAutoSkip
  /\ pc[t] = "run"
  /\ RearmStuckTimer
  /\ UNCHANGED <<events, waitCounter, currentFrame, oldFrame, exitVars, pc, history>>

TimerExpires ==
  /\ stuckTimer = "armed"
  /\ stuckTimer' = "due"
  /\ UNCHANGED <<events, waitCounter, currentFrame, oldFrame, exitVars, pc, history>>

StuckThreadEnds ==
  /\ endStuckEvent
  /\ Goto(Stuck, "run", "gone")
  /\ UNCHANGED <<events, waitCounter, frameVars, exitVars, history>>

\* Right control is pressed.
RequestExit ==
  /\ MayExit
  /\ ~exitNextFrame
  /\ exitNextFrame' = TRUE
  /\ UNCHANGED <<events, waitCounter, frameVars, endStuckEvent, exiting, pc, history>>

\* A thread of the program calls ExitProcess, or ctrl+break does so on the
\* thread of the keyboard hook; done() lets one of them through.
CallExit(t) ==
  /\ MayExit
  /\ exiting = NoThread
  /\ Goto(t, "run", "joining")
  /\ exiting' = t
  /\ endStuckEvent' = TRUE
  /\ UNCHANGED <<events, waitCounter, frameVars, exitNextFrame, history>>

\* The stuck thread is given 500 ms to end, and is not waited for after that.
JoinStuck(t) ==
  /\ Goto(t, "joining", "closing")
  /\ UNCHANGED <<events, waitCounter, frameVars, exitVars, history>>

-----------------------------------------------------------------------------
HookedWait(t) ==
  \/ CallWait(t) \/ PassResync(t) \/ IncrementWaiting(t) \/ ReleaseWait(t)
  \/ EndWait(t) \/ DecrementWaiting(t) \/ SignalNoOne(t)

\* The steps of nextFrameTiming and doneTiming once they have started.
Advance(t) ==
  \/ CloseResync(t) \/ SetNextFrame(t) \/ ReadCounter(t) \/ ResetNoOne(t)
  \/ SetNoOne(t) \/ Poll(t) \/ PollTimeout(t) \/ Recheck(t)
  \/ ResetNextFrame(t) \/ SetResync(t) \/ Tick(t) \/ LoadFrame(t)
  \/ StoreFrame(t) \/ JoinStuck(t)

Next ==
  \/ \E t \in Sleepers : HookedWait(t)
  \/ \E t \in Renderers : PresentFrame(t) \/ GraphicsInit(t)
  \/ \E t \in Renderers \union Breakers : CallExit(t)
  \/ \E t \in Threads : Advance(t)
  \/ FrameTimedOut \/ TimerExpires \/ StuckThreadEnds \/ RequestExit

Spec == Init /\ [][Next]_vars

LeaveLoop(t) == Poll(t) \/ (waitCounter = 0 /\ Recheck(t))

\* The scheduler runs every thread that can take a step: a hooked wait that has
\* started goes on (only its end by timeout or handle is left to chance), a
\* started nextFrameTiming goes on, and an armed timer expires. A thread in
\* the polling loop looks at the event or at the counter every few milliseconds;
\* it does not miss every one of infinitely many chances to leave.
Fairness ==
  /\ \A t \in Sleepers :
       WF_vars(PassResync(t) \/ IncrementWaiting(t) \/ ReleaseWait(t)
               \/ DecrementWaiting(t) \/ SignalNoOne(t))
  /\ \A t \in Threads : WF_vars(Advance(t)) /\ SF_vars(LeaveLoop(t))
  /\ WF_vars(TimerExpires) /\ WF_vars(FrameTimedOut)

FairSpec == Spec /\ Fairness

\* Every wait of the program has a timeout that runs out: all but a Sleep(INFINITE)
\* that is made to last one frame (line 298).
TimeoutSpec == FairSpec /\ \A t \in Sleepers : WF_vars(EndWait(t))

-----------------------------------------------------------------------------
(* Properties.                                                              *)

\* resyncEvent is there to keep a released thread from starting another wait
\* in the same frame: while the waits of one frame are released, no thread has
\* two of them ended by nextFrameEvent (timing.cpp:294, 522, 534).
OneReleasePerFrame == \A t \in Threads : released[t] <= 1

\* No hooked wait takes more than one frame once it is counted in waitCounter: a
\* release that begins then waits for it, so that it cannot see a second one
\* (timing.cpp:287 "everything that sleeps may accidentially take more than one frame").
\* A wait that is past resyncEvent and not yet counted can sleep through a whole
\* release (294-296); what else can break this is a thread that took the counter to 0 and sets noOneWaiting only when
\* others are counted again (timing.cpp:284, 529).
CountedWaitSpansOneFrame ==
  /\ TypeOK
  /\ ~falseSignal =>
       \A t \in Threads : pc[t] \in {"counted", "woken"} => missed[t] <= 1

\* No two threads are inside the barrier at once: nothing in the code sees to it.
Apart == \A t, u \in Threads : pc[t] \in Advancing /\ pc[u] \in Advancing => t = u

\* A thread that starts to advance the frame gets through the barrier, although
\* the wake-up through noOneWaiting can be lost (timing.cpp:529). When two barriers
\* run at once, the one that is left behind has its waiters neither released nor
\* kept from waiting again (533-534), and the waits of two threads that overlap
\* without end can hold it: with more than one sleeping thread, barriers must not
\* meet, or the waits must cease.
BarrierTerminates ==
  \/ Cardinality(Sleepers) <= 1
  \/ [](Cardinality({t \in Threads : pc[t] \in Advancing}) <= 1)
  \/ <>[](waitCounter = 0)
  => \A t \in Renderers \union Breakers \union {Stuck} :
       pc[t] = "closing" ~> pc[t] \in {"run", "joining", "barred", "gone"}
=============================================================================
