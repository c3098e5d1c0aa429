--------------------------- MODULE FrameSyncProofs ---------------------------
(***************************************************************************)
(* Theorems about the frame barrier, for every number of threads.          *)
(***************************************************************************)
EXTENDS FrameSyncExit, FiniteSetTheorems, TLAPS

Waiting == {t \in Sleepers : pc[t] \in {"counted", "woken"}}

\* waitCounter is the number of waits in progress: without this the decrement
\* could take it below 0 and TypeOK is not inductive.
CounterExact ==
  /\ \A t \in Threads : pc[t] \in Sleeping => t \in Sleepers
  /\ waitCounter = Cardinality(Waiting)

TypeInv == TypeOK /\ CounterExact

-----------------------------------------------------------------------------
\* There are finitely many threads that call the hooked waits.
LEMMA WaitingFinite == IsFiniteSet(Sleepers)
  BY ThreadsAssumption, FS_Subset

\* A history counter stays in its range when it is bumped.
LEMMA BumpRange == ASSUME NEW n \in 0..2 PROVE Bump(n) \in 0..2
  BY DEF Bump

\* Setting one entry of such a counter back to 0 keeps its range.
LEMMA ClearedRange ==
  ASSUME NEW h \in [Threads -> 0..2], NEW t PROVE [h EXCEPT ![t] = 0] \in [Threads -> 0..2]
<1>1. 0 \in 0..2
  OBVIOUS
<1> QED
  BY <1>1, Zenon

\* initTiming sets up well-typed state, with nobody counted in waitCounter.
THEOREM InitTypeInv == Init => TypeInv
<1> SUFFICES ASSUME Init PROVE TypeInv
  OBVIOUS
<1>1. Waiting = {}
  BY DEF Init, Waiting, Threads
<1>2. Cardinality({}) = 0
  BY FS_EmptySet
<1>3. Cardinality(Sleepers) \in Nat
  BY WaitingFinite, FS_CardinalityType
<1>4. CounterExact
  BY <1>1, <1>2 DEF Init, CounterExact, Sleeping
<1>5. TypeOK
  <2>1. 0 \in 0..FrameModulus-1 /\ waitCounter \in 0..Cardinality(Sleepers)
    BY <1>3, ThreadsAssumption DEF Init
  <2>2. {resyncEvent, nextFrameEvent, noOneWaiting} \subseteq BOOLEAN
        /\ endStuckEvent \in BOOLEAN /\ exitNextFrame \in BOOLEAN
    BY DEF Init
  <2>3. pc \in [Threads -> Points]
    BY DEF Init, Points
  <2>4. [t \in Threads |-> 0] \in [Threads -> 0..2]
    BY SMT
  <2> QED
    BY <2>1, <2>2, <2>3, <2>4 DEF Init, TypeOK
<1> QED
  BY <1>4, <1>5 DEF TypeInv

\* A step that leaves the waits in progress alone keeps the counter exact.
LEMMA WaitsUntouched ==
  ASSUME TypeInv, NEW t \in Threads, NEW from, NEW to \in Points,
         Goto(t, from, to),
         from \notin {"counted", "woken"}, to \notin {"counted", "woken"},
         to \in Sleeping => t \in Sleepers,
         waitCounter' = waitCounter
  PROVE  CounterExact' /\ pc' \in [Threads -> Points]
<1>1. pc \in [Threads -> Points]
  BY DEF TypeInv, TypeOK
<1>2. pc' \in [Threads -> Points]
  BY <1>1 DEF Goto
<1>3. Waiting' = Waiting
  BY <1>1 DEF Goto, Waiting, Threads
<1>4. \A u \in Threads : pc'[u] \in Sleeping => u \in Sleepers
  BY <1>1 DEF Goto, TypeInv, CounterExact
<1> QED
  BY <1>2, <1>3, <1>4 DEF TypeInv, CounterExact

\* So does one that leaves the threads where they are.
LEMMA ThreadsUntouched ==
  ASSUME TypeInv, pc' = pc, waitCounter' = waitCounter
  PROVE  CounterExact' /\ pc' \in [Threads -> Points]
BY DEF TypeInv, TypeOK, CounterExact, Waiting

\* The steps of a hooked wait.
LEMMA HookedWaitTypeInv ==
  ASSUME TypeInv, NEW t \in Sleepers, HookedWait(t) PROVE TypeInv'
<1> USE DEF TypeInv, TypeOK, events, exitVars, frameVars, history
<1>t. t \in Threads
  BY DEF Threads
<1>f. IsFiniteSet(Waiting) /\ IsFiniteSet(Sleepers) /\ Waiting \subseteq Sleepers
  BY WaitingFinite, FS_Subset DEF Waiting
<1>n. Cardinality(Sleepers) \in Nat /\ Cardinality(Waiting) \in Nat
  BY <1>f, FS_CardinalityType
<1>1. CASE CallWait(t)
  <2>1. CounterExact' /\ pc' \in [Threads -> Points]
    BY <1>1, <1>t, WaitsUntouched DEF CallWait, Points, Sleeping
  <2> QED
    BY <1>1, <2>1 DEF CallWait
<1>2. CASE PassResync(t)
  <2>1. CounterExact' /\ pc' \in [Threads -> Points]
    BY <1>2, <1>t, WaitsUntouched DEF PassResync, Points, Sleeping
  <2> QED
    BY <1>2, <2>1 DEF PassResync
<1>3. CASE IncrementWaiting(t)
  <2>1. pc' \in [Threads -> Points] /\ t \notin Waiting
    BY <1>3, <1>t DEF IncrementWaiting, Goto, Points, Sleeping, Waiting
  <2>2. Waiting' = Waiting \union {t}
    BY <1>3, <1>t DEF IncrementWaiting, Goto, Waiting, Threads
  <2>3. Cardinality(Waiting') = Cardinality(Waiting) + 1
    BY <2>1, <2>2, <1>f, FS_AddElement
  <2>4. IsFiniteSet(Waiting') /\ Waiting' \subseteq Sleepers
    BY <2>2, <1>f, FS_AddElement
  <2>5. Cardinality(Waiting') <= Cardinality(Sleepers)
    BY <2>4, <1>f, FS_Subset
  <2>6. waitCounter' = Cardinality(Waiting')
    BY <1>3, <2>3 DEF IncrementWaiting, CounterExact
  <2>7. CounterExact'
    BY <1>3, <1>t, <2>6 DEF IncrementWaiting, CounterExact, Goto
  <2>8. waitCounter' \in 0..Cardinality(Sleepers)
    BY <2>3, <2>5, <2>6, <1>n
  <2> QED
    BY <1>3, <2>1, <2>7, <2>8 DEF IncrementWaiting
<1>4. CASE ReleaseWait(t)
  <2>1. pc' \in [Threads -> Points] /\ Waiting' = Waiting
    BY <1>4, <1>t DEF ReleaseWait, Goto, Points, Sleeping, Waiting, Threads
  <2>2. CounterExact'
    BY <1>4, <1>t, <2>1 DEF ReleaseWait, CounterExact, Goto
  <2>3. released' \in [Threads -> 0..2]
    BY <1>4, <1>t, BumpRange DEF ReleaseWait
  <2> QED
    BY <1>4, <2>1, <2>2, <2>3 DEF ReleaseWait
<1>5. CASE EndWait(t)
  <2>1. pc' \in [Threads -> Points] /\ Waiting' = Waiting
    BY <1>5, <1>t DEF EndWait, Goto, Points, Sleeping, Waiting, Threads
  <2>2. CounterExact'
    BY <1>5, <1>t, <2>1 DEF EndWait, CounterExact, Goto
  <2> QED
    BY <1>5, <2>1, <2>2 DEF EndWait
<1>6. CASE DecrementWaiting(t)
  <2>1. pc' \in [Threads -> Points] /\ t \in Waiting
    BY <1>6, <1>t DEF DecrementWaiting, Goto, Points, Sleeping, Waiting
  <2>2. Waiting' = Waiting \ {t}
    BY <1>6, <1>t DEF DecrementWaiting, Goto, Waiting, Threads
  <2>3. Cardinality(Waiting') = Cardinality(Waiting) - 1
    BY <2>1, <2>2, <1>f, FS_RemoveElement
  <2>4. Cardinality(Waiting) # 0
    BY <2>1, <1>f, FS_EmptySet
  <2>5. waitCounter' = Cardinality(Waiting')
    BY <1>6, <2>3 DEF DecrementWaiting, CounterExact
  <2>6. CounterExact'
    BY <1>6, <1>t, <2>5 DEF DecrementWaiting, CounterExact, Goto
  <2>7. waitCounter' \in 0..Cardinality(Sleepers)
    BY <2>3, <2>4, <2>5, <1>n DEF CounterExact
  <2>8. missed' \in [Threads -> 0..2]
    BY <1>6, ClearedRange DEF DecrementWaiting
  <2> QED
    BY <1>6, <2>1, <2>6, <2>7, <2>8 DEF DecrementWaiting
<1>7. CASE SignalNoOne(t)
  <2>1. CounterExact' /\ pc' \in [Threads -> Points]
    BY <1>7, <1>t, WaitsUntouched DEF SignalNoOne, Points, Sleeping
  <2>2. {resyncEvent', nextFrameEvent', noOneWaiting'} \subseteq BOOLEAN
    BY <1>7 DEF SignalNoOne
  <2> QED
    BY <1>7, <2>1, <2>2 DEF SignalNoOne
<1> QED
  BY <1>1, <1>2, <1>3, <1>4, <1>5, <1>6, <1>7 DEF HookedWait

\* The steps of nextFrameTiming and doneTiming.
LEMMA AdvanceTypeInv ==
  ASSUME TypeInv, NEW t \in Threads, Advance(t) PROVE TypeInv'
<1> USE DEF TypeInv, TypeOK, events, exitVars, frameVars, history
<1>1. CASE CloseResync(t)
  <2>1. CounterExact' /\ pc' \in [Threads -> Points]
    BY <1>1, WaitsUntouched DEF CloseResync, Points, Sleeping, Advancing
  <2>2. {resyncEvent', nextFrameEvent', noOneWaiting'} \subseteq BOOLEAN
    BY <1>1 DEF CloseResync
  <2> QED
    BY <1>1, <2>1, <2>2 DEF CloseResync
<1>2. CASE SetNextFrame(t)
  <2>1. CounterExact' /\ pc' \in [Threads -> Points]
    BY <1>2, WaitsUntouched DEF SetNextFrame, Points, Sleeping, Advancing
  <2>2. {resyncEvent', nextFrameEvent', noOneWaiting'} \subseteq BOOLEAN
    BY <1>2 DEF SetNextFrame
  <2>3. missed' \in [Threads -> 0..2]
    BY <1>2, BumpRange DEF SetNextFrame
  <2> QED
    BY <1>2, <2>1, <2>2, <2>3 DEF SetNextFrame
<1>3. CASE ReadCounter(t)
  <2>1. CounterExact' /\ pc' \in [Threads -> Points]
    BY <1>3, WaitsUntouched DEF ReadCounter, Points, Sleeping, Advancing
  <2> QED
    BY <1>3, <2>1 DEF ReadCounter
<1>4. CASE ResetNoOne(t)
  <2>1. CounterExact' /\ pc' \in [Threads -> Points]
    BY <1>4, WaitsUntouched DEF ResetNoOne, Points, Sleeping, Advancing
  <2>2. {resyncEvent', nextFrameEvent', noOneWaiting'} \subseteq BOOLEAN
    BY <1>4 DEF ResetNoOne
  <2> QED
    BY <1>4, <2>1, <2>2 DEF ResetNoOne
<1>5. CASE SetNoOne(t)
  <2>1. CounterExact' /\ pc' \in [Threads -> Points]
    BY <1>5, WaitsUntouched DEF SetNoOne, Points, Sleeping, Advancing
  <2>2. {resyncEvent', nextFrameEvent', noOneWaiting'} \subseteq BOOLEAN
    BY <1>5 DEF SetNoOne
  <2> QED
    BY <1>5, <2>1, <2>2 DEF SetNoOne
<1>6. CASE Poll(t)
  <2>1. CounterExact' /\ pc' \in [Threads -> Points]
    BY <1>6, WaitsUntouched DEF Poll, Points, Sleeping, Advancing, AfterLoop
  <2> QED
    BY <1>6, <2>1 DEF Poll
<1>7. CASE PollTimeout(t)
  <2>1. CounterExact' /\ pc' \in [Threads -> Points]
    BY <1>7, WaitsUntouched DEF PollTimeout, Points, Sleeping, Advancing
  <2> QED
    BY <1>7, <2>1 DEF PollTimeout
<1>8. CASE Recheck(t)
  <2>1. CounterExact' /\ pc' \in [Threads -> Points]
    BY <1>8, WaitsUntouched DEF Recheck, Points, Sleeping, Advancing, AfterLoop
  <2> QED
    BY <1>8, <2>1 DEF Recheck
<1>9. CASE ResetNextFrame(t)
  <2>1. CounterExact' /\ pc' \in [Threads -> Points]
    BY <1>9, WaitsUntouched DEF ResetNextFrame, Points, Sleeping, Advancing
  <2>2. {resyncEvent', nextFrameEvent', noOneWaiting'} \subseteq BOOLEAN
    BY <1>9 DEF ResetNextFrame
  <2> QED
    BY <1>9, <2>1, <2>2 DEF ResetNextFrame
<1>10. CASE SetResync(t)
  <2>1. CounterExact' /\ pc' \in [Threads -> Points]
    BY <1>10, WaitsUntouched DEF SetResync, Points, Sleeping, Advancing
  <2>2. {resyncEvent', nextFrameEvent', noOneWaiting'} \subseteq BOOLEAN
    BY <1>10 DEF SetResync
  <2> QED
    BY <1>10, <2>1, <2>2 DEF SetResync
<1>11. CASE Tick(t)
  <2>1. CounterExact' /\ pc' \in [Threads -> Points]
    BY <1>11, WaitsUntouched DEF Tick, Points, Sleeping, Advancing
  <2> QED
    BY <1>11, <2>1 DEF Tick, RearmStuckTimer
<1>12. CASE LoadFrame(t)
  <2>1. CounterExact' /\ pc' \in [Threads -> Points]
    BY <1>12, WaitsUntouched DEF LoadFrame, Points, Sleeping, Advancing
  <2> QED
    BY <1>12, <2>1 DEF LoadFrame
<1>13. CASE StoreFrame(t)
  <2>1. CounterExact' /\ pc' \in [Threads -> Points]
    BY <1>13, WaitsUntouched DEF StoreFrame, Points, Sleeping, Advancing
  <2>2. currentFrame' \in 0..FrameModulus-1 /\ oldFrame' \in [Threads -> 0..FrameModulus-1]
    BY <1>13, ThreadsAssumption DEF StoreFrame
  <2> QED
    BY <1>13, <2>1, <2>2 DEF StoreFrame
<1>14. CASE JoinStuck(t)
  <2>1. CounterExact' /\ pc' \in [Threads -> Points]
    BY <1>14, WaitsUntouched DEF JoinStuck, Points, Sleeping, Advancing
  <2> QED
    BY <1>14, <2>1 DEF JoinStuck
<1> QED
  BY <1>1, <1>2, <1>3, <1>4, <1>5, <1>6, <1>7, <1>8, <1>9, <1>10, <1>11, <1>12, <1>13, <1>14 DEF Advance

\* waitCounter counts the waits in progress exactly, in every reachable state and
\* for any number of threads: every way out of a hooked wait decrements it once.
THEOREM TypeInvariant == Spec => []TypeInv
<1>1. ASSUME TypeInv, [Next]_vars PROVE TypeInv'
  <2> USE DEF TypeInv, TypeOK, events, exitVars, frameVars, history
  <2>1. ASSUME NEW t \in Sleepers, HookedWait(t) PROVE TypeInv'
    BY <1>1, <2>1, HookedWaitTypeInv
  <2>2. ASSUME NEW t \in Threads, Advance(t) PROVE TypeInv'
    BY <1>1, <2>2, AdvanceTypeInv
  <2>3. ASSUME NEW t \in Renderers, PresentFrame(t) PROVE TypeInv'
    <3>1. CounterExact' /\ pc' \in [Threads -> Points]
      BY <1>1, <2>3, WaitsUntouched DEF PresentFrame, Points, Sleeping, Advancing, Threads
    <3> QED
      BY <1>1, <2>3, <3>1 DEF PresentFrame
  <2>4. ASSUME NEW t \in Renderers, GraphicsInit(t) PROVE TypeInv'
    <3>1. CounterExact' /\ pc' \in [Threads -> Points]
      BY <1>1, <2>4, ThreadsUntouched DEF GraphicsInit
    <3> QED
      BY <1>1, <2>4, <3>1 DEF GraphicsInit, RearmStuckTimer
  <2>5. ASSUME NEW t \in Renderers \union Breakers, CallExit(t) PROVE TypeInv'
    <3>1. CounterExact' /\ pc' \in [Threads -> Points]
      BY <1>1, <2>5, WaitsUntouched DEF CallExit, Points, Sleeping, Advancing, Threads
    <3> QED
      BY <1>1, <2>5, <3>1 DEF CallExit, Threads
  <2>6. ASSUME FrameTimedOut PROVE TypeInv'
    <3>1. CounterExact' /\ pc' \in [Threads -> Points]
      BY <1>1, <2>6, WaitsUntouched DEF FrameTimedOut, Points, Sleeping, Advancing, Threads
    <3> QED
      BY <1>1, <2>6, <3>1 DEF FrameTimedOut
  <2>7. ASSUME TimerExpires \/ RequestExit PROVE TypeInv'
    <3>1. CounterExact' /\ pc' \in [Threads -> Points]
      BY <1>1, <2>7, ThreadsUntouched DEF TimerExpires, RequestExit
    <3> QED
      BY <1>1, <2>7, <3>1 DEF TimerExpires, RequestExit
  <2>8. ASSUME StuckThreadEnds PROVE TypeInv'
    <3>1. CounterExact' /\ pc' \in [Threads -> Points]
      BY <1>1, <2>8, WaitsUntouched DEF StuckThreadEnds, Points, Sleeping, Threads
    <3> QED
      BY <1>1, <2>8, <3>1 DEF StuckThreadEnds
  <2>9. ASSUME UNCHANGED vars PROVE TypeInv'
    <3>1. CounterExact' /\ pc' \in [Threads -> Points]
      BY <1>1, <2>9, ThreadsUntouched DEF vars
    <3> QED
      BY <1>1, <2>9, <3>1 DEF vars
  <2> QED
    BY <1>1, <2>1, <2>2, <2>3, <2>4, <2>5, <2>6, <2>7, <2>8, <2>9 DEF Next
<1> QED
  BY InitTypeInv, <1>1, PTL DEF Spec

\* So all the state of the barrier keeps its type; in particular waitCounter
\* never leaves 0..number of threads.
THEOREM TypeCorrect == Spec => []TypeOK
<1>1. TypeInv => TypeOK
  BY DEF TypeInv
<1> QED
  BY TypeInvariant, <1>1, PTL

-----------------------------------------------------------------------------
(* One release per frame, and one frame per wait. As long as one thread at a  *)
(* time is inside nextFrameTiming or doneTiming, whichever threads take turns *)
(* there, resyncEvent keeps every released thread out until the pulse is over *)
(* and the thread in the barrier waits for every wait that was counted.       *)

\* resyncEvent and nextFrameEvent are never set together, not even on the edges
\* of the pulse.
GateClosed ==
  /\ resyncEvent => ~nextFrameEvent
  /\ \A u \in Threads :
       /\ pc[u] \in {"releasing", "reading", "arming", "marking", "polling", "recheck",
                     "withdrawing", "reopening"} => ~resyncEvent
       /\ pc[u] = "reopening" => ~nextFrameEvent

\* Who has been released cannot be released again before the pulse is over.
ReleasedAreOut ==
  \A t \in Threads :
    /\ ~nextFrameEvent => released[t] = 0
    /\ released[t] # 0 => released[t] = 1 /\ pc[t] \notin {"admitted", "counted"}

\* The thread u is in the barrier and will not leave it before it has seen, with
\* its own eyes or through noOneWaiting, that nobody is waiting.
Holds(u) ==
  \/ pc[u] \in {"reading", "arming"}
  \/ pc[u] \in {"polling", "recheck"} /\ ~noOneWaiting

\* A wait that was counted when a release began is held for by the thread that
\* releases, until a late SetEvent deceives it.
ReleaseHeld ==
  /\ \A t \in Threads : pc[t] \notin {"counted", "woken"} => missed[t] = 0
  /\ ~falseSignal =>
       \A t \in Threads : missed[t] # 0 => missed[t] = 1 /\ \E u \in Threads : Holds(u)

BarrierInv == GateClosed /\ ReleasedAreOut /\ ReleaseHeld

\* When the counter is 0 nobody is between the increment and the decrement.
LEMMA NobodyCounted ==
  ASSUME TypeInv, waitCounter = 0
  PROVE  \A t \in Threads : pc[t] \notin {"counted", "woken"}
<1>1. IsFiniteSet(Waiting)
  BY WaitingFinite, FS_Subset DEF Waiting
<1>2. Waiting = {}
  BY <1>1, FS_EmptySet DEF TypeInv, CounterExact
<1> QED
  BY <1>2 DEF TypeInv, CounterExact, Waiting, Sleeping

\* A hooked wait, of whichever thread, keeps it.
LEMMA HookedWaitBarrierInv ==
  ASSUME TypeInv, BarrierInv, NEW t \in Sleepers, HookedWait(t) PROVE BarrierInv'
<1> USE DEF events, exitVars, frameVars, history, Goto
<1>t. /\ t \in Threads /\ pc \in [Threads -> Points]
      /\ released \in [Threads -> 0..2] /\ missed \in [Threads -> 0..2]
  BY DEF Threads, TypeInv, TypeOK
<1>i. GateClosed /\ ReleasedAreOut /\ ReleaseHeld
  BY DEF BarrierInv
<1>1. CASE CallWait(t)
  <2>1. GateClosed' /\ ReleasedAreOut'
    BY <1>1, <1>t, <1>i DEF CallWait, GateClosed, ReleasedAreOut
  <2>2. ReleaseHeld'
    BY <1>1, <1>t, <1>i DEF CallWait, ReleaseHeld, Holds
  <2> QED
    BY <2>1, <2>2 DEF BarrierInv
<1>2. CASE PassResync(t)
  <2>1. ~nextFrameEvent
    BY <1>2, <1>i DEF PassResync, GateClosed
  <2>2. GateClosed' /\ ReleasedAreOut'
    BY <1>2, <1>t, <1>i, <2>1 DEF PassResync, GateClosed, ReleasedAreOut
  <2>3. ReleaseHeld'
    BY <1>2, <1>t, <1>i DEF PassResync, ReleaseHeld, Holds
  <2> QED
    BY <2>2, <2>3 DEF BarrierInv
<1>3. CASE IncrementWaiting(t)
  <2>1. GateClosed' /\ ReleasedAreOut'
    BY <1>3, <1>t, <1>i DEF IncrementWaiting, GateClosed, ReleasedAreOut
  <2>2. ReleaseHeld'
    BY <1>3, <1>t, <1>i DEF IncrementWaiting, ReleaseHeld, Holds
  <2> QED
    BY <2>1, <2>2 DEF BarrierInv
<1>4. CASE ReleaseWait(t)
  <2>1. released[t] = 0 /\ Bump(0) = 1
    BY <1>4, <1>t, <1>i DEF ReleaseWait, ReleasedAreOut, Bump
  <2>2. GateClosed' /\ ReleasedAreOut'
    BY <1>4, <1>t, <1>i, <2>1 DEF ReleaseWait, GateClosed, ReleasedAreOut
  <2>3. ReleaseHeld'
    BY <1>4, <1>t, <1>i DEF ReleaseWait, ReleaseHeld, Holds
  <2> QED
    BY <2>2, <2>3 DEF BarrierInv
<1>5. CASE EndWait(t)
  <2>1. GateClosed' /\ ReleasedAreOut'
    BY <1>5, <1>t, <1>i DEF EndWait, GateClosed, ReleasedAreOut
  <2>2. ReleaseHeld'
    BY <1>5, <1>t, <1>i DEF EndWait, ReleaseHeld, Holds
  <2> QED
    BY <2>1, <2>2 DEF BarrierInv
<1>6. CASE DecrementWaiting(t)
  <2>1. GateClosed' /\ ReleasedAreOut'
    BY <1>6, <1>t, <1>i DEF DecrementWaiting, GateClosed, ReleasedAreOut
  <2>2. ReleaseHeld'
    BY <1>6, <1>t, <1>i DEF DecrementWaiting, ReleaseHeld, Holds
  <2> QED
    BY <2>1, <2>2 DEF BarrierInv
<1>7. CASE SignalNoOne(t)
  <2>1. GateClosed' /\ ReleasedAreOut'
    BY <1>7, <1>t, <1>i DEF SignalNoOne, GateClosed, ReleasedAreOut
  <2>2. ~falseSignal' => waitCounter = 0 /\ ~falseSignal
    BY <1>7 DEF SignalNoOne
  <2>3. waitCounter = 0 => \A u \in Threads : missed[u] = 0
    BY <1>i, NobodyCounted DEF ReleaseHeld
  <2>4. ReleaseHeld'
    BY <1>7, <1>t, <1>i, <2>2, <2>3 DEF SignalNoOne, ReleaseHeld
  <2> QED
    BY <2>1, <2>4 DEF BarrierInv
<1> QED
  BY <1>1, <1>2, <1>3, <1>4, <1>5, <1>6, <1>7 DEF HookedWait

\* A step inside the barrier is the only one there.
LEMMA AdvanceBarrierInv ==
  ASSUME TypeInv, Apart, BarrierInv, NEW t \in Threads, Advance(t) PROVE BarrierInv'
<1> USE DEF events, exitVars, frameVars, history, Goto
<1>t. /\ pc \in [Threads -> Points] /\ noOneWaiting \in BOOLEAN
      /\ released \in [Threads -> 0..2] /\ missed \in [Threads -> 0..2]
  BY DEF TypeInv, TypeOK
<1>i. GateClosed /\ ReleasedAreOut /\ ReleaseHeld
  BY DEF BarrierInv
<1>a. pc[t] \in Advancing => \A u \in Threads \ {t} : pc[u] \notin Advancing
  BY DEF Apart
<1>z. \A u \in Threads : [v \in Threads |-> 0][u] = 0
  OBVIOUS
<1>h. pc[t] \in Advancing /\ ~Holds(t) /\ ~falseSignal => \A u \in Threads : missed[u] = 0
  BY <1>a, <1>i DEF ReleaseHeld, Holds, Advancing
<1>m. ~falseSignal => \A u \in Threads : missed[u] \in {0, 1}
  BY <1>i DEF ReleaseHeld
<1>1. CASE CloseResync(t)
  <2>1. GateClosed' /\ ReleasedAreOut'
    BY <1>1, <1>t, <1>i DEF CloseResync, GateClosed, ReleasedAreOut
  <2>2. ReleaseHeld'
    BY <1>1, <1>t, <1>i DEF CloseResync, ReleaseHeld, Holds
  <2> QED
    BY <2>1, <2>2 DEF BarrierInv
<1>2. CASE SetNextFrame(t)
  <2>1. GateClosed'
    BY <1>2, <1>t, <1>i, <1>a DEF SetNextFrame, GateClosed, Advancing
  <2>2. ReleasedAreOut'
    BY <1>2, <1>t, <1>z DEF SetNextFrame, ReleasedAreOut
  <2>3. ~falseSignal => \A u \in Threads : missed[u] = 0
    BY <1>2, <1>h DEF SetNextFrame, Holds, Advancing
  <2>4. Bump(0) = 1
    BY DEF Bump
  <2>5. ~falseSignal' => \A u \in Threads : missed'[u] \in {0, 1}
    BY <1>2, <2>3, <2>4 DEF SetNextFrame
  <2>6. \A u \in Threads : pc'[u] \notin {"counted", "woken"} => missed'[u] = 0
    BY <1>2, <1>t, <1>i DEF SetNextFrame, ReleaseHeld
  <2>7. pc'[t] = "reading"
    BY <1>2, <1>t DEF SetNextFrame
  <2>8. ReleaseHeld'
    BY <2>5, <2>6, <2>7 DEF ReleaseHeld, Holds
  <2> QED
    BY <2>1, <2>2, <2>8 DEF BarrierInv
<1>3. CASE ReadCounter(t)
  <2>1. GateClosed' /\ ReleasedAreOut'
    BY <1>3, <1>t, <1>i DEF ReadCounter, GateClosed, ReleasedAreOut
  <2>2. CASE waitCounter = 0
    <3>1. \A u \in Threads : missed[u] = 0
      BY <1>i, <2>2, NobodyCounted DEF ReleaseHeld
    <3> QED
      BY <1>3, <2>1, <3>1 DEF ReadCounter, ReleaseHeld, BarrierInv
  <2>3. CASE waitCounter # 0
    <3>1. pc'[t] = "arming"
      BY <1>3, <1>t, <2>3 DEF ReadCounter
    <3>2. ReleaseHeld'
      BY <1>3, <1>t, <1>i, <3>1 DEF ReadCounter, ReleaseHeld, Holds
    <3> QED
      BY <2>1, <3>2 DEF BarrierInv
  <2> QED
    BY <2>2, <2>3
<1>4. CASE ResetNoOne(t)
  <2>1. GateClosed' /\ ReleasedAreOut'
    BY <1>4, <1>t, <1>i DEF ResetNoOne, GateClosed, ReleasedAreOut
  <2>2. pc'[t] = "polling" /\ ~noOneWaiting'
    BY <1>4, <1>t DEF ResetNoOne
  <2>3. ReleaseHeld'
    BY <1>4, <1>t, <1>i, <2>2 DEF ResetNoOne, ReleaseHeld, Holds
  <2> QED
    BY <2>1, <2>3 DEF BarrierInv
<1>5. CASE SetNoOne(t)
  <2>1. GateClosed' /\ ReleasedAreOut'
    BY <1>5, <1>t, <1>i DEF SetNoOne, GateClosed, ReleasedAreOut
  <2>2. ~falseSignal => \A u \in Threads : missed[u] = 0
    BY <1>5, <1>h DEF SetNoOne, Holds, Advancing
  <2>3. ReleaseHeld'
    BY <1>5, <1>t, <1>i, <2>2 DEF SetNoOne, ReleaseHeld
  <2> QED
    BY <2>1, <2>3 DEF BarrierInv
<1>6. CASE Poll(t)
  <2>1. GateClosed' /\ ReleasedAreOut'
    BY <1>6, <1>t, <1>i DEF Poll, AfterLoop, GateClosed, ReleasedAreOut
  <2>2. ~falseSignal => \A u \in Threads : missed[u] = 0
    BY <1>6, <1>h DEF Poll, Holds, Advancing
  <2>3. ReleaseHeld'
    BY <1>6, <1>t, <1>i, <2>2 DEF Poll, AfterLoop, ReleaseHeld
  <2> QED
    BY <2>1, <2>3 DEF BarrierInv
<1>7. CASE PollTimeout(t)
  <2>1. GateClosed' /\ ReleasedAreOut'
    BY <1>7, <1>t, <1>i DEF PollTimeout, GateClosed, ReleasedAreOut
  <2>2. ReleaseHeld'
    BY <1>7, <1>t, <1>i DEF PollTimeout, ReleaseHeld, Holds
  <2> QED
    BY <2>1, <2>2 DEF BarrierInv
<1>8. CASE Recheck(t)
  <2>1. GateClosed' /\ ReleasedAreOut'
    BY <1>8, <1>t, <1>i DEF Recheck, AfterLoop, GateClosed, ReleasedAreOut
  <2>2. CASE waitCounter = 0
    <3>1. \A u \in Threads : missed[u] = 0
      BY <1>i, <2>2, NobodyCounted DEF ReleaseHeld
    <3> QED
      BY <1>8, <2>1, <3>1 DEF Recheck, ReleaseHeld, BarrierInv
  <2>3. CASE waitCounter # 0
    <3>1. ReleaseHeld'
      BY <1>8, <1>t, <1>i, <2>3 DEF Recheck, ReleaseHeld, Holds
    <3> QED
      BY <2>1, <3>1 DEF BarrierInv
  <2> QED
    BY <2>2, <2>3
<1>9. CASE ResetNextFrame(t)
  <2>1. GateClosed' /\ ReleasedAreOut'
    BY <1>9, <1>t, <1>i, <1>z DEF ResetNextFrame, GateClosed, ReleasedAreOut
  <2>2. ReleaseHeld'
    BY <1>9, <1>t, <1>i DEF ResetNextFrame, ReleaseHeld, Holds
  <2> QED
    BY <2>1, <2>2 DEF BarrierInv
<1>10. CASE SetResync(t)
  <2>1. GateClosed'
    BY <1>10, <1>t, <1>i, <1>a DEF SetResync, GateClosed, Advancing
  <2>2. ReleasedAreOut'
    BY <1>10, <1>t, <1>i DEF SetResync, ReleasedAreOut
  <2>3. ReleaseHeld'
    BY <1>10, <1>t, <1>i DEF SetResync, ReleaseHeld, Holds
  <2> QED
    BY <2>1, <2>2, <2>3 DEF BarrierInv
<1>11. CASE Tick(t)
  <2>1. GateClosed' /\ ReleasedAreOut'
    BY <1>11, <1>t, <1>i DEF Tick, GateClosed, ReleasedAreOut
  <2>2. ReleaseHeld'
    BY <1>11, <1>t, <1>i DEF Tick, ReleaseHeld, Holds
  <2> QED
    BY <2>1, <2>2 DEF BarrierInv
<1>12. CASE LoadFrame(t) \/ StoreFrame(t) \/ JoinStuck(t)
  <2>1. GateClosed' /\ ReleasedAreOut'
    BY <1>12, <1>t, <1>i DEF LoadFrame, StoreFrame, JoinStuck, GateClosed, ReleasedAreOut
  <2>2. ReleaseHeld'
    BY <1>12, <1>t, <1>i DEF LoadFrame, StoreFrame, JoinStuck, ReleaseHeld, Holds
  <2> QED
    BY <2>1, <2>2 DEF BarrierInv
<1> QED
  BY <1>1, <1>2, <1>3, <1>4, <1>5, <1>6, <1>7, <1>8, <1>9, <1>10, <1>11, <1>12 DEF Advance

\* As long as barriers do not meet, the gate is closed around every release and
\* every counted wait is held for: any number of threads may sleep, present frames,
\* run into the watchdog or end the program.
THEOREM BarriersApart == Spec /\ []Apart => []BarrierInv
<1>1. Init => BarrierInv
  BY DEF Init, BarrierInv, GateClosed, ReleasedAreOut, ReleaseHeld
<1>2. ASSUME TypeInv, Apart, BarrierInv, [Next]_vars PROVE BarrierInv'
  <2> USE DEF events, exitVars, frameVars, history, Goto
  <2>t. /\ pc \in [Threads -> Points]
        /\ released \in [Threads -> 0..2] /\ missed \in [Threads -> 0..2]
    BY <1>2 DEF TypeInv, TypeOK
  <2>1. ASSUME NEW t \in Sleepers, HookedWait(t) PROVE BarrierInv'
    BY <1>2, <2>1, HookedWaitBarrierInv
  <2>2. ASSUME NEW t \in Threads, Advance(t) PROVE BarrierInv'
    BY <1>2, <2>2, AdvanceBarrierInv
  <2>3. ASSUME NEW t \in Threads, NEW to \in {"closing", "joining", "gone"},
               Goto(t, "run", to), UNCHANGED <<events, waitCounter, history>>
        PROVE  BarrierInv'
    BY <1>2, <2>3, <2>t DEF BarrierInv, GateClosed, ReleasedAreOut, ReleaseHeld, Holds
  <2>4. ASSUME UNCHANGED <<events, waitCounter, history, pc>> PROVE BarrierInv'
    BY <1>2, <2>4 DEF BarrierInv, GateClosed, ReleasedAreOut, ReleaseHeld, Holds
  <2>5. ASSUME NEW t \in Renderers \union Breakers, PresentFrame(t) \/ CallExit(t)
        PROVE  BarrierInv'
    BY <2>3, <2>5 DEF PresentFrame, CallExit, Threads
  <2>6. CASE FrameTimedOut \/ StuckThreadEnds
    BY <2>3, <2>6 DEF FrameTimedOut, StuckThreadEnds, Threads
  <2>7. ASSUME NEW t, GraphicsInit(t) PROVE BarrierInv'
    BY <2>4, <2>7 DEF GraphicsInit
  <2>8. CASE TimerExpires \/ RequestExit \/ UNCHANGED vars
    BY <2>4, <2>8 DEF TimerExpires, RequestExit, vars
  <2> QED
    BY <1>2, <2>1, <2>2, <2>5, <2>6, <2>7, <2>8 DEF Next
<1> QED
  BY <1>1, <1>2, TypeInvariant, PTL DEF Spec

\* Then no thread has two of its waits ended by the same frame ...
THEOREM ReleasedOnce == Spec /\ []Apart => []OneReleasePerFrame
<1>1. TypeInv /\ BarrierInv => OneReleasePerFrame
  BY DEF TypeInv, TypeOK, BarrierInv, ReleasedAreOut, OneReleasePerFrame
<1> QED
  BY <1>1, TypeInvariant, BarriersApart, PTL

\* ... and no wait that was counted sleeps through a frame, unless a thread has set
\* noOneWaiting late.
THEOREM CountedWaitsEnd == Spec /\ []Apart => []CountedWaitSpansOneFrame
<1>1. TypeInv /\ BarrierInv => CountedWaitSpansOneFrame
  BY DEF TypeInv, TypeOK, BarrierInv, ReleaseHeld, CountedWaitSpansOneFrame
<1> QED
  BY <1>1, TypeInvariant, BarriersApart, PTL

-----------------------------------------------------------------------------
(* One thread that presents frames, no watchdog and no key that ends the      *)
(* process: barriers cannot meet.                                             *)

\* Nobody but r is ever inside nextFrameTiming or doneTiming.
Alone(r) ==
  /\ stuckTimer = "off"
  /\ \A t \in Threads \ {r} : pc[t] \in {"run", "gone"} \union Sleeping
  /\ exiting \in {NoThread, r}

\* Every step of such a program keeps r alone.
LEMMA AloneInvariant ==
  ASSUME NEW r, Renderers = {r}, Breakers = {}, EnableAutoSkip = FALSE
  PROVE  Spec => []Alone(r)
<1>r. r \in Threads /\ r # NoThread /\ r # Stuck
  BY ThreadsAssumption DEF Threads
<1>1. Init => Alone(r)
  BY <1>r DEF Init, Alone, Sleeping
<1>2. ASSUME TypeInv, Alone(r), [Next]_vars PROVE Alone(r)'
  <2> USE DEF events, exitVars, frameVars, history, Goto
  <2>t. pc \in [Threads -> Points]
    BY <1>2 DEF TypeInv, TypeOK
  <2>1. ASSUME NEW t \in Sleepers, HookedWait(t) PROVE Alone(r)'
    <3>1. /\ pc' = [pc EXCEPT ![t] = pc'[t]] /\ pc'[t] \in {"run"} \union Sleeping
          /\ UNCHANGED <<stuckTimer, exiting>>
      BY <2>1, <2>t DEF HookedWait, CallWait, PassResync, IncrementWaiting, ReleaseWait,
                        EndWait, DecrementWaiting, SignalNoOne, Sleeping, Threads
    <3> QED
      BY <1>2, <2>t, <3>1 DEF Alone
  <2>2. ASSUME NEW t \in Threads, Advance(t) PROVE Alone(r)'
    <3>1. t = r
      <4>1. pc[t] \in Advancing \union {"joining"}
        BY <2>2 DEF Advance, Advancing, CloseResync, SetNextFrame, ReadCounter, ResetNoOne,
                    SetNoOne, Poll, PollTimeout, Recheck, ResetNextFrame, SetResync, Tick,
                    LoadFrame, StoreFrame, JoinStuck
      <4> QED
        BY <1>2, <4>1 DEF Alone, Advancing, Sleeping
    <3>2. \A u \in Threads \ {r} : pc'[u] = pc[u]
      BY <2>2, <2>t, <3>1
         DEF Advance, CloseResync, SetNextFrame, ReadCounter, ResetNoOne, SetNoOne, Poll,
             PollTimeout, Recheck, ResetNextFrame, SetResync, Tick, LoadFrame, StoreFrame,
             JoinStuck
    <3>3. stuckTimer' = stuckTimer /\ exiting' \in {exiting, r}
      BY <2>2, <3>1
         DEF Advance, CloseResync, SetNextFrame, ReadCounter, ResetNoOne, SetNoOne, Poll,
             PollTimeout, Recheck, ResetNextFrame, SetResync, Tick, RearmStuckTimer,
             LoadFrame, StoreFrame, JoinStuck
    <3> QED
      BY <1>2, <3>2, <3>3 DEF Alone
  <2>3. CASE PresentFrame(r) \/ CallExit(r)
    BY <1>2, <2>3, <2>t DEF PresentFrame, CallExit, Alone
  <2>4. CASE StuckThreadEnds
    BY <1>2, <2>4, <2>t DEF StuckThreadEnds, Alone
  <2>5. CASE RequestExit \/ UNCHANGED vars
    BY <1>2, <2>5 DEF RequestExit, vars, Alone
  <2>6. ~FrameTimedOut /\ ~TimerExpires /\ ~GraphicsInit(r)
    BY <1>2 DEF FrameTimedOut, TimerExpires, GraphicsInit, Alone
  <2> QED
    BY <1>2, <2>1, <2>2, <2>3, <2>4, <2>5, <2>6 DEF Next
<1> QED
  BY <1>1, <1>2, TypeInvariant, PTL DEF Spec

\* So barriers stay apart.
LEMMA AloneApart == ASSUME NEW r, Alone(r) PROVE Apart
  BY DEF Alone, Apart, Advancing, Sleeping

\* One presenting thread, no watchdog and no second way into the barrier: any
\* number of threads may sleep, and none has two waits ended by the same frame ...
THEOREM OneRelease ==
  ASSUME NEW r, Renderers = {r}, Breakers = {}, EnableAutoSkip = FALSE
  PROVE  Spec => []OneReleasePerFrame
<1>1. Alone(r) => Apart
  BY AloneApart
<1> QED
  BY <1>1, AloneInvariant, ReleasedOnce, PTL

\* ... nor a counted wait that sleeps through a frame ...
THEOREM OneFrame ==
  ASSUME NEW r, Renderers = {r}, Breakers = {}, EnableAutoSkip = FALSE
  PROVE  Spec => []CountedWaitSpansOneFrame
<1>1. Alone(r) => Apart
  BY AloneApart
<1> QED
  BY <1>1, AloneInvariant, CountedWaitsEnd, PTL

-----------------------------------------------------------------------------
(* The way out.                                                             *)

\* Where the thread inside doneTiming may be.
Leaving == {"joining", "closing", "releasing", "reading", "arming", "marking",
            "polling", "recheck", "gone"}

\* What doneTiming released was counted, and has waited through a release since;
\* nothing of it is left once the thread has gone on.
ExitInv ==
  /\ exiting # NoThread => exiting \in Threads /\ pc[exiting] \in Leaving
  /\ \A t \in caught : t \in Threads /\ InWait(t) /\ missed[t] # 0
  /\ ActiveWaitsFinished

\* One step moves one thread; the thread inside doneTiming stays on its way and gets
\* past its loop only from within it.
ExitStep ==
  /\ \E t \in Threads : \A u \in Threads : u # t => pc'[u] = pc[u]
  /\ exiting # NoThread =>
       /\ exiting' = exiting
       /\ pc'[exiting] \in Leaving
       /\ pc'[exiting] = "gone" => pc[exiting] \in {"polling", "recheck", "gone"}
       /\ pc[exiting] = "gone" => pc'[exiting] = "gone"
  /\ exiting = NoThread =>
       exiting' = NoThread \/ (exiting' \in Threads /\ pc'[exiting'] = "joining")
  /\ falseSignal => falseSignal'

\* A wait that has lived through the beginning of a release does not forget it before
\* it is over, and the release of doneTiming is one for every wait that is counted.
MissedKept ==
  /\ \A t \in Threads : missed[t] # 0 /\ InWait(t)' => missed'[t] # 0
  /\ Releases => \A t \in Threads : pc[t] = "counted" => missed'[t] # 0 /\ pc'[t] = "counted"

\* A counter that has been bumped is not 0.
LEMMA BumpNotZero == ASSUME NEW n \in 0..2 PROVE Bump(n) # 0
  BY DEF Bump

\* Every step of the program is such a step ...
LEMMA NextExitStep ==
  ASSUME TypeInv, ExitInv, [Next]_vars PROVE ExitStep /\ MissedKept
<1> USE DEF events, exitVars, frameVars, history, Goto, InWait
<1>t. /\ pc \in [Threads -> Points] /\ missed \in [Threads -> 0..2]
      /\ exiting \in Threads \union {NoThread} /\ Stuck \in Threads
      /\ NoThread \notin Threads /\ falseSignal \in BOOLEAN
  BY ThreadsAssumption DEF TypeInv, TypeOK, Threads
<1>e. exiting # NoThread => exiting \in Threads /\ pc[exiting] \in Leaving
  BY DEF ExitInv
<1>1. ASSUME NEW t \in Sleepers, HookedWait(t) PROVE ExitStep /\ MissedKept
  <2>t. t \in Threads
    BY DEF Threads
  <2>1. /\ pc' = [pc EXCEPT ![t] = pc'[t]] /\ UNCHANGED exiting
        /\ pc[t] \in {"run"} \union Sleeping /\ (falseSignal => falseSignal')
    BY <1>1, <1>t, <2>t DEF HookedWait, CallWait, PassResync, IncrementWaiting, ReleaseWait,
                      EndWait, DecrementWaiting, SignalNoOne, Sleeping
  <2>2. exiting # t
    BY <1>t, <1>e, <2>t, <2>1 DEF Leaving, Sleeping
  <2>3. ExitStep
    BY <1>t, <1>e, <2>t, <2>1, <2>2 DEF ExitStep
  <2>4. ~Releases
    BY <1>t, <1>e, <2>t, <2>1, <2>2 DEF Releases
  <2>5. CASE DecrementWaiting(t)
    <3>1. /\ pc'[t] \in {"signalling", "run"}
          /\ \A u \in Threads : u # t => missed'[u] = missed[u]
      BY <1>t, <2>t, <2>5 DEF DecrementWaiting
    <3> QED
      BY <2>t, <2>3, <2>4, <3>1 DEF MissedKept
  <2>6. CASE ~DecrementWaiting(t)
    <3>1. missed' = missed
      BY <1>1, <2>6 DEF HookedWait, CallWait, PassResync, IncrementWaiting, ReleaseWait,
                        EndWait, SignalNoOne
    <3> QED
      BY <2>3, <2>4, <3>1 DEF MissedKept
  <2> QED
    BY <2>5, <2>6
<1>2. ASSUME NEW t \in Threads, Advance(t) PROVE ExitStep /\ MissedKept
  <2>1. pc' = [pc EXCEPT ![t] = pc'[t]] /\ falseSignal' = falseSignal
    BY <1>2, <1>t
       DEF Advance, CloseResync, SetNextFrame, ReadCounter, ResetNoOne, SetNoOne, Poll,
           PollTimeout, Recheck, ResetNextFrame, SetResync, Tick, LoadFrame, StoreFrame,
           JoinStuck
  <2>2. ASSUME t = exiting
        PROVE  /\ exiting' = exiting /\ pc'[t] \in Leaving
               /\ pc'[t] = "gone" => pc[t] \in {"polling", "recheck"}
               /\ pc[t] # "gone"
    BY <1>2, <1>t, <1>e, <2>2
       DEF Advance, CloseResync, SetNextFrame, ReadCounter, ResetNoOne, SetNoOne, Poll,
           PollTimeout, Recheck, ResetNextFrame, SetResync, Tick, LoadFrame, StoreFrame,
           JoinStuck, AfterLoop, Leaving
  <2>3. \/ exiting' = exiting
        \/ exiting = NoThread /\ exiting' = t /\ pc'[t] = "joining"
    BY <1>2, <1>t
       DEF Advance, CloseResync, SetNextFrame, ReadCounter, ResetNoOne, SetNoOne, Poll,
           PollTimeout, Recheck, ResetNextFrame, SetResync, Tick, LoadFrame, StoreFrame,
           JoinStuck
  <2>4. ExitStep
    BY <1>t, <1>e, <2>1, <2>2, <2>3 DEF ExitStep
  <2>5. CASE SetNextFrame(t)
    <3>1. \A u \in Threads :
            missed'[u] = IF pc[u] = "counted" THEN Bump(missed[u]) ELSE missed[u]
      BY <2>5 DEF SetNextFrame
    <3>2. \A u \in Threads : pc[u] = "counted" => missed'[u] # 0 /\ pc'[u] = "counted"
      BY <1>t, <2>5, <3>1, BumpNotZero DEF SetNextFrame
    <3> QED
      BY <2>4, <3>1, <3>2 DEF MissedKept
  <2>6. CASE ~SetNextFrame(t)
    <3>1. missed' = missed
      BY <1>2, <2>6
         DEF Advance, CloseResync, ReadCounter, ResetNoOne, SetNoOne, Poll,
             PollTimeout, Recheck, ResetNextFrame, SetResync, Tick, LoadFrame, StoreFrame,
             JoinStuck
    <3>2. pc[t] = "releasing" => pc'[t] # "reading"
      BY <1>2, <1>t, <2>6
         DEF Advance, CloseResync, ReadCounter, ResetNoOne, SetNoOne, Poll,
             PollTimeout, Recheck, ResetNextFrame, SetResync, Tick, LoadFrame, StoreFrame,
             JoinStuck
    <3>3. ~Releases
      BY <1>t, <1>e, <2>1, <3>2 DEF Releases
    <3> QED
      BY <2>4, <3>1, <3>3 DEF MissedKept
  <2> QED
    BY <2>5, <2>6
<1>3. ASSUME NEW t \in Threads, NEW to \in {"closing", "joining", "gone"},
             Goto(t, "run", to), missed' = missed, falseSignal' = falseSignal,
             exiting' = exiting \/ (exiting = NoThread /\ exiting' = t /\ to = "joining")
      PROVE  ExitStep /\ MissedKept
  <2>1. exiting # t
    BY <1>t, <1>e, <1>3 DEF Leaving
  <2>2. ExitStep
    BY <1>t, <1>e, <1>3, <2>1 DEF ExitStep
  <2>3. ~Releases
    BY <1>t, <1>e, <1>3, <2>1 DEF Releases
  <2> QED
    BY <1>3, <2>2, <2>3 DEF MissedKept
<1>4. ASSUME missed' = missed, falseSignal' = falseSignal, pc' = pc, exiting' = exiting
      PROVE  ExitStep /\ MissedKept
  BY <1>t, <1>e, <1>4 DEF ExitStep, MissedKept, Releases
<1>5. ASSUME NEW t \in Renderers \union Breakers, PresentFrame(t) \/ CallExit(t)
      PROVE  ExitStep /\ MissedKept
  BY <1>3, <1>5 DEF PresentFrame, CallExit, Threads
<1>6. CASE FrameTimedOut \/ StuckThreadEnds
  BY <1>3, <1>6, <1>t DEF FrameTimedOut, StuckThreadEnds
<1>7. ASSUME NEW t, GraphicsInit(t) PROVE ExitStep /\ MissedKept
  BY <1>4, <1>7 DEF GraphicsInit
<1>8. CASE TimerExpires \/ RequestExit \/ UNCHANGED vars
  BY <1>4, <1>8 DEF TimerExpires, RequestExit, vars
<1> QED
  BY <1>1, <1>2, <1>5, <1>6, <1>7, <1>8 DEF Next

\* ... and when barriers are apart, the thread inside doneTiming leaves nobody behind:
\* were a wait it released still counted, somebody else would be in the barrier.
LEMMA ApartExitInv ==
  ASSUME TypeInv, BarrierInv', Apart, ExitInv, ExitStep, MissedKept,
         caught' = IF Releases THEN {t \in Threads : pc[t] = "counted"}
                   ELSE {t \in caught : InWait(t)'}
  PROVE  ExitInv'
<1>t. exiting \in Threads \union {NoThread} /\ NoThread \notin Threads
  BY ThreadsAssumption DEF TypeInv, TypeOK, Threads
<1>1. exiting' # NoThread => exiting' \in Threads /\ pc'[exiting'] \in Leaving
  BY <1>t DEF ExitStep, Leaving
<1>2. \A t \in caught' : t \in Threads /\ InWait(t)' /\ missed'[t] # 0
  BY DEF ExitInv, MissedKept, InWait
<1>3. ASSUME exiting' # NoThread, pc'[exiting'] = "gone", ~falseSignal'
      PROVE  caught' = {}
  <2>1. exiting = exiting' /\ exiting # NoThread /\ ~falseSignal
    BY <1>3 DEF ExitStep
  <2>2. CASE pc[exiting] = "gone"
    BY <1>3, <2>1, <2>2 DEF ExitInv, ActiveWaitsFinished, Releases
  <2>3. CASE pc[exiting] # "gone"
    <3>1. pc[exiting] \in {"polling", "recheck"} /\ exiting \in Threads
      BY <1>3, <1>t, <2>1, <2>3 DEF ExitStep
    <3>2. \A u \in Threads : u # exiting => pc[u] \notin Advancing /\ pc'[u] = pc[u]
      BY <1>3, <2>1, <2>3, <3>1 DEF Apart, Advancing, ExitStep
    <3>3. \A u \in Threads : ~Holds(u)'
      BY <1>3, <2>1, <3>2 DEF Holds, Advancing
    <3>4. \A u \in Threads : missed'[u] = 0
      BY <1>3, <3>3 DEF BarrierInv, ReleaseHeld
    <3> QED
      BY <1>2, <3>4
  <2> QED
    BY <2>2, <2>3
<1> QED
  BY <1>1, <1>2, <1>3 DEF ExitInv, ActiveWaitsFinished

\* When doneTiming deletes what the waits use, each of them that was counted when it
\* released them is over, again unless noOneWaiting was set late: for any number of
\* threads, whichever ends the process, as long as no other is inside nextFrameTiming.
THEOREM TeardownWaits == ExitSpec /\ []Apart => []ActiveWaitsFinished
<1>1. ExitInit => Init /\ ExitInv
  BY DEF ExitInit, Init, ExitInv, ActiveWaitsFinished
<1>2. ASSUME TypeInv, BarrierInv', Apart, ExitInv, [ExitNext]_allVars PROVE ExitInv'
  <2>1. CASE ExitNext
    <3>1. ExitStep /\ MissedKept
      BY <1>2, <2>1, NextExitStep DEF ExitNext
    <3> QED
      BY <1>2, <2>1, <3>1, ApartExitInv DEF ExitNext
  <2>2. CASE UNCHANGED allVars
    BY <1>2, <2>2 DEF allVars, vars, exitVars, history, ExitInv, ActiveWaitsFinished, InWait
  <2> QED
    BY <1>2, <2>1, <2>2
<1>3. [ExitNext]_allVars => [Next]_vars
  BY DEF ExitNext, allVars
<1>4. ExitInv => ActiveWaitsFinished
  BY DEF ExitInv
<1> QED
  BY <1>1, <1>2, <1>3, <1>4, TypeInvariant, BarriersApart, PTL
     DEF ExitSpec, Spec
=============================================================================
