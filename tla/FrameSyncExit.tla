---------------------------- MODULE FrameSyncExit ----------------------------
(***************************************************************************)
(* The frame barrier with one more history variable, for the way out:      *)
(* which waits doneTiming found in progress when it set nextFrameEvent.    *)
(***************************************************************************)
EXTENDS FrameSync

VARIABLE caught  \* the waits doneTiming released that are still in progress

allVars == <<vars, caught>>

InWait(t) == pc[t] \in {"counted", "woken"}

\* The exiting thread does SetEvent(nextFrameEvent); a wait is over when its thread
\* has left waitCounter.
Releases == exiting # NoThread /\ pc[exiting] = "releasing" /\ pc'[exiting] = "reading"

ExitInit == Init /\ caught = {}

ExitNext ==
  /\ Next
  /\ caught' = IF Releases THEN {t \in Threads : pc[t] = "counted"}
               ELSE {t \in caught : InWait(t)'}

ExitSpec == ExitInit /\ [][ExitNext]_allVars

\* The executions in which no thread exits or advances the frame while another one is
\* inside nextFrameTiming.
ApartSpec == ExitInit /\ [][ExitNext /\ Apart']_allVars

-----------------------------------------------------------------------------
\* When doneTiming goes on to delete what the waits use, every wait that was in
\* progress when it released them is over (timing.cpp:458 "make sure all currently
\* active waits are finished"), but for a thread that sets noOneWaiting late. It is so
\* when the thread exits between two frames, whichever thread it is.
ActiveWaitsFinished ==
  exiting # NoThread /\ pc[exiting] = "gone" /\ ~falseSignal => caught = {}
=============================================================================
