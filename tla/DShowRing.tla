------------------------------ MODULE DShowRing ------------------------------
(***************************************************************************)
(* The frame ring of the DirectShow writer: class VideoSourcePin of        *)
(* src/kkapturedll/avi_videoencoder_dshow.cpp.                             *)
(*                                                                         *)
(* The capturing thread pushes frames; the streaming thread of the filter  *)
(* graph takes them. There is no lock: each side owns one index, reads the *)
(* other's, and waits on an auto-reset event when it finds no room or no   *)
(* frame. The streaming thread advances its index before it copies the     *)
(* frame out of the slot, so one slot has to stay unused behind it.        *)
(*                                                                         *)
(* Frames are numbered 1, 2, ...; 0 is a slot that was never filled or is  *)
(* being written.                                                          *)
(***************************************************************************)
EXTENDS Integers, Sequences

CONSTANTS
  BufferCount,   \* number of slots (4 in the code)
  MaxFrames      \* bound on the number of frames pushed

ASSUME RingAssumption ==
  /\ BufferCount \in Nat \ {0, 1, 2}
  /\ MaxFrames \in Nat \ {0}

Slots == 0..BufferCount-1

VARIABLES
  Buffers,            \* the frame in each slot
  BufferReadPtr, BufferWritePtr,
  BufferReadChange, BufferWriteChange,   \* auto-reset events
  Terminating,
  app,                \* where the capturing thread is
  pushed,             \* history: number of frames whose push has begun
  stream,             \* where the streaming thread is
  source,             \* the slot FillBuffer copies from
  delivered           \* history: the frames passed downstream

ring == <<Buffers, BufferReadPtr, BufferWritePtr>>
events == <<BufferReadChange, BufferWriteChange>>
appVars == <<app, pushed>>
streamVars == <<stream, source, delivered>>
ringVars == <<ring, events, Terminating, appVars, streamVars>>

AppPoints == {"idle", "look", "wait", "copy", "advance", "signal",
              "wake", "stop", "stopped"}
StreamPoints == {"enter", "look", "wait", "advance", "signal", "copy", "deliver",
                 "leave", "ended"}

RingTypeOK ==
  /\ Buffers \in [Slots -> 0..MaxFrames]
  /\ BufferReadPtr \in Slots /\ BufferWritePtr \in Slots
  /\ BufferReadChange \in BOOLEAN /\ BufferWriteChange \in BOOLEAN
  /\ Terminating \in BOOLEAN
  /\ app \in AppPoints /\ pushed \in 0..MaxFrames
  /\ stream \in StreamPoints /\ source \in Slots
  /\ delivered \in Seq(0..MaxFrames)

RingInit ==
  /\ Buffers = [s \in Slots |-> 0]
  /\ BufferReadPtr = 0 /\ BufferWritePtr = 0
  /\ BufferReadChange = FALSE /\ BufferWriteChange = FALSE
  /\ Terminating = FALSE
  /\ app = "idle" /\ pushed = 0
  /\ stream = "enter" /\ source = 0 /\ delivered = <<>>

Succ(s) == (s + 1) % BufferCount
Pred(s) == (s + BufferCount - 1) % BufferCount

-----------------------------------------------------------------------------
(* PushData, on the capturing thread. *)

PushData ==
  /\ app = "idle" /\ pushed < MaxFrames
  /\ app' = "look"
  /\ pushed' = pushed + 1
  /\ UNCHANGED <<ring, events, Terminating, streamVars>>

\* Mutant: the slot behind the read index is not kept free.
LookForRoomNoGap ==
  /\ app = "look"
  /\ app' = "copy"
  /\ Buffers' = [Buffers EXCEPT ![BufferWritePtr] = 0]
  /\ UNCHANGED <<BufferReadPtr, BufferWritePtr, events, Terminating, pushed, streamVars>>

\* ReadPrev != BufferWritePtr: memcpy into the slot begins; else wait.
LookForRoom ==
  /\ app = "look"
  /\ \/ /\ Pred(BufferReadPtr) # BufferWritePtr
        /\ app' = "copy"
        /\ Buffers' = [Buffers EXCEPT ![BufferWritePtr] = 0]
     \/ /\ Pred(BufferReadPtr) = BufferWritePtr
        /\ app' = "wait"
        /\ UNCHANGED Buffers
  /\ UNCHANGED <<BufferReadPtr, BufferWritePtr, events, Terminating, pushed, streamVars>>

WaitForRoom ==
  /\ app = "wait" /\ BufferReadChange
  /\ app' = "look"
  /\ BufferReadChange' = FALSE
  /\ UNCHANGED <<ring, BufferWriteChange, Terminating, pushed, streamVars>>

CopyIn ==
  /\ app = "copy"
  /\ app' = "advance"
  /\ Buffers' = [Buffers EXCEPT ![BufferWritePtr] = pushed]
  /\ UNCHANGED <<BufferReadPtr, BufferWritePtr, events, Terminating, pushed, streamVars>>

AdvanceWrite ==
  /\ app = "advance"
  /\ app' = "signal"
  /\ BufferWritePtr' = Succ(BufferWritePtr)
  /\ UNCHANGED <<Buffers, BufferReadPtr, events, Terminating, pushed, streamVars>>

SignalWrite ==
  /\ app = "signal"
  /\ app' = "idle"
  /\ BufferWriteChange' = TRUE
  /\ UNCHANGED <<ring, BufferReadChange, Terminating, pushed, streamVars>>

\* Terminate, called by Cleanup between two frames ...
SetTerminating ==
  /\ app = "idle"
  /\ app' = "wake"
  /\ Terminating' = TRUE
  /\ UNCHANGED <<ring, events, pushed, streamVars>>

\* Mutant: Terminate does not wake the streaming thread.
SignalTerminationForgotten ==
  /\ app = "wake"
  /\ app' = "stop"
  /\ UNCHANGED <<ring, events, Terminating, pushed, streamVars>>

SignalTermination ==
  /\ app = "wake"
  /\ app' = "stop"
  /\ BufferWriteChange' = TRUE
  /\ UNCHANGED <<ring, BufferReadChange, Terminating, pushed, streamVars>>

\* ... which then stops the graph: that waits for the streaming thread.
StopGraph ==
  /\ app = "stop" /\ stream = "ended"
  /\ app' = "stopped"
  /\ UNCHANGED <<ring, events, Terminating, pushed, streamVars>>

-----------------------------------------------------------------------------
(* FillBuffer, called again and again by the streaming thread. *)

TestTerminating ==
  /\ stream = "enter"
  /\ stream' = IF Terminating THEN "leave" ELSE "look"
  /\ UNCHANGED <<ring, events, Terminating, appVars, source, delivered>>

\* BufferReadPtr != BufferWritePtr: the slot is taken.
LookForFrame ==
  /\ stream = "look"
  /\ \/ /\ BufferReadPtr # BufferWritePtr
        /\ source' = BufferReadPtr
        /\ stream' = "advance"
     \/ /\ BufferReadPtr = BufferWritePtr
        /\ stream' = "wait"
        /\ UNCHANGED source
  /\ UNCHANGED <<ring, events, Terminating, appVars, delivered>>

WaitForFrame ==
  /\ stream = "wait" /\ BufferWriteChange
  /\ stream' = "enter"
  /\ BufferWriteChange' = FALSE
  /\ UNCHANGED <<ring, BufferReadChange, Terminating, appVars, source, delivered>>

\* Mutant: a frame is taken twice when the reader does not advance.
AdvanceReadForgotten ==
  /\ stream = "advance"
  /\ stream' = "signal"
  /\ UNCHANGED <<ring, events, Terminating, appVars, source, delivered>>

AdvanceRead ==
  /\ stream = "advance"
  /\ stream' = "signal"
  /\ BufferReadPtr' = Succ(BufferReadPtr)
  /\ UNCHANGED <<Buffers, BufferWritePtr, events, Terminating, appVars, source, delivered>>

\* Mutant: the producer is not told that there is room.
SignalReadForgotten ==
  /\ stream = "signal"
  /\ stream' = "copy"
  /\ UNCHANGED <<ring, events, Terminating, appVars, source, delivered>>

SignalRead ==
  /\ stream = "signal"
  /\ stream' = "copy"
  /\ BufferReadChange' = TRUE
  /\ UNCHANGED <<ring, BufferWriteChange, Terminating, appVars, source, delivered>>

\* memcpy out of the slot, then the sample goes downstream.
CopyOut ==
  /\ stream = "copy"
  /\ stream' = "deliver"
  /\ delivered' = Append(delivered, Buffers[source])
  /\ UNCHANGED <<ring, events, Terminating, appVars, source>>

DeliverSample ==
  /\ stream = "deliver"
  /\ stream' = "enter"
  /\ UNCHANGED <<ring, events, Terminating, appVars, source, delivered>>

\* S_FALSE ends the stream, whatever the ring still holds.
LeaveStream ==
  /\ stream = "leave"
  /\ stream' = "ended"
  /\ BufferWriteChange' = TRUE
  /\ UNCHANGED <<ring, BufferReadChange, Terminating, appVars, source, delivered>>

-----------------------------------------------------------------------------
App ==
  \/ LookForRoom \/ WaitForRoom \/ CopyIn \/ AdvanceWrite \/ SignalWrite
  \/ SignalTermination \/ StopGraph

FillBuffer ==
  \/ TestTerminating \/ LookForFrame \/ WaitForFrame \/ AdvanceRead \/ SignalRead
  \/ CopyOut \/ LeaveStream

RingNext == PushData \/ SetTerminating \/ App \/ FillBuffer \/ DeliverSample

RingSpec == RingInit /\ [][RingNext]_ringVars

\* Both threads are scheduled and the graph downstream takes every sample;
\* nothing obliges the program to render another frame or to stop.
RingFairSpec == RingSpec /\ WF_ringVars(App) /\ WF_ringVars(FillBuffer) /\ WF_ringVars(DeliverSample)

-----------------------------------------------------------------------------
(* Properties. *)

\* What the streaming thread copies is the next frame, whole: the slot it has
\* already given back is not written before the copy is over, although nothing
\* but the distance of the two indices says so (lines 188, 228).
FrameIntact ==
  stream \in {"advance", "signal", "copy"} => Buffers[source] = Len(delivered) + 1

\* The indices alone say which frames wait: from the read index up to the write
\* index the slots hold the frames not yet taken, in order (lines 185, 230).
Waiting == (BufferWritePtr + BufferCount - BufferReadPtr) % BufferCount
Taken == IF stream \in {"signal", "copy"} THEN Len(delivered) + 1 ELSE Len(delivered)

SlotsHoldFrames ==
  \A i \in 0..Waiting-1 : Buffers[(BufferReadPtr + i) % BufferCount] = Taken + i + 1

RingIsSound == RingTypeOK /\ SlotsHoldFrames

\* Nobody sleeps through a change: a push that has begun ends, and so does the
\* wait for the streaming thread once Terminate was called (lines 192, 238, 246).
PushEnds == app = "look" ~> app = "idle"
StopEnds == Terminating ~> app = "stopped"
RingCallsEnd == PushEnds /\ StopEnds

\* To its two sides the ring is a FIFO of frames; those still in it when the
\* stream is terminated are thrown away.
RingFifo == INSTANCE EncoderFifo WITH
  Items <- 1..MaxFrames,
  Capacity <- BufferCount,
  pending <-
    (IF stream \in {"signal", "copy"} THEN <<Buffers[source]>> ELSE <<>>)
      \o (IF app = "stopped" THEN <<>>
          ELSE [i \in 1..Waiting |-> Buffers[(BufferReadPtr + i - 1) % BufferCount]]),
  delivered <- delivered,
  phase <- CASE ~Terminating -> "open"
             [] Terminating /\ (app # "stopped" \/ Waiting = 0) -> "closing"
             [] app = "stopped" /\ Waiting # 0 -> "discarding"

RingImplementsFifo == RingFifo!Init /\ [][RingFifo!Next]_RingFifo!fifoVars
=============================================================================
