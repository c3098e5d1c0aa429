----------------------------- MODULE EncoderFifo -----------------------------
(***************************************************************************)
(* What a hand-over to another thread promises its caller in kkapture:     *)
(* everything accepted is delivered once and in order, at most Capacity    *)
(* items wait, and only what is still waiting when the hand-over is closed *)
(* may be thrown away. The encoder thread (MTProxy) and the DirectShow     *)
(* source pin (DShowRing) implement it.                                    *)
(***************************************************************************)
EXTENDS Naturals, Sequences

CONSTANTS
  Items,     \* what is handed over
  Capacity   \* how many accepted items may be undelivered

VARIABLES
  pending,   \* accepted, not yet delivered
  delivered, \* delivered so far
  phase      \* "open", "closing", "discarding" or "closed"

fifoVars == <<pending, delivered, phase>>

Init == pending = <<>> /\ delivered = <<>> /\ phase = "open"

Accept(x) ==
  /\ phase = "open"
  /\ Len(pending) < Capacity
  /\ pending' = Append(pending, x)
  /\ UNCHANGED <<delivered, phase>>

Deliver ==
  /\ phase \in {"open", "closing"}
  /\ pending # <<>>
  /\ pending' = Tail(pending)
  /\ delivered' = Append(delivered, Head(pending))
  /\ UNCHANGED phase

Close ==
  /\ phase = "open"
  /\ phase' = "closing"
  /\ UNCHANGED <<pending, delivered>>

\* Once something has been thrown away nothing is delivered any more.
Discard ==
  /\ phase \in {"closing", "discarding"}
  /\ \E n \in 1..Len(pending) : pending' = SubSeq(pending, n + 1, Len(pending))
  /\ phase' = "discarding"
  /\ UNCHANGED delivered

Finish ==
  /\ phase \in {"closing", "discarding"}
  /\ pending = <<>>
  /\ phase' = "closed"
  /\ UNCHANGED <<pending, delivered>>

Next == (\E x \in Items : Accept(x)) \/ Deliver \/ Close \/ Discard \/ Finish

\* Accepted items do not wait for ever, and closing comes to an end.
Spec ==
  /\ Init /\ [][Next]_fifoVars
  /\ WF_fifoVars(Deliver \/ Discard) /\ WF_fifoVars(Finish)
=============================================================================
