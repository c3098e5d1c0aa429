------------------------------ MODULE Handover ------------------------------
(***************************************************************************)
(* The two hand-overs to another thread between the program and its files: *)
(* the encoder thread (UseEncoderThread, video.cpp:77) and the frame ring  *)
(* of the DirectShow writer (video.cpp:66). They share nothing, so that an *)
(* execution follows one of them.                                          *)
(***************************************************************************)
EXTENDS MTProxy, DShowRing

VARIABLE threaded \* it is the encoder thread

handoverVars == <<threaded, vars, ringVars>>

HandoverInit == threaded \in BOOLEAN /\ Init /\ RingInit

Threaded(A) == threaded /\ A /\ UNCHANGED <<threaded, ringVars>>
Ring(A) == ~threaded /\ A /\ UNCHANGED <<threaded, vars>>

HandoverNext == Threaded(Next) \/ Ring(RingNext)

\* The fairness of FairSpec and of RingFairSpec.
HandoverSpec ==
  /\ HandoverInit /\ [][HandoverNext]_handoverVars
  /\ WF_handoverVars(Threaded(QueueRunner)) /\ WF_handoverVars(Threaded(EndDelete))
  /\ WF_handoverVars(Ring(App)) /\ WF_handoverVars(Ring(FillBuffer)) /\ WF_handoverVars(Ring(DeliverSample))
=============================================================================
