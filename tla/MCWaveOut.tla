----------------------------- MODULE MCWaveOut -----------------------------
(***************************************************************************)
(* WaveOut for TLC: a plain buffer and one that loops on itself.           *)
(***************************************************************************)
EXTENDS WaveOut

CONSTANTS plain, loop, none

Lengths == [h \in Headers |-> IF h = plain THEN 3 ELSE 2]
=============================================================================
