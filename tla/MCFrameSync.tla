---------------------------- MODULE MCFrameSync ----------------------------
(***************************************************************************)
(* FrameSync for TLC: the threads are model values.                        *)
(***************************************************************************)
EXTENDS FrameSync

CONSTANTS s1, s2, s3, r, k, stuck, none
=============================================================================
