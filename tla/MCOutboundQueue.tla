--------------------------- MODULE MCOutboundQueue ---------------------------
(***************************************************************************)
(* The outbound queue on small instances, for TLC. Workers are never       *)
(* symmetric (one of them may stall); jobs are interchangeable, and the    *)
(* runs without liveness say so.                                           *)
(***************************************************************************)
EXTENDS OutboundQueue, TLC

JobSymmetry == Permutations(Jobs)
=============================================================================
