------------------------------ MODULE MCRealtime ------------------------------
(***************************************************************************)
(* Realtime events on small instances, for TLC.                            *)
(***************************************************************************)
EXTENDS Realtime, TLC

ReplicaSymmetry == Permutations(Replicas)
=============================================================================
