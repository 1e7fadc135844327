------------------------------ MODULE MCMatters ------------------------------
(***************************************************************************)
(* The life of a matter on small instances, for TLC. Matters, work and     *)
(* requests are interchangeable: no definition tells one from another.     *)
(***************************************************************************)
EXTENDS Matters, TLC

MatterSymmetry == Permutations(Matters) \cup Permutations(Work) \cup Permutations(Requests)
=============================================================================
