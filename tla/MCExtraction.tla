---------------------------- MODULE MCExtraction -----------------------------
(***************************************************************************)
(* The extraction queue on small instances, for TLC. Versions, workers and *)
(* pages are interchangeable: no definition tells one from another.        *)
(***************************************************************************)
EXTENDS Extraction, TLC

ExtractionSymmetry ==
  Permutations(Versions) \cup Permutations(Workers) \cup Permutations(Pages)
=============================================================================
