---------------------------- MODULE MCEnrichment ----------------------------
(***************************************************************************)
(* Small instances of Enrichment for TLC: part 2 has a near namesake, part *)
(* 1 only answers to its own number.  One day stands for the seven of the  *)
(* cache and of the price window.                                          *)
(***************************************************************************)
EXTENDS Enrichment, TLC

SimilarParts == [m \in Mpns |-> IF m = 2 THEN Mpns ELSE {m}]

RunSymmetry == Permutations(Runs)
=============================================================================
