------------------------------ MODULE MCMerge -------------------------------
(***************************************************************************)
(* Merge for TLC.                                                          *)
(***************************************************************************)
EXTENDS MergeInv, TLC

Symmetry == Permutations(Keys) \union Permutations(Values)
=============================================================================
