---------------------------- MODULE MCApplyObject ----------------------------
(* Instances of ApplyObject for TLC. *)
EXTENDS ApplyObject, TLC

\* The fields that are not sticky are alike, and so are the values.
Symmetry == Permutations(OperatorFields \ Sticky) \cup Permutations(Values)
=============================================================================
