----------------------------- MODULE MCHierarchy -----------------------------
(* Small instances of the hierarchy for TLC.                                *)
EXTENDS Hierarchy, TLC

Symmetry == Permutations(Ids) \cup Permutations(Versions) \cup Permutations(Namespaces)
=============================================================================
