-------------------------- MODULE MCIndexGeneration --------------------------
(* IndexGeneration with interchangeable files and handles.                 *)
EXTENDS IndexGeneration, TLC

CONSTANTS n1, n2, a1, a2

MCConfigs == {[ns |-> n1, abi |-> a1], [ns |-> n2, abi |-> a1], [ns |-> n1, abi |-> a2]}
MCSymmetry == Permutations(Files) \cup Permutations(Handles)
=============================================================================
