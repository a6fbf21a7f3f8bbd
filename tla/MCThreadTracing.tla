---------------------------- MODULE MCThreadTracing ---------------------------
(* Instances of ThreadTracing for TLC: the two starter tasks of the example.   *)
EXTENDS ThreadTracing, TLC

CONSTANTS A, B

Symmetry == Permutations(TaskNames)
===============================================================================
