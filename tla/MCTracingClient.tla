---------------------------- MODULE MCTracingClient ---------------------------
(* Instances of TracingClient for TLC.                                         *)
EXTENDS TracingClient, TLC

CONSTANTS t1, t2, t3

Symmetry == Permutations(Threads)
===============================================================================
