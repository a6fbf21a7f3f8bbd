--------------------------- MODULE MCCallbackTracing --------------------------
(* Instances of CallbackTracing for TLC: the two callbacks of the example.     *)
EXTENDS CallbackTracing, TLC

CONSTANTS A, B

Symmetry == Permutations(CallbackNames)
===============================================================================
