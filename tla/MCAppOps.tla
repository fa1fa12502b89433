----------------------------- MODULE MCAppOps -----------------------------
(* An instance of AppOps for TLC: calls of the window on two goroutines.   *)
EXTENDS AppOps, TLC

CONSTANTS first, second

MCCallers == {first, second}
Symmetry == Permutations(MCCallers)
=============================================================================
