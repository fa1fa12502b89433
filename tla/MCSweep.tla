------------------------------- MODULE MCSweep -------------------------------
(***************************************************************************)
(* An instance of Sweep for TLC: two addresses, two coins, two fee targets.*)
(***************************************************************************)
EXTENDS Sweep, TLC

CONSTANTS meant, other, early, late

MCAddr == {meant, other}
MCCoin == {early, late}
MCTargets == {2, 6}
Symmetry == Permutations(MCAddr) \cup Permutations(MCCoin)
=============================================================================
