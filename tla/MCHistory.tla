----------------------------- MODULE MCHistory -----------------------------
(***************************************************************************)
(* An instance of History for TLC: two channels and two deposits, alike.   *)
(***************************************************************************)
EXTENDS History

CONSTANTS one, two, first, second

MCChan == {one, two}
MCSwap == {first, second}
Symmetry == Permutations(MCChan) \cup Permutations(MCSwap)
=============================================================================
