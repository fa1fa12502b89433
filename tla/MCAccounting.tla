---------------------------- MODULE MCAccounting ----------------------------
(***************************************************************************)
(* An instance of Accounting for TLC: two channels, which are alike.       *)
(***************************************************************************)
EXTENDS Accounting

CONSTANTS one, two

MCChan == {one, two}
Symmetry == Permutations(MCChan)
=============================================================================
