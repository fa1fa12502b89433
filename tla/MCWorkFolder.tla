---------------------------- MODULE MCWorkFolder ----------------------------
(***************************************************************************)
(* Two processes on one work folder: the app and its next copy, or the app *)
(* and one the user starts beside it.                                      *)
(***************************************************************************)
EXTENDS WorkFolder

CONSTANTS now, next, dated

MCProcs == {now, next}
MCDated == {dated}
=============================================================================
