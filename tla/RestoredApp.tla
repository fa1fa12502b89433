---------------------------- MODULE RestoredApp ----------------------------
(***************************************************************************)
(* What restoring a backup promises, whatever goes wrong on the way: the   *)
(* backup's folder is either no restored app at all or one whole restore,  *)
(* it never turns from one restore into another in place, and a restore    *)
(* that was ever in place is there to the end, in its place or moved aside *)
(* (core/restore.go, head of the file).                                    *)
(***************************************************************************)
EXTENDS Integers

CONSTANT MaxRestores

Restores == 1..MaxRestores

VARIABLES
  active,  \* the restore the folder holds, 0 when it is no restored app
  kept     \* restores moved aside

appVars == <<active, kept>>

AppInit == active \in {0} \cup Restores /\ kept = {}

SetAside ==
  /\ active # 0
  /\ kept' = kept \cup {active} /\ active' = 0

Place(r) ==
  /\ active = 0 /\ r \notin kept
  /\ active' = r /\ UNCHANGED kept

AppNext == SetAside \/ \E r \in Restores : Place(r)

AppSpec == AppInit /\ [][AppNext]_appVars
=============================================================================
