-------------------------- MODULE MCSyncLifecycle --------------------------
(***************************************************************************)
(* Instances of SyncLifecycle for TLC.  The backup's wallet has derived    *)
(* one address.  One payment goes to it, one to each of the next two.      *)
(***************************************************************************)
EXTENDS SyncLifecycle

CONSTANTS atHome, first, second

MCPayments == {atHome, first, second}
MCAddress == [p \in MCPayments |-> CASE p = atHome -> 0 [] p = first -> 1 [] OTHER -> 2]
MCBlock == [p \in MCPayments |-> CASE p = atHome -> 2 [] p = first -> 1 [] OTHER -> 2]

(***************************************************************************)
(* For liveness: a start may be killed, or the wallet may be unable to use *)
(* the sync state written, but not both: that a start wrote it is known in *)
(* its own process only (c.skippedTo), and the next one would wait.        *)
(***************************************************************************)
LiveSpec == Init /\ [][Next /\ (kills' = 0 \/ ~stuck')]_vars /\ Fairness
=============================================================================
