---------------------------- MODULE MCWalkState -----------------------------
(***************************************************************************)
(* An instance of WalkState for TLC: a channel that is open, and for the   *)
(* lists of channels a second one that is pending at first.                *)
(***************************************************************************)
EXTENDS WalkState

MCChan == {"a", "b"}
MCFund == [a |-> "fundA", b |-> "fundB"]
MCPeerClose == [a |-> "peerA", b |-> "peerB"]
MCOtherClose == [a |-> "otherA", b |-> "otherB"]
MCSweep == [a |-> "sweepA", b |-> "sweepB"]
MCHint == [a |-> 1, b |-> 2]
MCPending == {"b"}
MCMineable == {"fundB", "peerA", "otherA", "sweepA"}
=============================================================================
