---------------------------- MODULE MCChainWalk ----------------------------
(***************************************************************************)
(* An instance of ChainWalk for TLC. A chain has the transactions of one   *)
(* of two groups. Money: a channel, its close by the peer, a second-level  *)
(* transaction and the sweeps, and a second channel whose funding output   *)
(* carries another script. Gap: plain payments to addresses of two         *)
(* branches and one to an address the wallet has.                          *)
(***************************************************************************)
EXTENDS ChainWalk

MCBranch == {"taproot", "nested"}
MCGapBranch == {"taproot"}
MCCounter == [taproot |-> 0, nested |-> 0]
MCOwn == {<<"own", 1>>}

MoneyTxs == {"fund", "close", "htlc", "sweep", "collect"}
GapTxs == {"near", "next", "far", "mine"}

\* Block 1 is the one before the floor: it has no filter, and a channel may be
\* funded and closed in it.
MCWorlds == {[t \in MoneyTxs |-> 0..5], [t \in GapTxs |-> {0} \cup 2..5]}
MCOrder == <<"fund", "close", "htlc", "sweep", "collect", "near", "next", "far", "mine">>

MCOuts ==
  [fund    |-> <<<<"channel", 1>>, <<"other", 1>>>>,
   close   |-> <<<<"tous", 1>>, <<"other", 2>>>>,
   htlc    |-> <<<<"other", 3>>>>,
   sweep   |-> <<<<"taproot", 5>>>>,
   collect |-> <<<<"nested", 1>>>>,
   near    |-> <<<<"taproot", 1>>>>,
   next    |-> <<<<"taproot", 2>>, <<"nested", 2>>>>,
   far     |-> <<<<"taproot", 3>>>>,
   mine    |-> <<<<"own", 1>>, <<"taproot", 4>>>>]

MCIns ==
  [fund    |-> << >>,
   close   |-> << <<"fund", 1>> >>,
   htlc    |-> << <<"close", 2>> >>,
   sweep   |-> << <<"htlc", 1>> >>,
   collect |-> << <<"close", 1>> >>]
  @@ [t \in GapTxs |-> << >>]

MCChan == {"peer", "mixed"}
MCFunding == [peer |-> <<"fund", 1>>, mixed |-> <<"fund", 2>>]
MCFundScript == [peer |-> <<"channel", 1>>, mixed |-> <<"channel", 2>>]
MCToUs == [peer |-> <<"tous", 1>>, mixed |-> <<"nil", 0>>]
MCHint == [peer |-> 1, mixed |-> 0]
=============================================================================
