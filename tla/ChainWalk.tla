----------------------------- MODULE ChainWalk -----------------------------
(***************************************************************************)
(* The walk over the node's compact filters that checks the channels and   *)
(* looks for payments to addresses the wallet has not derived:             *)
(* core/chaincheck.go (chainWalk) and core/addrscan.go (addressWatch).     *)
(*                                                                         *)
(* One behaviour is one search, as findLaterFunds runs it (the walk, then  *)
(* as many passes over the rest as it takes), followed by any number of    *)
(* channel checks that carry the walk on (CheckChannelsOnChain).  The      *)
(* chain is fixed but for its tip; a transaction is seen once its block    *)
(* exists.  A search that fails starts from nothing, as this one does.     *)
(*                                                                         *)
(* External: the chain and its filters.  A BIP 158 filter matches every    *)
(* block with an output carrying a script or an input spending one, and    *)
(* now and then a block that has neither.                                  *)
(***************************************************************************)
EXTENDS Integers, Sequences, SequencesExt, FiniteSetsExt, TLC

CONSTANTS
  Order,      \* the transactions that may be mined, parents first
  Outs,       \* Outs[t]: the scripts of t's outputs, each <<kind, number>>
  Ins,        \* Ins[t]: the outpoints <<transaction, output>> t spends
  Worlds,     \* bound: what a chain may be made of; w[t] has the blocks t may be in
  MaxTip,     \* bound: the last block of the chain
  StartTip,   \* the tip when the search begins
  Chan,       \* the backup's channels
  Funding,    \* Funding[c]: the outpoint that funds c
  FundScript, \* FundScript[c]: the script the channel's keys make
  ToUsScript, \* ToUsScript[c]: where a close by the peer pays this app
  Hint,       \* Hint[c]: fundingHeightHint
  Branch,     \* the wallet's branches; an address is <<branch, index>>
  GapBranch,  \* those matched against the filters
  Counter,    \* Counter[b]: first index the wallet has not derived
  Own,        \* scripts the wallet has; empty when they could not be read
  Gap,        \* AddressGap
  Depth,      \* addressDepth
  From,       \* walkStart: first block looked at for addresses
  Floor,      \* first block whose filter the node can fetch
  MaxFalse    \* bound: false positives of the filters

Window == 2 * Gap
FollowDepth == 2
None == "none"

Tx == ToSet(Order)
OutPoints(t) == {<<t, n>> : n \in 1..Len(Outs[t])}
ScriptOf(op) == Outs[op[1]][op[2]]
Spends(t, op) == op \in ToSet(Ins[t])

ASSUME ParametersAssumption ==
  /\ Gap \in Nat \ {0} /\ Depth \in Nat \ {0}
  /\ Floor \in Nat /\ From \in Nat \ {0} /\ Floor <= From /\ From <= StartTip
  /\ StartTip \in Nat /\ MaxTip \in Nat /\ StartTip <= MaxTip
  /\ MaxFalse \in Nat
  /\ GapBranch \subseteq Branch /\ Counter \in [Branch -> Nat]
  /\ Hint \in [Chan -> Nat]
  /\ \A w \in Worlds : DOMAIN w \subseteq Tx

\* What transactions are: a script is a pair, an input spends an output of an
\* earlier transaction, and no two transactions are the same.
ASSUME TransactionsAssumption ==
  /\ None \notin Tx
  /\ Order \in Seq(Tx) /\ \A i, j \in DOMAIN Order : Order[i] = Order[j] => i = j
  /\ \A t \in Tx :
       /\ Outs[t] \in Seq(ToSet(Outs[t])) /\ Ins[t] \in Seq(ToSet(Ins[t]))
       /\ \A s \in ToSet(Outs[t]) : s = <<s[1], s[2]>> /\ s[2] \in Nat
       /\ \A op \in ToSet(Ins[t]) : op[1] \in Tx /\ op \in OutPoints(op[1])
  /\ \A i, j \in DOMAIN Order : \A op \in ToSet(Ins[Order[j]]) : op[1] = Order[i] => i < j

\* A channel is funded by a transaction; what spends its funding output, a
\* commitment or a cooperative close, has no other input and funds no channel.
ASSUME ChannelsAssumption ==
  \A c \in Chan :
    /\ Funding[c] = <<Funding[c][1], Funding[c][2]>>
    /\ Funding[c][1] \in Tx /\ Funding[c][2] \in Nat
    /\ \A t \in Tx : Spends(t, Funding[c]) =>
         ToSet(Ins[t]) = {Funding[c]} /\ \A d \in Chan : Funding[d][1] # t

VARIABLES
  minedAt,    \* the chain: each transaction's block, 0 when it has none
  tip,        \* the chain: BestBlock
  found,      \* fundingState.found
  spentBy,    \* fundingState.spent: the closing transaction
  toUsSpent,  \* fundingState.toUsSpent
  known,      \* addrBranch.knownTo
  watched,    \* addrBranch.watchedTo
  paidTo,     \* addrBranch.paidTo
  match,      \* addressWatch.scripts: <<branch, index, until>>
  added,      \* addressWatch.added: <<branch, index, joined at>>
  hits,       \* addressWatch.hits: the outputs
  followed,   \* addressWatch.followed: outpoint -> depth
  ownTxs,     \* addressWatch.ownTxs
  pass,       \* which run of a walk this is
  h,          \* run's h
  target,     \* run's tip
  nextBlock,  \* chainWalk.next of the walk over the channels
  falses      \* how often a filter matched for nothing

chain  == <<minedAt, tip>>
states == <<found, spentBy, toUsSpent>>
watch  == <<known, watched, paidTo, match, added, hits, followed, ownTxs>>
walk   == <<pass, h, target, nextBlock>>
vars   == <<chain, states, watch, walk, falses>>

Mined(t, from, to) == minedAt[t] >= from /\ minedAt[t] <= to /\ minedAt[t] > 0
InBlock(at) == {t \in Tx : minedAt[t] = at}

\* The chains of w, a transaction not in w having no block.
Placements(w) ==
  {[t \in Tx |-> IF t \in DOMAIN w THEN p[t] ELSE 0] :
     p \in {q \in [DOMAIN w -> 0..MaxTip] : \A t \in DOMAIN w : q[t] \in w[t]}}

\* Blocks hold parents before children; a funding confirms no earlier than
\* its hint, which is the block it confirmed in or the one it was sent at.
Chains ==
  {m \in UNION {Placements(w) : w \in Worlds} :
     /\ \A t \in Tx : \A op \in ToSet(Ins[t]) :
          m[t] > 0 => m[op[1]] > 0 /\ m[op[1]] <= m[t]
     /\ \A t, u \in Tx :
          (t # u /\ ToSet(Ins[t]) \cap ToSet(Ins[u]) # {}) => m[t] = 0 \/ m[u] = 0
     /\ \A c \in Chan : m[Funding[c][1]] = 0 \/ Hint[c] <= m[Funding[c][1]]}

-----------------------------------------------------------------------------
(* The channels: applyBlock and verdict of chaincheck.go.                  *)

\* newChainWalk sets a channel aside when there is no height to start from.
Usable(c) == Hint[c] # 0 \/ Floor # 0
States == {c \in Chan : Usable(c)}
Start(c) == IF Hint[c] < Floor THEN Floor ELSE Hint[c]

SpenderIn(c, at) ==
  LET S == {t \in InBlock(at) : Spends(t, Funding[c])}
  IN  IF S = {} THEN None ELSE CHOOSE t \in S : TRUE

\* The first output of the close that pays this app.
ToUs(c, close) ==
  LET S == IF close = None THEN {}
           ELSE {op \in OutPoints(close) : ScriptOf(op) = ToUsScript[c]}
  IN  {op \in S : \A q \in S : op[2] <= q[2]}

ApplyToChannels(at) ==
  /\ found' = found \cup {c \in States : minedAt[Funding[c][1]] = at}
  /\ spentBy' = [c \in Chan |-> IF c \in States /\ spentBy[c] = None
                                THEN SpenderIn(c, at) ELSE spentBy[c]]
  /\ toUsSpent' = toUsSpent \cup
       {c \in States : \E op \in ToUs(c, spentBy'[c]), t \in InBlock(at) : Spends(t, op)}

RightScript(c) ==
  /\ Funding[c][2] <= Len(Outs[Funding[c][1]])
  /\ ScriptOf(Funding[c]) = FundScript[c]

ScriptOK(c) == c \in found /\ RightScript(c)

\* Mutant: a funding output that was seen is taken for the channel's.
VerdictWithoutScript(c) ==
  IF ~Usable(c) THEN "unverified"
  ELSE IF spentBy[c] # None THEN "spent"
  ELSE IF c \in found THEN "open" ELSE "unverified"

Verdict(c) ==
  IF ~Usable(c) THEN "unverified"
  ELSE IF spentBy[c] # None THEN "spent"
  ELSE IF ScriptOK(c) THEN "open" ELSE "unverified"

PayoutKnown(c) == ToUs(c, spentBy[c]) # {}
Collects(c) == PayoutKnown(c) /\ c \notin toUsSpent

\* Mutant: a closed channel is no longer watched.
ChannelScriptsOpenOnly(at) ==
  {FundScript[c] : c \in {c \in States : Start(c) <= at /\ spentBy[c] = None}}

ChannelScripts(at) ==
  LET Reached == {c \in States : Start(c) <= at}
  IN  {FundScript[c] : c \in {c \in Reached : spentBy[c] = None}}
        \cup {ToUsScript[c] : c \in {c \in Reached : Collects(c)}}

-----------------------------------------------------------------------------
(* The addresses: addressWatch.                                            *)

IsKnown(s, k) == s[1] \in Branch /\ Counter[s[1]] <= s[2] /\ s[2] < k[s[1]]

\* follow: every one of the outputs that does not pay this wallet.
Follow(f, outs, depth) ==
  LET new == {op \in outs : ~IsKnown(ScriptOf(op), known)}
  IN  [op \in new \cup DOMAIN f |-> IF op \in new THEN depth ELSE f[op]]

\* Mutant: only the spender of the close itself is looked at.
FollowInputOnce(f, t, op) ==
  IF op \notin DOMAIN f THEN f ELSE [q \in DOMAIN f \ {op} |-> f[q]]

\* One input of t: a followed output is spent, go on with t's own outputs.
FollowInput(f, t, op) ==
  IF op \notin DOMAIN f THEN f
  ELSE LET rest == [q \in DOMAIN f \ {op} |-> f[q]]
       IN  IF f[op] + 1 < FollowDepth THEN Follow(rest, OutPoints(t), f[op] + 1) ELSE rest

FollowTx(f, t) == FoldLeft(LAMBDA e, op : FollowInput(e, t, op), f, Ins[t])

\* Parents come first in a block, so one round of the loop is all it takes.
FollowSpends(f, at) ==
  FoldLeft(LAMBDA e, t : IF minedAt[t] = at THEN FollowTx(e, t) ELSE e, f, Order)

\* extend and ensureKnown, while the walk is at block at.
Extend(r, b, upTo, at) ==
  LET new == {<<b, i>> : i \in r.watched[b]..(upTo - 1)}
  IN  [r EXCEPT !.known[b] = Max({@, upTo + Depth}),
                !.watched[b] = Max({@, upTo}),
                !.match = @ \cup {<<s[1], s[2], 0>> : s \in new},
                !.added = @ \cup {<<s[1], s[2], at>> : s \in new}]

\* Mutant: paidTo takes in the gap.
RecogniseTooFar(r, op, at) ==
  LET b == ScriptOf(op)[1]
      i == ScriptOf(op)[2]
      q == [r EXCEPT !.hits = @ \cup {op}, !.paidTo[b] = Max({@, i + 1 + Gap})]
  IN  IF b \in GapBranch THEN Extend(q, b, i + 1 + Gap, at)
      ELSE [q EXCEPT !.known[b] = Max({@, i + 1 + Depth})]

\* One output that pays a known address.
Recognise(r, op, at) ==
  LET b == ScriptOf(op)[1]
      i == ScriptOf(op)[2]
      q == [r EXCEPT !.hits = @ \cup {op}, !.paidTo[b] = Max({@, i + 1})]
  IN  IF b \in GapBranch THEN Extend(q, b, i + 1 + Gap, at)
      ELSE [q EXCEPT !.known[b] = Max({@, i + 1 + Depth})]

OutputsOf(t) == [n \in 1..Len(Outs[t]) |-> <<t, n>>]

RecogniseTx(r, t, at) ==
  FoldLeft(LAMBDA e, op : IF IsKnown(ScriptOf(op), e.known) THEN Recognise(e, op, at) ELSE e,
           r, OutputsOf(t))

RecogniseBlock(r, at) ==
  FoldLeft(LAMBDA e, t : IF minedAt[t] = at THEN RecogniseTx(e, t, at) ELSE e, r, Order)

Watching == pass \in {"main", "rest"}

ApplyToWatch(at) ==
  LET closes == {c \in States : spentBy[c] = None /\ spentBy'[c] # None}
      outs == UNION {OutPoints(spentBy'[c]) : c \in closes}
      seen == RecogniseBlock([known |-> known, watched |-> watched, paidTo |-> paidTo,
                              match |-> match, added |-> added, hits |-> hits], at)
  IN  /\ followed' = IF pass = "main" THEN FollowSpends(Follow(followed, outs, 0), at) ELSE followed
      /\ \E r \in {seen} :
           /\ known' = r.known /\ watched' = r.watched /\ paidTo' = r.paidTo
           /\ match' = r.match /\ added' = r.added /\ hits' = r.hits
      /\ ownTxs' = IF pass = "main"
                   THEN ownTxs \cup {t \in InBlock(at) : ToSet(Outs[t]) \cap Own # {}}
                   ELSE ownTxs

\* Mutant: the wallet's own scripts are left out of the filter match.
WatchScriptsWithoutOwn(at) ==
  IF at < From THEN {}
  ELSE {<<m[1], m[2]>> : m \in {m \in match : m[3] = 0 \/ at < m[3]}}
         \cup (IF pass = "main" THEN {ScriptOf(op) : op \in DOMAIN followed} ELSE {})

WatchScripts(at) ==
  IF at < From THEN {}
  ELSE {<<m[1], m[2]>> : m \in {m \in match : m[3] = 0 \/ at < m[3]}}
         \cup (IF pass = "main"
               THEN Own \cup {ScriptOf(op) : op \in DOMAIN followed} ELSE {})

-----------------------------------------------------------------------------
(* chainWalk.run: a pass over the chain.                                   *)

\* A pass over the rest has no channels, a channel check no addresses.
Scripts(at) ==
  (IF pass = "rest" THEN {} ELSE ChannelScripts(at))
    \cup (IF Watching THEN WatchScripts(at) ELSE {})

\* The lowest block above at where something starts being watched.
NextStart(p, at, end) ==
  LET starts == (IF p = "rest" THEN {} ELSE {Start(c) : c \in States})
                  \cup (IF p = "check" THEN {} ELSE {From})
  IN  Min({s \in starts : s > at} \cup {end + 1})

BlockScripts(at) ==
  UNION {ToSet(Outs[t]) \cup {ScriptOf(op) : op \in ToSet(Ins[t])} : t \in InBlock(at)}

\* Mutant: what has no filter is left out.
FirstBlockWithFilter(p, end) == NextStart(p, 0, end)

\* The block before the floor has no filter and is opened in any case.
FirstBlock(p, end) ==
  LET s == NextStart(p, 0, end)
  IN  IF Floor > 1 /\ s = Floor THEN Floor - 1 ELSE s

OpenBlock(at) ==
  /\ IF pass = "rest" THEN UNCHANGED states ELSE ApplyToChannels(at)
  /\ IF Watching THEN ApplyToWatch(at) ELSE UNCHANGED watch

OpenBelowFloor ==
  /\ pass \in {"main", "rest"} /\ h < Floor
  /\ OpenBlock(h)
  /\ h' = h + 1
  /\ UNCHANGED <<chain, pass, target, nextBlock, falses>>

\* Blocks found while scanning are part of the answer.
Advance == h' = h + 1 /\ target' = IF h = target THEN tip ELSE target

Looking == pass \in {"main", "rest", "check"} /\ h >= Floor /\ h <= target

MatchingBlock ==
  /\ Looking /\ Scripts(h) \cap BlockScripts(h) # {}
  /\ OpenBlock(h)
  /\ Advance
  /\ UNCHANGED <<chain, pass, nextBlock, falses>>

FalsePositive ==
  /\ Looking /\ Scripts(h) # {} /\ Scripts(h) \cap BlockScripts(h) = {}
  /\ falses < MaxFalse /\ falses' = falses + 1
  /\ OpenBlock(h)
  /\ Advance
  /\ UNCHANGED <<chain, pass, nextBlock>>

OtherBlock ==
  /\ Looking /\ Scripts(h) # {} /\ Scripts(h) \cap BlockScripts(h) = {}
  /\ Advance
  /\ UNCHANGED <<chain, states, watch, pass, nextBlock, falses>>

\* Nothing to look for here: go to where the next thing starts.
SkipBlocks ==
  /\ Looking /\ Scripts(h) = {}
  /\ h' = NextStart(pass, h, target)
  /\ UNCHANGED <<chain, states, watch, pass, target, nextBlock, falses>>

PassOver == h > target

-----------------------------------------------------------------------------
(* findLaterFunds and CheckChannelsOnChain.                                *)

NewWatch(b) == IF b \in GapBranch THEN Counter[b] + Window ELSE Counter[b]

\* newAddressWatch.
Init ==
  /\ minedAt \in Chains /\ tip = StartTip
  /\ found = {} /\ spentBy = [c \in Chan |-> None] /\ toUsSpent = {}
  /\ known = [b \in Branch |-> NewWatch(b) + Depth]
  /\ watched = [b \in Branch |-> NewWatch(b)]
  /\ paidTo = [b \in Branch |-> 0]
  /\ match = UNION {{<<b, i, 0>> : i \in Counter[b]..(NewWatch(b) - 1)} : b \in Branch}
  /\ added = {} /\ hits = {} /\ followed = <<>> /\ ownTxs = {}
  /\ pass = "main" /\ target = tip /\ h = FirstBlock("main", tip)
  /\ nextBlock = 0 /\ falses = 0

\* rest: what joined the match at a block was not looked for before it.
Left == {a \in added : a[3] > From}

\* Mutant: the pass starts with the list it was made from.
BeginRestAgain ==
  /\ Left # {}
  /\ pass' = "rest"
  /\ match' = Left /\ added' = added /\ followed' = <<>>
  /\ target' = tip /\ h' = FirstBlock("rest", tip)
  /\ UNCHANGED <<known, watched, paidTo, hits, ownTxs>>

BeginRest ==
  /\ Left # {}
  /\ pass' = "rest"
  /\ match' = Left /\ added' = {} /\ followed' = <<>>
  /\ target' = tip /\ h' = FirstBlock("rest", tip)
  /\ UNCHANGED <<known, watched, paidTo, hits, ownTxs>>

EndSearch ==
  /\ Left = {}
  /\ pass' = "searched"
  /\ UNCHANGED <<watch, h, target>>

MainEnds ==
  /\ pass = "main" /\ PassOver
  /\ nextBlock' = target + 1
  /\ (BeginRest \/ EndSearch)
  /\ UNCHANGED <<chain, states, falses>>

\* Mutant: one pass over the rest is thought to be enough.
RestEndsAtOnce ==
  /\ pass = "rest" /\ PassOver
  /\ pass' = "searched"
  /\ UNCHANGED <<chain, states, watch, h, target, nextBlock, falses>>

RestEnds ==
  /\ pass = "rest" /\ PassOver
  /\ (BeginRest \/ EndSearch)
  /\ UNCHANGED <<chain, states, nextBlock, falses>>

\* A later check of the channels carries on where the walk ended.
CarryOn ==
  /\ pass \in {"searched", "checked", "failed"}
  /\ pass' = "check"
  /\ h' = nextBlock /\ target' = tip
  /\ UNCHANGED <<chain, states, watch, nextBlock, falses>>

CheckEnds ==
  /\ pass = "check" /\ PassOver
  /\ pass' = "checked" /\ nextBlock' = target + 1
  /\ UNCHANGED <<chain, states, watch, h, target, falses>>

\* An error or Cancel in the middle: what was learnt stays, next does not.
CheckFails ==
  /\ pass = "check" /\ h <= target
  /\ pass' = "failed"
  /\ UNCHANGED <<chain, states, watch, h, target, nextBlock, falses>>

NewBlock ==
  /\ tip < MaxTip
  /\ tip' = tip + 1
  /\ UNCHANGED <<minedAt, states, watch, walk, falses>>

Next ==
  \/ OpenBelowFloor \/ MatchingBlock \/ FalsePositive \/ OtherBlock \/ SkipBlocks
  \/ MainEnds \/ RestEnds
  \/ CarryOn \/ CheckEnds \/ CheckFails
  \/ NewBlock

Spec == Init /\ [][Next]_vars

WalkProgress == MainEnds \/ RestEnds \/ SkipBlocks \/ OtherBlock
                  \/ OpenBelowFloor \/ MatchingBlock
FairSpec == Spec /\ WF_vars(WalkProgress)

-----------------------------------------------------------------------------
TypeOK ==
  /\ minedAt \in [Tx -> 0..MaxTip] /\ tip \in StartTip..MaxTip
  /\ found \subseteq Chan /\ spentBy \in [Chan -> Tx \cup {None}]
  /\ toUsSpent \subseteq Chan
  /\ known \in [Branch -> Nat] /\ watched \in [Branch -> Nat] /\ paidTo \in [Branch -> Nat]
  /\ \A m \in match \cup added : m[1] \in GapBranch /\ m[2] \in Nat /\ m[3] \in 0..MaxTip
  /\ hits \cup DOMAIN followed \subseteq UNION {OutPoints(t) : t \in Tx}
  /\ \A op \in DOMAIN followed : followed[op] \in 0..(FollowDepth - 1)
  /\ ownTxs \subseteq Tx
  /\ pass \in {"main", "rest", "searched", "check", "checked", "failed"}
  /\ h \in Nat /\ target \in 0..MaxTip /\ nextBlock \in 0..(MaxTip + 1)
  /\ falses \in 0..MaxFalse

\* The block the walk over the channels has reached, its verdicts published.
Walked == nextBlock - 1
Published == pass \in {"searched", "checked"}

(***************************************************************************)
(* "Only verdictOpen counts as funds" (chaincheck.go:48): a channel is     *)
(* called open only when its funding output is on the chain, carries the   *)
(* channel's script and is unspent in every block walked, whether the walk *)
(* saw them in one go, was carried on, or failed half way in between.      *)
(***************************************************************************)
OpenIsUnspent ==
  Published => \A c \in Chan : Verdict(c) = "open" =>
    /\ Mined(Funding[c][1], 1, Walked)
    /\ ScriptOf(Funding[c]) = FundScript[c]
    /\ \A t \in Tx : Spends(t, Funding[c]) => ~Mined(t, 1, Walked)

\* Its start, and the block without a filter when that is the one before.
WatchedFrom(c) == IF Floor > 1 /\ Start(c) = Floor THEN Floor - 1 ELSE Start(c)

(***************************************************************************)
(* A close in any block the channel was watched at is seen, and by the     *)
(* transaction that made it (run and applyBlock), also in the block before *)
(* the first filter. The filters are asked for the channel's script: of a  *)
(* funding output that carries another one the spend may pass, and the     *)
(* verdict is never open.                                                  *)
(***************************************************************************)
ClosesAreSeen ==
  Published => \A c \in States, t \in Tx :
    (RightScript(c) /\ Spends(t, Funding[c]) /\ Mined(t, WatchedFrom(c), Walked))
      => spentBy[c] = t

(***************************************************************************)
(* What a closed channel is said to have left to collect is there: the     *)
(* payout of the close, not swept in any block walked; and it is said      *)
(* whenever it is (fundingState.verdict).                                  *)
(***************************************************************************)
CollectIsThere ==
  Published => \A c \in States : \A op \in ToUs(c, spentBy[c]) :
    Collects(c) <=> \A t \in Tx : Spends(t, op) => ~Mined(t, 1, Walked)

\* Every payment to the address within the blocks of the search is a find.
AllFound(b, i) ==
  \A t \in Tx : \A op \in OutPoints(t) :
    (ScriptOf(op) = <<b, i>> /\ Mined(t, From, Walked)) => op \in hits

(***************************************************************************)
(* The gap rule, as any wallet has it: when the search ends, every address *)
(* up to the gap after the last paid one was looked for in every block,    *)
(* also in those that passed before the address joined (extend and rest),  *)
(* up to addressDepth past those watched at first.                         *)
(***************************************************************************)
GapSearchIsComplete ==
  pass = "searched" => \A b \in GapBranch :
    \A i \in Counter[b]..(Max({Counter[b] + Window, paidTo[b] + Gap}) - 1) :
      i < NewWatch(b) + Depth => AllFound(b, i)

\* A transaction spending an output of T that does not pay this wallet.
SpendsFrom(t, T) ==
  \E u \in T : \E op \in OutPoints(u) :
    ScriptOf(op)[1] \notin Branch /\ Spends(t, op)

Closes ==
  {t \in Tx : \E c \in States :
     /\ RightScript(c) /\ Spends(t, Funding[c])
     /\ minedAt[t] >= Start(c) /\ Mined(t, From, Walked)}
FirstSpends == {t \in Tx : SpendsFrom(t, Closes) /\ Mined(t, From, Walked)}
SecondSpends == {t \in Tx : SpendsFrom(t, FirstSpends) /\ Mined(t, From, Walked)}

(***************************************************************************)
(* Following the money: whatever a close pays out within two spends, to    *)
(* an address however far past the wallet's counter, is found (follow).    *)
(***************************************************************************)
SweepsAreFound ==
  pass = "searched" => \A t \in Closes \cup FirstSpends \cup SecondSpends :
    \A op \in OutPoints(t) :
      LET s == ScriptOf(op)
      IN  (s[1] \in Branch /\ Counter[s[1]] <= s[2] /\ s[2] < NewWatch(s[1]) + Depth)
            => op \in hits

(***************************************************************************)
(* The shortcut past the history check rests on this: a payment to a       *)
(* script the wallet has is seen in every block of the walk (ownTxs).      *)
(***************************************************************************)
OwnPaymentsAreSeen ==
  pass = "searched" =>
    \A t \in Tx : (ToSet(Outs[t]) \cap Own # {} /\ Mined(t, From, Walked)) => t \in ownTxs

(***************************************************************************)
(* A find is only what the chain has: an output of a block that exists,    *)
(* paying an address past the counter, and the wallet is moved no further  *)
(* than to the highest of them (paidTo).                                   *)
(***************************************************************************)
PaidToIsAFind ==
  \A b \in Branch : paidTo[b] > 0 =>
    \E op \in hits : ScriptOf(op) = <<b, paidTo[b] - 1>> /\ Mined(op[1], 1, tip)

(***************************************************************************)
(* The passes over the rest come to an end (findLaterFunds).               *)
(***************************************************************************)
SearchEnds == <>(pass = "searched")
=============================================================================
