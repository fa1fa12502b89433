-------------------------- MODULE ChainWalk_proofs --------------------------
(***************************************************************************)
(* Proofs about ChainWalk, for any chain, channels and addresses: what a   *)
(* walk over the compact filters knows of the channels, however it is      *)
(* carried on, and which payments the search finds.                        *)
(***************************************************************************)
EXTENDS ChainWalk, Folding, TLAPS, FiniteSetTheorems

USE DEF Tx

\* The transaction that funds a channel.
FundTx(c) == Funding[c][1]

\* The first block whose channels are not looked at yet, and the last one a
\* fact can come from: a check that failed leaves facts of blocks it had passed.
Reach == IF pass \in {"main", "check"} THEN h ELSE nextBlock
Known == IF pass \in {"main", "check", "failed"} THEN target ELSE nextBlock - 1

\* Where the walk is.
PlaceInv ==
  /\ pass \in {"main", "rest", "searched", "check", "checked", "failed"}
  /\ tip \in Nat /\ tip <= MaxTip /\ target \in Nat /\ StartTip <= target /\ target <= tip
  /\ h \in Nat /\ 1 <= h /\ Floor - 1 <= h /\ h <= target + 1
  /\ nextBlock \in Nat /\ nextBlock <= target + 1
  /\ pass = "main" => nextBlock = 0
  /\ pass # "main" => StartTip < nextBlock
  /\ pass = "check" => nextBlock <= h

\* What is known of the channels is on the chain.
SoundInv ==
  \A c \in Chan :
    /\ c \in found => c \in States /\ Mined(FundTx(c), 1, Known) /\ Floor - 1 <= minedAt[FundTx(c)]
    /\ spentBy[c] # None => /\ spentBy[c] \in Tx /\ Spends(spentBy[c], Funding[c])
                            /\ Mined(spentBy[c], 1, Known)
    /\ c \in toUsSpent => \E op \in ToUs(c, spentBy[c]), t \in Tx : Spends(t, op) /\ Mined(t, 1, Known)

\* What is on the chain is known of the channels.
SeenInv ==
  \A c \in States : \A t \in Tx :
    /\ spentBy[c] = None /\ RightScript(c) /\ Spends(t, Funding[c]) => ~Mined(t, WatchedFrom(c), Reach - 1)
    /\ spentBy[c] = None /\ c \in found /\ Spends(t, Funding[c]) => minedAt[t] # minedAt[FundTx(c)]
    /\ \A op \in ToUs(c, spentBy[c]) : Spends(t, op) /\ Mined(t, 1, Reach - 1) => c \in toUsSpent

ChannelInv == minedAt \in Chains /\ PlaceInv /\ SoundInv /\ SeenInv

-----------------------------------------------------------------------------
\* What every chain has (Chains).
LEMMA ChainFacts ==
  ASSUME minedAt \in Chains
  PROVE  /\ minedAt \in [Tx -> Nat]
         /\ \A t \in Tx : \A op \in ToSet(Ins[t]) :
              minedAt[t] > 0 => minedAt[op[1]] > 0 /\ minedAt[op[1]] <= minedAt[t]
         /\ \A t, u \in Tx : t # u /\ ToSet(Ins[t]) \cap ToSet(Ins[u]) # {}
                             => minedAt[t] = 0 \/ minedAt[u] = 0
         /\ \A c \in Chan : minedAt[FundTx(c)] = 0 \/ Hint[c] <= minedAt[FundTx(c)]
<1>1. PICK w \in Worlds : minedAt \in Placements(w)
  BY DEF Chains
<1>2. PICK p \in [DOMAIN w -> 0..MaxTip] :
        minedAt = [t \in Tx |-> IF t \in DOMAIN w THEN p[t] ELSE 0]
  BY <1>1 DEF Placements
<1>3. minedAt \in [Tx -> Nat]
  BY <1>2, ParametersAssumption
<1> QED BY <1>3 DEF Chains, FundTx

\* Where a pass goes on: nothing starts being watched before it.
LEMMA NextStartIs ==
  ASSUME NEW p, NEW at \in Nat, NEW end \in Nat
  PROVE  LET n == NextStart(p, at, end) IN
         /\ n \in Nat /\ n <= end + 1 /\ (at < n \/ n = end + 1)
         /\ p # "rest" => \A c \in States : Start(c) <= at \/ n <= Start(c)
         /\ p # "check" => From <= at \/ n <= From
<1> DEFINE starts == (IF p = "rest" THEN {} ELSE {Start(c) : c \in States})
                       \cup (IF p = "check" THEN {} ELSE {From})
           S == {s \in starts : s > at} \cup {end + 1}
<1>1. \A c \in States : Start(c) \in Nat
  BY ParametersAssumption DEF States, Start
<1>2. S \subseteq Nat /\ S # {}
  BY <1>1, ParametersAssumption
<1>3. NextStart(p, at, end) = Min(S)
  BY DEF NextStart
<1>4. Min(S) \in S /\ \A x \in S : Min(S) <= x
  BY <1>2, MinOf
<1> QED BY <1>1, <1>2, <1>3, <1>4, ParametersAssumption

LEMMA BeforeNext ==
  ASSUME NEW lo \in Nat, NEW hi \in Nat, NEW at \in lo..(hi - 1)
  PROVE  at \in Int /\ lo <= at /\ at < hi
OBVIOUS

\* Nothing starts being watched below the floor.
LEMMA FloorIsFirst ==
  ASSUME NEW p, NEW end \in Nat, Floor <= end
  PROVE  Floor <= NextStart(p, 0, end)
<1> DEFINE starts == (IF p = "rest" THEN {} ELSE {Start(c) : c \in States})
                       \cup (IF p = "check" THEN {} ELSE {From})
           S == {s \in starts : s > 0} \cup {end + 1}
<1>1. \A c \in States : Start(c) \in Nat /\ Floor <= Start(c)
  BY ParametersAssumption DEF States, Start
<1>2. S \subseteq Nat /\ S # {} /\ \A s \in S : Floor <= s
  BY <1>1, ParametersAssumption
<1>3. NextStart(p, 0, end) = Min(S)
  BY DEF NextStart
<1> QED BY <1>2, <1>3, MinOf

\* The transaction applyBlock takes for the close.
LEMMA SpenderIs ==
  ASSUME NEW c, NEW at
  PROVE  /\ SpenderIn(c, at) # None =>
              SpenderIn(c, at) \in Tx /\ minedAt[SpenderIn(c, at)] = at /\ Spends(SpenderIn(c, at), Funding[c])
         /\ SpenderIn(c, at) = None => \A t \in Tx : minedAt[t] = at => ~Spends(t, Funding[c])
BY TransactionsAssumption DEF SpenderIn, InBlock

\* The payout of a close is an output of it.
LEMMA PayoutIs ==
  ASSUME NEW c, NEW close
  PROVE  /\ close = None => ToUs(c, close) = {}
         /\ \A op \in ToUs(c, close) : op[1] = close /\ ScriptOf(op) = ToUsScript[c]
BY DEF ToUs, OutPoints

-----------------------------------------------------------------------------
(* The channels.                                                           *)

\* What spends an output is in no earlier block than what made it; a channel
\* is funded no earlier than its hint.
LEMMA Later ==
  ASSUME minedAt \in Chains, NEW t \in Tx, minedAt[t] > 0
  PROVE  /\ \A c \in Chan : Spends(t, Funding[c]) =>
              /\ 0 < minedAt[FundTx(c)] /\ minedAt[FundTx(c)] <= minedAt[t]
              /\ Hint[c] <= minedAt[FundTx(c)]
         /\ \A c \in Chan : \A u : \A op \in ToUs(c, u) : Spends(t, op) =>
              u \in Tx /\ 0 < minedAt[u] /\ minedAt[u] <= minedAt[t]
<1> USE ChainFacts
<1>1. \A c \in Chan : Spends(t, Funding[c]) =>
        0 < minedAt[FundTx(c)] /\ minedAt[FundTx(c)] <= minedAt[t]
  BY DEF Spends, FundTx
<1>2. \A c \in Chan : FundTx(c) \in Tx /\ Hint[c] \in Nat
  BY ChannelsAssumption, ParametersAssumption DEF FundTx
<1>3. \A c \in Chan : \A u : \A op \in ToUs(c, u) : Spends(t, op) =>
        u \in Tx /\ 0 < minedAt[u] /\ minedAt[u] <= minedAt[t]
  BY PayoutIs, TransactionsAssumption DEF Spends
<1> QED BY <1>1, <1>2, <1>3

\* No two transactions of a chain spend the same output.
LEMMA OneSpender ==
  ASSUME minedAt \in Chains, NEW t \in Tx, NEW u \in Tx, NEW op,
         Spends(t, op), Spends(u, op), minedAt[t] > 0, minedAt[u] > 0
  PROVE  t = u
BY ChainFacts DEF Spends

\* A block that is opened: applyBlock.
LEMMA OpenedChannels ==
  ASSUME ChannelInv, pass \in {"main", "check"}, h <= target, ApplyToChannels(h),
         UNCHANGED <<minedAt, pass, nextBlock>>, h' = h + 1, target' \in Nat, target <= target'
  PROVE  SoundInv' /\ SeenInv'
<1> USE DEF ChannelInv
<1>1. /\ h \in Nat /\ 1 <= h /\ Floor - 1 <= h /\ target \in Nat
      /\ Reach = h /\ Reach' = h + 1 /\ Known = target /\ Known' = target'
  BY DEF PlaceInv, Reach, Known
<1>2. /\ found' = found \cup {c \in States : minedAt[FundTx(c)] = h}
      /\ spentBy' = [c \in Chan |-> IF c \in States /\ spentBy[c] = None
                                    THEN SpenderIn(c, h) ELSE spentBy[c]]
      /\ toUsSpent' = toUsSpent \cup
           {c \in States : \E op \in ToUs(c, spentBy'[c]), t \in InBlock(h) : Spends(t, op)}
  BY DEF ApplyToChannels, FundTx
<1>3. minedAt \in [Tx -> Nat]
  BY ChainFacts
<1>4. \A t \in Tx : Mined(t, 1, Known) => Mined(t, 1, target')
  BY <1>1, <1>3 DEF Mined
<1>5. \A t \in Tx : minedAt[t] = h => Mined(t, 1, target')
  BY <1>1 DEF Mined
<1>6. \A c \in Chan : FundTx(c) \in Tx
  BY ChannelsAssumption DEF FundTx
<1>7. SoundInv'
  <2> SUFFICES ASSUME NEW c \in Chan
               PROVE  /\ c \in found' => /\ c \in States /\ Mined(FundTx(c), 1, target')
                                         /\ Floor - 1 <= minedAt[FundTx(c)]
                      /\ spentBy'[c] # None => /\ spentBy'[c] \in Tx /\ Spends(spentBy'[c], Funding[c])
                                               /\ Mined(spentBy'[c], 1, target')
                      /\ c \in toUsSpent' => \E op \in ToUs(c, spentBy'[c]), t \in Tx :
                                               Spends(t, op) /\ Mined(t, 1, target')
    BY <1>1 DEF SoundInv, ToUs, OutPoints, States, Usable, FundTx, Spends, Mined
  <2>1. c \in found' => /\ c \in States /\ Mined(FundTx(c), 1, target') /\ Floor - 1 <= minedAt[FundTx(c)]
    BY <1>1, <1>2, <1>4, <1>5, <1>6 DEF SoundInv
  <2>2. spentBy'[c] # None => /\ spentBy'[c] \in Tx /\ Spends(spentBy'[c], Funding[c])
                              /\ Mined(spentBy'[c], 1, target')
    <3>1. CASE spentBy'[c] = spentBy[c]
      BY <1>4, <3>1 DEF SoundInv
    <3>2. CASE spentBy'[c] = SpenderIn(c, h)
      BY <1>5, <3>2, SpenderIs
    <3> QED BY <1>2, <3>1, <3>2
  <2>3. ASSUME c \in toUsSpent
        PROVE  \E op \in ToUs(c, spentBy'[c]), t \in Tx : Spends(t, op) /\ Mined(t, 1, target')
    <3>1. PICK op \in ToUs(c, spentBy[c]), t \in Tx : Spends(t, op) /\ Mined(t, 1, Known)
      BY <2>3 DEF SoundInv
    <3>2. spentBy'[c] = spentBy[c]
      BY <1>2, <3>1, PayoutIs
    <3> QED BY <1>4, <3>1, <3>2
  <2>4. ASSUME c \in toUsSpent', c \notin toUsSpent
        PROVE  \E op \in ToUs(c, spentBy'[c]), t \in Tx : Spends(t, op) /\ Mined(t, 1, target')
    BY <1>2, <1>5, <2>4 DEF InBlock
  <2> QED BY <2>1, <2>2, <2>3, <2>4
<1>8. SeenInv'
  <2> SUFFICES ASSUME NEW c \in States, NEW t \in Tx
               PROVE  /\ spentBy'[c] = None /\ RightScript(c) /\ Spends(t, Funding[c])
                           => ~Mined(t, WatchedFrom(c), h)
                      /\ spentBy'[c] = None /\ c \in found' /\ Spends(t, Funding[c])
                           => minedAt[t] # minedAt[FundTx(c)]
                      /\ \A op \in ToUs(c, spentBy'[c]) : Spends(t, op) /\ Mined(t, 1, h) => c \in toUsSpent'
    BY <1>1 DEF SeenInv, ToUs, OutPoints, States, Usable, FundTx, Mined, RightScript, Start, WatchedFrom, Spends
  <2>0. c \in Chan
    BY DEF States
  <2>1. spentBy'[c] = None => spentBy[c] = None /\ (minedAt[t] = h => ~Spends(t, Funding[c]))
    BY <1>2, <2>0, SpenderIs
  <2>2. Mined(t, WatchedFrom(c), h) => Mined(t, WatchedFrom(c), h - 1) \/ minedAt[t] = h
    BY <1>1, <1>3 DEF Mined
  <2>3. spentBy'[c] = None /\ RightScript(c) /\ Spends(t, Funding[c]) => ~Mined(t, WatchedFrom(c), h)
    BY <1>1, <2>1, <2>2 DEF SeenInv
  <2>4. spentBy'[c] = None /\ c \in found' /\ Spends(t, Funding[c]) => minedAt[t] # minedAt[FundTx(c)]
    BY <1>2, <2>1 DEF SeenInv
  <2>5. ASSUME NEW op \in ToUs(c, spentBy'[c]), Spends(t, op), Mined(t, 1, h) PROVE c \in toUsSpent'
    <3>1. CASE minedAt[t] = h
      BY <1>2, <2>5, <3>1 DEF InBlock
    <3>2. CASE minedAt[t] # h
      <4>1. Mined(t, 1, h - 1) /\ minedAt[t] > 0 /\ minedAt[t] < h
        BY <1>1, <1>3, <2>5, <3>2 DEF Mined
      <4>2. minedAt[spentBy'[c]] <= minedAt[t]
        BY <2>0, <2>5, <4>1, Later
      <4>3. spentBy'[c] = spentBy[c]
        BY <1>1, <1>2, <1>3, <2>0, <2>5, <4>1, <4>2, SpenderIs, PayoutIs
      <4>4. c \in toUsSpent
        BY <1>1, <2>5, <4>1, <4>3 DEF SeenInv
      <4> QED BY <1>2, <4>4
    <3> QED BY <3>1, <3>2
  <2> QED BY <2>3, <2>4, <2>5
<1> QED BY <1>7, <1>8

\* Blocks that are passed: their filters match no script of a channel.
LEMMA PassedChannels ==
  ASSUME ChannelInv, pass \in {"main", "check"}, Floor <= h, h <= target,
         UNCHANGED <<minedAt, states, pass, nextBlock>>, h' \in Nat, target' \in Nat, target <= target',
         \A at \in h..(h' - 1) : ChannelScripts(at) \cap BlockScripts(at) = {}
  PROVE  SoundInv' /\ SeenInv'
<1> USE DEF ChannelInv
<1>1. /\ h \in Nat /\ 1 <= h /\ target \in Nat
      /\ Reach = h /\ Reach' = h' /\ Known = target /\ Known' = target'
      /\ UNCHANGED <<minedAt, found, spentBy, toUsSpent>>
  BY DEF PlaceInv, Reach, Known, states
<1>2. minedAt \in [Tx -> Nat]
  BY ChainFacts
<1>3. SoundInv'
  <2>1. \A t \in Tx : Mined(t, 1, target) => Mined(t, 1, target')
    BY <1>1, <1>2 DEF Mined
  <2>2. \A c \in Chan : FundTx(c) \in Tx
    BY ChannelsAssumption DEF FundTx
  <2> SUFFICES ASSUME NEW c \in Chan
               PROVE  /\ c \in found => /\ c \in States /\ Mined(FundTx(c), 1, target')
                                        /\ Floor - 1 <= minedAt[FundTx(c)]
                      /\ spentBy[c] # None => /\ spentBy[c] \in Tx /\ Spends(spentBy[c], Funding[c])
                                              /\ Mined(spentBy[c], 1, target')
                      /\ c \in toUsSpent => \E op \in ToUs(c, spentBy[c]), t \in Tx :
                                              Spends(t, op) /\ Mined(t, 1, target')
    BY <1>1 DEF SoundInv, ToUs, OutPoints, States, Usable, FundTx, Spends, Mined
  <2> QED BY <1>1, <2>1, <2>2 DEF SoundInv
<1>4. SeenInv'
  <2> SUFFICES ASSUME NEW c \in States, NEW t \in Tx
               PROVE  /\ spentBy[c] = None /\ RightScript(c) /\ Spends(t, Funding[c])
                           => ~Mined(t, WatchedFrom(c), h' - 1)
                      /\ spentBy[c] = None /\ c \in found /\ Spends(t, Funding[c])
                           => minedAt[t] # minedAt[FundTx(c)]
                      /\ \A op \in ToUs(c, spentBy[c]) : Spends(t, op) /\ Mined(t, 1, h' - 1)
                           => c \in toUsSpent
    BY <1>1 DEF SeenInv, ToUs, OutPoints, States, Usable, FundTx, Mined, RightScript, Start, WatchedFrom, Spends
  <2>0. c \in Chan
    BY DEF States
  <2>1. ASSUME NEW lo, Mined(t, lo, h' - 1), ~Mined(t, lo, h - 1) PROVE minedAt[t] \in h..(h' - 1)
    BY <1>1, <1>2, <2>1 DEF Mined
  <2>2. ASSUME NEW op, Spends(t, op) PROVE ScriptOf(op) \in BlockScripts(minedAt[t])
    BY <2>2 DEF BlockScripts, Spends, InBlock
  <2>3. ASSUME spentBy[c] = None, RightScript(c), Spends(t, Funding[c]), Mined(t, WatchedFrom(c), h' - 1)
        PROVE  FALSE
    <3>1. ~Mined(t, WatchedFrom(c), h - 1)
      BY <1>1, <2>3 DEF SeenInv
    <3>2. minedAt[t] \in h..(h' - 1) /\ Start(c) <= minedAt[t]
      <4>1. minedAt[t] \in h..(h' - 1) /\ WatchedFrom(c) <= minedAt[t]
        BY <2>1, <2>3, <3>1 DEF Mined
      <4> QED BY <1>1, <4>1, ParametersAssumption DEF WatchedFrom
    <3>3. FundScript[c] \in ChannelScripts(minedAt[t])
      BY <2>3, <3>2 DEF ChannelScripts
    <3>4. FundScript[c] \in BlockScripts(minedAt[t])
      BY <2>2, <2>3 DEF RightScript
    <3> QED BY <3>2, <3>3, <3>4
  <2>4. ASSUME NEW op \in ToUs(c, spentBy[c]), Spends(t, op), Mined(t, 1, h' - 1), c \notin toUsSpent
        PROVE  FALSE
    <3>1. minedAt[t] \in h..(h' - 1)
      BY <1>1, <2>1, <2>4 DEF SeenInv
    <3>2. spentBy[c] # None /\ minedAt[spentBy[c]] <= minedAt[t] /\ minedAt[t] > 0
      BY <1>1, <2>0, <2>4, <3>1, Later, PayoutIs
    <3>3. Start(c) <= minedAt[t]
      <4>1. Hint[c] <= minedAt[FundTx(c)] /\ minedAt[FundTx(c)] <= minedAt[spentBy[c]]
        BY <2>0, <3>2, Later DEF SoundInv, Mined
      <4>2. Hint[c] \in Nat /\ FundTx(c) \in Tx /\ spentBy[c] \in Tx
        BY <2>0, <3>2, ParametersAssumption, ChannelsAssumption DEF SoundInv, FundTx
      <4> QED BY <1>1, <1>2, <3>1, <3>2, <4>1, <4>2, ParametersAssumption DEF Start
    <3>4. ToUsScript[c] \in ChannelScripts(minedAt[t])
      BY <2>4, <3>3 DEF ChannelScripts, Collects, PayoutKnown
    <3>5. ToUsScript[c] \in BlockScripts(minedAt[t])
      BY <2>2, <2>4, PayoutIs
    <3> QED BY <3>1, <3>4, <3>5
  <2>5. spentBy[c] = None /\ c \in found /\ Spends(t, Funding[c]) => minedAt[t] # minedAt[FundTx(c)]
    BY DEF SeenInv
  <2> QED BY <2>3, <2>4, <2>5
<1> QED BY <1>3, <1>4

\* A step that looks at no block of the channels.
LEMMA KeptChannels ==
  ASSUME ChannelInv, UNCHANGED <<minedAt, states>>, PlaceInv', Reach' <= Reach, Known <= Known'
  PROVE  SoundInv' /\ SeenInv'
<1> USE DEF ChannelInv
<1>1. /\ Reach \in Nat /\ Reach' \in Nat /\ Known \in Int /\ Known' \in Int
      /\ UNCHANGED <<minedAt, found, spentBy, toUsSpent>>
  BY DEF PlaceInv, Reach, Known, states
<1>2. minedAt \in [Tx -> Nat]
  BY ChainFacts
<1>3. \A t \in Tx : /\ Mined(t, 1, Known) => Mined(t, 1, Known')
                    /\ \A lo : Mined(t, lo, Reach' - 1) => Mined(t, lo, Reach - 1)
  BY <1>1, <1>2 DEF Mined
<1>4. \A c \in Chan : FundTx(c) \in Tx
  BY ChannelsAssumption DEF FundTx
<1>5. SoundInv'
  <2> SUFFICES ASSUME NEW c \in Chan
               PROVE  /\ c \in found => /\ c \in States /\ Mined(FundTx(c), 1, Known')
                                        /\ Floor - 1 <= minedAt[FundTx(c)]
                      /\ spentBy[c] # None => /\ spentBy[c] \in Tx /\ Spends(spentBy[c], Funding[c])
                                              /\ Mined(spentBy[c], 1, Known')
                      /\ c \in toUsSpent => \E op \in ToUs(c, spentBy[c]), t \in Tx :
                                              Spends(t, op) /\ Mined(t, 1, Known')
    BY <1>1 DEF SoundInv, ToUs, OutPoints, States, Usable, FundTx, Spends, Mined
  <2> QED BY <1>3, <1>4 DEF SoundInv
<1>6. SeenInv'
  <2> SUFFICES ASSUME NEW c \in States, NEW t \in Tx
               PROVE  /\ spentBy[c] = None /\ RightScript(c) /\ Spends(t, Funding[c])
                           => ~Mined(t, WatchedFrom(c), Reach' - 1)
                      /\ spentBy[c] = None /\ c \in found /\ Spends(t, Funding[c])
                           => minedAt[t] # minedAt[FundTx(c)]
                      /\ \A op \in ToUs(c, spentBy[c]) : Spends(t, op) /\ Mined(t, 1, Reach' - 1)
                           => c \in toUsSpent
    BY <1>1 DEF SeenInv, ToUs, OutPoints, States, Usable, FundTx, Mined, RightScript, Start, WatchedFrom, Spends
  <2> QED BY <1>3 DEF SeenInv
<1> QED BY <1>5, <1>6

-----------------------------------------------------------------------------
(* Where a pass begins, and where the walk is.                             *)

\* A pass begins no earlier than the block before the floor, and before
\* anything it has to look for.
LEMMA FirstBlockIs ==
  ASSUME NEW p, NEW end \in Nat, Floor <= end
  PROVE  LET n == FirstBlock(p, end) IN
         /\ n \in Nat /\ 1 <= n /\ Floor - 1 <= n /\ n <= end + 1
         /\ p # "rest" => \A c \in States : n <= WatchedFrom(c)
         /\ p # "check" => n <= From
<1> DEFINE s == NextStart(p, 0, end)
<1>1. /\ s \in Nat /\ s <= end + 1 /\ 0 < s
      /\ p # "rest" => \A c \in States : Start(c) <= 0 \/ s <= Start(c)
      /\ p # "check" => From <= 0 \/ s <= From
  BY NextStartIs
<1>2. Floor <= s
  BY FloorIsFirst
<1>3. \A c \in States : Start(c) \in Nat /\ 0 < Start(c)
  BY ParametersAssumption DEF States, Start, Usable
<1> QED BY <1>1, <1>2, <1>3, ParametersAssumption DEF FirstBlock, WatchedFrom

LEMMA PlaceInit == Init => PlaceInv
<1> SUFFICES ASSUME Init PROVE PlaceInv
  OBVIOUS
<1>1. Floor <= tip /\ tip \in Nat
  BY ParametersAssumption DEF Init
<1> QED BY <1>1, FirstBlockIs, ParametersAssumption DEF Init, PlaceInv

LEMMA PlaceStep ==
  ASSUME PlaceInv, [Next]_vars
  PROVE  PlaceInv'
<1> USE ParametersAssumption DEF PlaceInv
<1>1. Floor <= tip /\ Floor <= target
  OBVIOUS
<1>2. CASE OpenBelowFloor
  BY <1>1, <1>2 DEF OpenBelowFloor, chain
<1>3. ASSUME Looking, Advance, UNCHANGED <<chain, pass, nextBlock>> PROVE PlaceInv'
  BY <1>3 DEF Looking, Advance, chain
<1>4. CASE MatchingBlock \/ FalsePositive \/ OtherBlock
  BY <1>3, <1>4 DEF MatchingBlock, FalsePositive, OtherBlock
<1>5. CASE SkipBlocks
  <2> DEFINE n == NextStart(pass, h, target)
  <2>1. n \in Nat /\ n <= target + 1 /\ (h < n \/ n = target + 1)
    BY NextStartIs
  <2>2. h <= n
    BY <1>5, <2>1 DEF SkipBlocks, Looking
  <2>3. h' = n /\ UNCHANGED <<tip, target, pass, nextBlock>>
    BY <1>5 DEF SkipBlocks, chain
  <2> HIDE DEF n
  <2> QED BY <1>5, <2>1, <2>2, <2>3 DEF SkipBlocks, Looking
<1>6. ASSUME PassOver, pass \in {"main", "rest"}, UNCHANGED chain, BeginRest \/ EndSearch,
             nextBlock' = IF pass = "main" THEN target + 1 ELSE nextBlock
      PROVE  PlaceInv'
  <2>1. CASE BeginRest
    <3>1. LET n == FirstBlock("rest", tip) IN n \in Nat /\ 1 <= n /\ Floor - 1 <= n /\ n <= tip + 1
      BY <1>1, FirstBlockIs
    <3> QED BY <1>6, <2>1, <3>1 DEF BeginRest, chain, PassOver
  <2>2. CASE EndSearch
    BY <1>6, <2>2 DEF EndSearch, chain, PassOver
  <2> QED BY <1>6, <2>1, <2>2
<1>7. CASE MainEnds \/ RestEnds
  BY <1>6, <1>7 DEF MainEnds, RestEnds
<1>8. CASE CarryOn
  BY <1>1, <1>8 DEF CarryOn, chain
<1>9. CASE CheckEnds
  BY <1>9 DEF CheckEnds, chain, PassOver
<1>10. CASE CheckFails
  BY <1>10 DEF CheckFails, chain
<1>11. CASE NewBlock
  BY <1>11 DEF NewBlock, walk
<1>12. CASE UNCHANGED vars
  BY <1>12 DEF vars, chain, walk
<1> QED BY <1>2, <1>4, <1>5, <1>7, <1>8, <1>9, <1>10, <1>11, <1>12 DEF Next

-----------------------------------------------------------------------------
(* The channels, step by step.                                             *)

LEMMA ChannelInit == Init => ChannelInv
<1> SUFFICES ASSUME Init PROVE ChannelInv
  OBVIOUS
<1>1. PlaceInv
  BY PlaceInit
<1>2. minedAt \in [Tx -> Nat]
  BY ChainFacts DEF Init
<1>3. \A c \in States : h <= WatchedFrom(c) /\ WatchedFrom(c) \in Nat
  <2>1. Floor <= tip /\ tip \in Nat
    BY ParametersAssumption DEF Init
  <2> QED BY <2>1, FirstBlockIs, ParametersAssumption DEF Init, States, Start, WatchedFrom
<1>4. SoundInv
  BY DEF Init, SoundInv
<1>5. ASSUME NEW c \in States, NEW t \in Tx PROVE ~Mined(t, WatchedFrom(c), Reach - 1)
  <2>1. Reach = h /\ h \in Nat
    BY <1>1 DEF Init, Reach, PlaceInv
  <2>2. minedAt[t] \in Nat
    BY <1>2
  <2> QED BY <1>3, <2>1, <2>2 DEF Mined
<1>6. \A c \in Chan : spentBy[c] = None
  BY DEF Init
<1>7. SeenInv
  <2>1. \A c \in States : spentBy[c] = None /\ c \notin found
    BY <1>6 DEF Init, States
  <2> QED BY <1>5, <2>1, PayoutIs DEF SeenInv
<1> QED BY <1>1, <1>4, <1>7 DEF ChannelInv, Init

\* A block that is opened, whatever the run.
LEMMA OpenStep ==
  ASSUME ChannelInv, PlaceInv', pass \in {"main", "rest", "check"}, h <= target, OpenBlock(h),
         h' = h + 1, UNCHANGED <<minedAt, pass, nextBlock>>, target' \in Nat, target <= target'
  PROVE  SoundInv' /\ SeenInv'
<1>1. CASE pass = "rest"
  <2>1. UNCHANGED <<minedAt, states>> /\ Reach' <= Reach /\ Known <= Known'
    BY <1>1 DEF OpenBlock, Reach, Known, ChannelInv, PlaceInv
  <2> QED BY <2>1, KeptChannels
<1>2. CASE pass \in {"main", "check"}
  BY <1>2, OpenedChannels DEF OpenBlock
<1> QED BY <1>1, <1>2

\* Blocks that are passed, whatever the run.
LEMMA PassStep ==
  ASSUME ChannelInv, PlaceInv', Looking, UNCHANGED <<minedAt, states, pass, nextBlock>>,
         target' \in Nat, target <= target', h' \in Nat,
         pass = "rest" \/ \A at \in h..(h' - 1) : ChannelScripts(at) \cap BlockScripts(at) = {}
  PROVE  SoundInv' /\ SeenInv'
<1>1. CASE pass = "rest"
  <2>1. UNCHANGED <<minedAt, states>> /\ Reach' <= Reach /\ Known <= Known'
    BY <1>1 DEF Reach, Known, ChannelInv, PlaceInv
  <2> QED BY <2>1, KeptChannels
<1>2. CASE pass # "rest"
  BY <1>2, PassedChannels, ParametersAssumption DEF Looking
<1> QED BY <1>1, <1>2

LEMMA ChannelStep ==
  ASSUME ChannelInv, [Next]_vars
  PROVE  ChannelInv'
<1>1. PlaceInv /\ PlaceInv'
  BY PlaceStep DEF ChannelInv
<1>2. UNCHANGED minedAt
  BY DEF Next, OpenBelowFloor, MatchingBlock, FalsePositive, OtherBlock, SkipBlocks, MainEnds, RestEnds,
         CarryOn, CheckEnds, CheckFails, NewBlock, vars, chain
<1>3. (minedAt \in Chains)'
  BY <1>2 DEF ChannelInv, Chains, Placements, FundTx
<1>4. h \in Nat /\ target \in Nat /\ tip \in Nat /\ target <= tip /\ h <= target + 1
  BY <1>1 DEF PlaceInv
<1>5. CASE OpenBelowFloor
  <2>1. h <= target
    BY <1>1, <1>5, ParametersAssumption DEF OpenBelowFloor, PlaceInv
  <2> QED BY <1>1, <1>2, <1>4, <1>5, <2>1, OpenStep, <1>3 DEF OpenBelowFloor, ChannelInv
<1>6. CASE MatchingBlock \/ FalsePositive
  <2>1. Looking /\ Advance /\ OpenBlock(h) /\ UNCHANGED <<minedAt, pass, nextBlock>>
    BY <1>2, <1>6 DEF MatchingBlock, FalsePositive
  <2>2. h' = h + 1 /\ target' \in Nat /\ target <= target'
    BY <1>4, <2>1 DEF Advance
  <2> QED BY <1>1, <1>3, <2>1, <2>2, OpenStep DEF Looking, ChannelInv
<1>7. CASE OtherBlock
  <2>1. Looking /\ Advance /\ UNCHANGED <<minedAt, states, pass, nextBlock>>
    BY <1>2, <1>7 DEF OtherBlock
  <2>2. h' = h + 1 /\ target' \in Nat /\ target <= target'
    BY <1>4, <2>1 DEF Advance
  <2>3. \A at \in h..(h' - 1) : at = h
    BY <1>4, <2>2
  <2>4. pass = "rest" \/ ChannelScripts(h) \cap BlockScripts(h) = {}
    BY <1>7 DEF OtherBlock, Scripts
  <2> QED BY <1>1, <1>3, <1>4, <2>1, <2>2, <2>3, <2>4, PassStep DEF ChannelInv
<1>8. CASE SkipBlocks
  <2>1. Looking /\ Scripts(h) = {} /\ UNCHANGED <<minedAt, states, pass, target, nextBlock>>
    BY <1>2, <1>8 DEF SkipBlocks
  <2>2. /\ h' \in Nat
        /\ pass # "rest" => \A c \in States : Start(c) <= h \/ h' <= Start(c)
    BY <1>4, <1>8, NextStartIs DEF SkipBlocks
  <2>3. ASSUME pass # "rest", NEW at, at \in h..(h' - 1) PROVE ChannelScripts(at) = {}
    <3>1. \A c \in States : Start(c) <= at => Start(c) <= h
      <4>1. \A c \in States : Start(c) \in Nat
        BY ParametersAssumption DEF States, Start
      <4>2. h' \in Nat /\ h \in Nat
        BY <1>4, <2>2
      <4>3. at \in Int /\ at < h'
        BY <2>3, <4>2, BeforeNext
      <4> QED BY <2>2, <2>3, <4>1, <4>2, <4>3
    <3>2. ChannelScripts(h) = {}
      BY <2>1, <2>3 DEF Scripts
    <3> QED BY <3>1, <3>2 DEF ChannelScripts
  <2>4. target' \in Nat /\ target <= target'
    BY <1>4, <2>1
  <2>5. pass = "rest" \/ \A at \in h..(h' - 1) : ChannelScripts(at) \cap BlockScripts(at) = {}
    BY <2>3
  <2> QED BY <1>1, <1>2, <1>3, <2>1, <2>2, <2>4, <2>5, PassStep DEF ChannelInv
<1>9. ASSUME UNCHANGED states, Reach' <= Reach, Known <= Known' PROVE ChannelInv'
  BY <1>1, <1>2, <1>3, <1>9, KeptChannels DEF ChannelInv
<1>10. CASE MainEnds \/ RestEnds
  <2>1. pass \in {"main", "rest"} /\ pass' \in {"rest", "searched"}
    BY <1>10 DEF MainEnds, RestEnds, BeginRest, EndSearch
  <2>2. nextBlock' = IF pass = "main" THEN h ELSE nextBlock
    BY <1>4, <1>10 DEF MainEnds, RestEnds, PassOver
  <2>3. pass = "main" => h = target + 1
    BY <1>4, <1>10 DEF MainEnds, RestEnds, PassOver
  <2>4. nextBlock \in Nat /\ nextBlock' \in Nat
    BY <1>1 DEF PlaceInv
  <2>5. Reach' <= Reach /\ Known <= Known'
    BY <1>4, <2>1, <2>2, <2>3, <2>4 DEF Reach, Known
  <2> QED BY <1>9, <1>10, <2>5 DEF MainEnds, RestEnds
<1>11. nextBlock \in Nat /\ nextBlock' \in Nat
  BY <1>1 DEF PlaceInv
<1>12. CASE CarryOn
  <2>1. /\ pass \in {"searched", "checked", "failed"} /\ pass' = "check"
        /\ h' = nextBlock /\ target' = tip /\ nextBlock' = nextBlock
    BY <1>12 DEF CarryOn
  <2>2. nextBlock <= target + 1
    BY <1>1 DEF PlaceInv
  <2> QED BY <1>4, <1>9, <1>11, <1>12, <2>1, <2>2 DEF CarryOn, Reach, Known
<1>13. CASE CheckEnds \/ CheckFails
  <2>1. /\ pass = "check" /\ pass' \in {"checked", "failed"} /\ UNCHANGED <<states, h, target>>
        /\ nextBlock' = IF pass' = "checked" THEN target + 1 ELSE nextBlock
        /\ pass' = "checked" => h > target
    BY <1>13 DEF CheckEnds, CheckFails, PassOver
  <2>2. nextBlock <= h
    BY <1>1, <2>1 DEF PlaceInv
  <2> QED BY <1>4, <1>9, <1>11, <2>1, <2>2 DEF Reach, Known
<1>14. CASE NewBlock \/ UNCHANGED vars
  <2>1. UNCHANGED <<states, pass, h, target, nextBlock>>
    BY <1>14 DEF NewBlock, vars, walk
  <2> QED BY <1>4, <1>9, <1>11, <2>1 DEF Reach, Known
<1> QED BY <1>5, <1>6, <1>7, <1>8, <1>10, <1>12, <1>13, <1>14 DEF Next

LEMMA SpecChannelInv == Spec => []ChannelInv
<1> QED BY ChannelInit, ChannelStep, PTL DEF Spec

-----------------------------------------------------------------------------
(* What a check that ended publishes.                                      *)

LEMMA OpenFromInv == ChannelInv => OpenIsUnspent
<1> SUFFICES ASSUME ChannelInv, Published, NEW c \in Chan, Verdict(c) = "open"
             PROVE  /\ Mined(FundTx(c), 1, Walked) /\ ScriptOf(Funding[c]) = FundScript[c]
                    /\ \A t \in Tx : Spends(t, Funding[c]) => ~Mined(t, 1, Walked)
  BY DEF OpenIsUnspent, FundTx
<1>1. /\ c \in States /\ c \in found /\ RightScript(c) /\ spentBy[c] = None
  BY DEF Verdict, ScriptOK, States
<1>2. /\ Known = Walked /\ Reach - 1 = Walked /\ Walked \in Nat
  <2>1. nextBlock \in Nat /\ StartTip < nextBlock
    BY DEF Published, ChannelInv, PlaceInv
  <2> QED BY <2>1, ParametersAssumption DEF Published, Known, Reach, Walked
<1>3. Mined(FundTx(c), 1, Walked) /\ Floor - 1 <= minedAt[FundTx(c)]
  BY <1>1, <1>2 DEF ChannelInv, SoundInv
<1>4. ASSUME NEW t \in Tx, Spends(t, Funding[c]), Mined(t, 1, Walked) PROVE FALSE
  <2>1. /\ ~Mined(t, WatchedFrom(c), Walked) /\ minedAt[t] # minedAt[FundTx(c)]
    BY <1>1, <1>2, <1>4 DEF ChannelInv, SeenInv
  <2>2. minedAt \in [Tx -> Nat] /\ FundTx(c) \in Tx /\ Hint[c] \in Nat /\ Floor \in Nat
    BY ChainFacts, ChannelsAssumption, ParametersAssumption DEF ChannelInv, FundTx
  <2>3. minedAt[FundTx(c)] <= minedAt[t] /\ Hint[c] <= minedAt[FundTx(c)]
    BY <1>4, Later DEF ChannelInv, Mined
  <2> QED BY <1>2, <1>3, <1>4, <2>1, <2>2, <2>3 DEF Mined, Start, WatchedFrom
<1> QED BY <1>1, <1>3, <1>4 DEF RightScript

LEMMA ClosesFromInv == ChannelInv => ClosesAreSeen
<1> SUFFICES ASSUME ChannelInv, Published, NEW c \in States, NEW t \in Tx, RightScript(c),
                    Spends(t, Funding[c]), Mined(t, WatchedFrom(c), Walked)
             PROVE  spentBy[c] = t
  BY DEF ClosesAreSeen
<1>1. Reach - 1 = Walked
  BY DEF Published, Reach, Walked
<1>2. spentBy[c] # None /\ c \in Chan
  BY <1>1 DEF ChannelInv, SeenInv, States
<1>3. spentBy[c] \in Tx /\ Spends(spentBy[c], Funding[c]) /\ minedAt[spentBy[c]] > 0
  BY <1>2 DEF ChannelInv, SoundInv, Mined
<1> QED BY <1>3, OneSpender DEF ChannelInv, Mined

LEMMA CollectFromInv == ChannelInv => CollectIsThere
<1> SUFFICES ASSUME ChannelInv, Published, NEW c \in States, NEW op \in ToUs(c, spentBy[c])
             PROVE  Collects(c) <=> \A t \in Tx : Spends(t, op) => ~Mined(t, 1, Walked)
  BY DEF CollectIsThere
<1>1. Reach - 1 = Walked /\ Known = Walked /\ c \in Chan
  BY DEF Published, Reach, Known, Walked, States
<1>2. ASSUME NEW q \in ToUs(c, spentBy[c]) PROVE q = op
  <2>1. q \in OutPoints(spentBy[c]) /\ op \in OutPoints(spentBy[c]) /\ q[2] <= op[2] /\ op[2] <= q[2]
    BY DEF ToUs
  <2>2. PICK m \in 1..Len(Outs[spentBy[c]]) : q = <<spentBy[c], m>>
    BY <2>1 DEF OutPoints
  <2>3. PICK n \in 1..Len(Outs[spentBy[c]]) : op = <<spentBy[c], n>>
    BY <2>1 DEF OutPoints
  <2> QED BY <2>1, <2>2, <2>3
<1>3. Collects(c) <=> c \notin toUsSpent
  BY DEF Collects, PayoutKnown
<1>4. (\E t \in Tx : Spends(t, op) /\ Mined(t, 1, Walked)) => c \in toUsSpent
  BY <1>1 DEF ChannelInv, SeenInv
<1>5. c \in toUsSpent => \E t \in Tx : Spends(t, op) /\ Mined(t, 1, Walked)
  BY <1>1, <1>2 DEF ChannelInv, SoundInv
<1> QED BY <1>3, <1>4, <1>5

\* "Only verdictOpen counts as funds": what a finished check calls open is
\* funded, carries the channel's script and is unspent in every block walked.
THEOREM SpecOpenIsUnspent == Spec => []OpenIsUnspent
<1> QED BY SpecChannelInv, OpenFromInv, PTL

\* A close in any block the channel was watched at is seen, with the
\* transaction that made it, however often the walk was carried on.
THEOREM SpecClosesAreSeen == Spec => []ClosesAreSeen
<1> QED BY SpecChannelInv, ClosesFromInv, PTL

\* What a closed channel has left to collect is there, and said whenever it is.
THEOREM SpecCollectIsThere == Spec => []CollectIsThere
<1> QED BY SpecChannelInv, CollectFromInv, PTL

-----------------------------------------------------------------------------
(* Payments to scripts the wallet has.                                     *)

\* Up to where the search has come: ownTxs has every one of them.
PaysOwn(t) == ToSet(Outs[t]) \cap Own # {}
OwnInv ==
  pass \in {"main", "rest", "searched"} =>
    \A t \in Tx : PaysOwn(t) /\ Mined(t, From, Reach - 1) => t \in ownTxs

LEMMA OwnInit == Init => OwnInv
<1> SUFFICES ASSUME Init, NEW t \in Tx, Mined(t, From, Reach - 1) PROVE FALSE
  BY DEF OwnInv
<1>1. h <= From /\ Reach = h /\ minedAt[t] \in Nat
  <2>1. Floor <= tip /\ tip \in Nat
    BY ParametersAssumption DEF Init
  <2> QED BY <2>1, FirstBlockIs, ChainFacts DEF Init, Reach
<1>2. h \in Nat
  BY PlaceInit DEF PlaceInv
<1> QED BY <1>1, <1>2, ParametersAssumption DEF Mined

\* A block or several of them done with, by the walk that looks for own payments.
LEMMA OwnPassed ==
  ASSUME ChannelInv, OwnInv, pass = "main", pass' = "main", UNCHANGED minedAt, h' \in Nat,
         ownTxs \subseteq ownTxs',
         \A t \in Tx : PaysOwn(t) /\ Mined(t, From, h' - 1) /\ h <= minedAt[t] => t \in ownTxs'
  PROVE  OwnInv'
<1>1. Reach = h /\ Reach' = h' /\ h \in Nat
  BY DEF Reach, ChannelInv, PlaceInv
<1>2. \A t \in Tx : minedAt[t] \in Nat
  BY ChainFacts DEF ChannelInv
<1> SUFFICES ASSUME NEW t \in Tx, PaysOwn(t), Mined(t, From, h' - 1) PROVE t \in ownTxs'
  BY <1>1 DEF OwnInv, PaysOwn, Mined
<1>3. CASE h <= minedAt[t]
  BY <1>3
<1>4. CASE ~(h <= minedAt[t])
  <2>1. Mined(t, From, h - 1)
    BY <1>1, <1>2, <1>4 DEF Mined
  <2> QED BY <1>1, <2>1 DEF OwnInv
<1> QED BY <1>3, <1>4

LEMMA OwnStep ==
  ASSUME ChannelInv, ChannelInv', OwnInv, [Next]_vars
  PROVE  OwnInv'
<1>1. UNCHANGED minedAt /\ h \in Nat /\ h' \in Nat /\ target \in Nat
  BY DEF ChannelInv, PlaceInv, Next, OpenBelowFloor, MatchingBlock, FalsePositive, OtherBlock, SkipBlocks,
         MainEnds, RestEnds, CarryOn, CheckEnds, CheckFails, NewBlock, vars, chain
<1>2. \A t \in Tx : minedAt[t] \in Nat
  BY ChainFacts DEF ChannelInv
<1>3. ASSUME UNCHANGED ownTxs, Reach' = Reach, pass \in {"main", "rest", "searched"} PROVE OwnInv'
  BY <1>1, <1>3 DEF OwnInv, PaysOwn, Mined
<1>4. ASSUME OpenBlock(h), h' = h + 1, UNCHANGED <<pass, nextBlock>> PROVE OwnInv'
  <2>1. CASE pass = "main"
    <3>1. ownTxs' = ownTxs \cup {t \in InBlock(h) : PaysOwn(t)}
      BY <1>4, <2>1 DEF OpenBlock, ApplyToWatch, Watching, PaysOwn
    <3>2. ASSUME NEW t \in Tx, PaysOwn(t), Mined(t, From, h' - 1), h <= minedAt[t] PROVE t \in ownTxs'
      BY <1>1, <1>2, <1>4, <3>1, <3>2 DEF Mined, InBlock
    <3> QED BY <1>1, <1>4, <2>1, <3>1, <3>2, OwnPassed
  <2>2. CASE pass = "rest"
    <3>1. UNCHANGED ownTxs /\ Reach' = Reach
      BY <1>4, <2>2 DEF OpenBlock, ApplyToWatch, Watching, Reach
    <3> QED BY <1>3, <2>2, <3>1
  <2>3. CASE pass = "searched"
    <3>1. UNCHANGED ownTxs /\ Reach' = Reach
      BY <1>4, <2>3 DEF OpenBlock, Watching, watch, Reach
    <3> QED BY <1>3, <2>3, <3>1
  <2>4. CASE pass \notin {"main", "rest", "searched"}
    BY <1>4, <2>4 DEF OwnInv
  <2> QED BY <2>1, <2>2, <2>3, <2>4
<1>5. CASE OpenBelowFloor \/ MatchingBlock \/ FalsePositive
  BY <1>4, <1>5 DEF OpenBelowFloor, MatchingBlock, FalsePositive, Advance
<1>6. CASE OtherBlock
  <2>1. h' = h + 1 /\ UNCHANGED <<pass, nextBlock, ownTxs>>
    BY <1>6 DEF OtherBlock, Advance, watch
  <2>2. CASE pass = "main"
    <3>1. WatchScripts(h) \cap BlockScripts(h) = {}
      BY <1>6, <2>2 DEF OtherBlock, Scripts, Watching
    <3>2. ASSUME NEW t \in Tx, PaysOwn(t), Mined(t, From, h' - 1), h <= minedAt[t] PROVE FALSE
      <4>1. minedAt[t] = h /\ From <= h
        BY <1>1, <1>2, <2>1, <3>2 DEF Mined
      <4>2. Own \subseteq WatchScripts(h)
        BY <1>1, <2>2, <4>1, ParametersAssumption DEF WatchScripts
      <4>3. ToSet(Outs[t]) \subseteq BlockScripts(h)
        BY <4>1 DEF BlockScripts, InBlock
      <4> QED BY <3>1, <3>2, <4>2, <4>3 DEF PaysOwn
    <3> QED BY <1>1, <2>1, <2>2, <3>2, OwnPassed
  <2>3. CASE pass # "main"
    <3>1. UNCHANGED ownTxs /\ (pass = "rest" => Reach' = Reach) /\ pass' # "searched"
      BY <1>6, <2>1, <2>3 DEF OtherBlock, Looking, Reach
    <3> QED BY <1>3, <2>1, <2>3, <3>1 DEF OwnInv
  <2> QED BY <2>2, <2>3
<1>7. CASE SkipBlocks
  <2>1. Looking /\ Scripts(h) = {} /\ h' = NextStart(pass, h, target) /\ UNCHANGED <<pass, nextBlock, ownTxs>>
    BY <1>7 DEF SkipBlocks, watch
  <2>2. CASE pass = "main"
    <3>1. From <= h \/ h' <= From
      BY <1>1, <2>1, <2>2, NextStartIs
    <3>2. From <= h => Own = {}
      BY <1>1, <2>1, <2>2, ParametersAssumption DEF Scripts, Watching, WatchScripts
    <3>3. ASSUME NEW t \in Tx, PaysOwn(t), Mined(t, From, h' - 1), h <= minedAt[t] PROVE FALSE
      BY <1>1, <1>2, <3>1, <3>2, <3>3, ParametersAssumption DEF Mined, PaysOwn
    <3> QED BY <1>1, <2>1, <2>2, <3>3, OwnPassed
  <2>3. CASE pass # "main"
    <3>1. UNCHANGED ownTxs /\ (pass = "rest" => Reach' = Reach) /\ pass' # "searched"
      BY <2>1, <2>3 DEF Looking, Reach
    <3> QED BY <1>3, <2>1, <2>3, <3>1 DEF OwnInv
  <2> QED BY <2>2, <2>3
<1>8. CASE MainEnds \/ RestEnds
  <2>1. pass \in {"main", "rest"} /\ pass' \in {"rest", "searched"} /\ UNCHANGED ownTxs
    BY <1>8 DEF MainEnds, RestEnds, BeginRest, EndSearch, watch
  <2>2. nextBlock' = IF pass = "main" THEN target + 1 ELSE nextBlock
    BY <1>8 DEF MainEnds, RestEnds
  <2>3. pass = "main" => h = target + 1
    BY <1>1, <1>8 DEF MainEnds, RestEnds, PassOver, ChannelInv, PlaceInv
  <2>4. Reach' = Reach
    BY <2>1, <2>2, <2>3 DEF Reach
  <2> QED BY <1>3, <2>1, <2>4
<1>9. CASE CarryOn \/ CheckEnds \/ CheckFails
  BY <1>9 DEF CarryOn, CheckEnds, CheckFails, OwnInv
<1>10. CASE NewBlock \/ UNCHANGED vars
  <2>1. UNCHANGED <<pass, h, nextBlock, ownTxs>>
    BY <1>10 DEF NewBlock, vars, walk, watch
  <2>2. Reach' = Reach
    BY <2>1 DEF Reach
  <2> QED BY <1>3, <2>1, <2>2 DEF OwnInv
<1> QED BY <1>5, <1>6, <1>7, <1>8, <1>9, <1>10 DEF Next

\* A payment to a script the wallet has is seen in every block of the search:
\* what the shortcut past the history check rests on.
THEOREM SpecOwnPaymentsAreSeen == Spec => []OwnPaymentsAreSeen
<1>1. OwnInv => OwnPaymentsAreSeen
  BY DEF OwnInv, OwnPaymentsAreSeen, PaysOwn, Reach, Walked
<1>2. ChannelInv /\ OwnInv /\ [Next]_vars => ChannelInv' /\ OwnInv'
  BY ChannelStep, OwnStep
<1> QED BY <1>1, <1>2, ChannelInit, OwnInit, PTL DEF Spec

-----------------------------------------------------------------------------
(* What a block adds to the watch: RecogniseBlock.                         *)

AllOutputs == UNION {OutPoints(t) : t \in Tx}
Joined == GapBranch \X Nat \X (0..MaxTip)
Watches == [known : [Branch -> Nat], watched : [Branch -> Nat], paidTo : [Branch -> Nat],
            match : SUBSET Joined, added : SUBSET Joined, hits : SUBSET AllOutputs]

\* From r to q: nothing is lost, what is newly watched joined the match at
\* this block, and the wallet is moved to a find of this block and the gap.
Grew(r, q, at) ==
  /\ \A b \in Branch : r.known[b] <= q.known[b] /\ r.watched[b] <= q.watched[b]
  /\ r.match \subseteq q.match /\ r.added \subseteq q.added /\ r.hits \subseteq q.hits
  /\ \A b \in GapBranch : \A i \in Nat : r.watched[b] <= i /\ i < q.watched[b] =>
       <<b, i, 0>> \in q.match /\ <<b, i, at>> \in q.added
  /\ \A b \in Branch : \/ q.paidTo[b] = r.paidTo[b]
                       \/ \E op \in q.hits : ScriptOf(op) = <<b, q.paidTo[b] - 1>> /\ minedAt[op[1]] = at
  /\ \A b \in GapBranch : r.paidTo[b] + Gap <= r.watched[b] => q.paidTo[b] + Gap <= q.watched[b]

\* An output of a transaction, and its script.
LEMMA OutputIs ==
  ASSUME NEW t \in Tx, NEW op \in OutPoints(t)
  PROVE  /\ op[1] = t /\ op \in AllOutputs
         /\ ScriptOf(op) = <<ScriptOf(op)[1], ScriptOf(op)[2]>> /\ ScriptOf(op)[2] \in Nat
<1>1. PICK n \in 1..Len(Outs[t]) : op = <<t, n>>
  BY DEF OutPoints
<1>2. ScriptOf(op) = Outs[t][n] /\ op[1] = t
  BY <1>1 DEF ScriptOf
<1>3. Outs[t][n] \in ToSet(Outs[t])
  BY <1>1, TransactionsAssumption DEF ToSet
<1> QED BY <1>2, <1>3, TransactionsAssumption DEF AllOutputs

LEMMA GrewReflexive ==
  ASSUME NEW r \in Watches, NEW at
  PROVE  Grew(r, r, at)
<1>1. \A b \in Branch : r.known[b] \in Nat /\ r.watched[b] \in Nat
  BY DEF Watches
<1>2. \A b \in GapBranch : b \in Branch
  BY ParametersAssumption
<1> QED BY <1>1, <1>2 DEF Grew

LEMMA GrewTransitive ==
  ASSUME NEW r \in Watches, NEW q \in Watches, NEW s \in Watches, NEW at, Grew(r, q, at), Grew(q, s, at)
  PROVE  Grew(r, s, at)
<1>1. \A b \in Branch : /\ r.known[b] \in Nat /\ q.known[b] \in Nat /\ s.known[b] \in Nat
                        /\ r.watched[b] \in Nat /\ q.watched[b] \in Nat /\ s.watched[b] \in Nat
  BY DEF Watches
<1>2. GapBranch \subseteq Branch
  BY ParametersAssumption
<1>3. \A b \in Branch : r.known[b] <= s.known[b] /\ r.watched[b] <= s.watched[b]
  BY <1>1 DEF Grew
<1>4. r.match \subseteq s.match /\ r.added \subseteq s.added /\ r.hits \subseteq s.hits
  BY DEF Grew
<1>5. ASSUME NEW b \in GapBranch, NEW i \in Nat, r.watched[b] <= i, i < s.watched[b]
      PROVE  <<b, i, 0>> \in s.match /\ <<b, i, at>> \in s.added
  <2>1. CASE i < q.watched[b]
    BY <1>5, <2>1 DEF Grew
  <2>2. CASE ~(i < q.watched[b])
    BY <1>1, <1>2, <1>5, <2>2 DEF Grew
  <2> QED BY <2>1, <2>2
<1>6. ASSUME NEW b \in Branch
      PROVE  \/ s.paidTo[b] = r.paidTo[b]
             \/ \E op \in s.hits : ScriptOf(op) = <<b, s.paidTo[b] - 1>> /\ minedAt[op[1]] = at
  <2>1. CASE s.paidTo[b] = q.paidTo[b]
    BY <2>1, <1>6 DEF Grew
  <2> QED BY <2>1 DEF Grew
<1>7. \A b \in GapBranch : r.paidTo[b] + Gap <= r.watched[b] => s.paidTo[b] + Gap <= s.watched[b]
  BY DEF Grew
<1> QED BY <1>3, <1>4, <1>5, <1>6, <1>7 DEF Grew

\* The addresses of b from one index up to another, as items of the match.
Items(b, from, upTo, at) == {<<b, j, at>> : j \in from..(upTo - 1)}

LEMMA ItemsAre ==
  ASSUME NEW b, NEW from \in Nat, NEW upTo \in Nat, NEW j \in Nat, from <= j, j < upTo
  PROVE  \A at : <<b, j, at>> \in Items(b, from, upTo, at)
BY DEF Items

Extended(r, b, upTo, at) ==
  [known |-> [r.known EXCEPT ![b] = Max({r.known[b], upTo + Depth})],
   watched |-> [r.watched EXCEPT ![b] = Max({r.watched[b], upTo})],
   paidTo |-> r.paidTo,
   match |-> r.match \cup Items(b, r.watched[b], upTo, 0),
   added |-> r.added \cup Items(b, r.watched[b], upTo, at),
   hits |-> r.hits]

LEMMA ExtendIs ==
  ASSUME NEW r \in Watches, NEW b \in Branch, NEW upTo \in Nat, NEW at
  PROVE  Extend(r, b, upTo, at) = Extended(r, b, upTo, at)
<1> DEFINE I == r.watched[b]..(upTo - 1)
           new == {<<b, i>> : i \in I}
           M == {<<s[1], s[2], 0>> : s \in new}
           A == {<<s[1], s[2], at>> : s \in new}
           K == [r.known EXCEPT ![b] = Max({r.known[b], upTo + Depth})]
           W == [r.watched EXCEPT ![b] = Max({r.watched[b], upTo})]
<1>1. M = {<<b, j, 0>> : j \in I} /\ A = {<<b, j, at>> : j \in I}
  <2> HIDE DEF I
  <2>1. \A x \in I : <<b, x>> \in new /\ <<b, x>>[1] = b /\ <<b, x>>[2] = x
    OBVIOUS
  <2>2. \A s \in new : s[1] = b /\ s[2] \in I
    OBVIOUS
  <2> HIDE DEF new
  <2>3. M \subseteq {<<b, j, 0>> : j \in I} /\ A \subseteq {<<b, j, at>> : j \in I}
    BY <2>2
  <2>4. ASSUME NEW x \in I PROVE <<b, x, 0>> \in M /\ <<b, x, at>> \in A
    BY <2>1
  <2> QED BY <2>3, <2>4
<1>2. Extend(r, b, upTo, at) = [r EXCEPT !.known[b] = Max({@, upTo + Depth}), !.watched[b] = Max({@, upTo}),
                                         !.match = @ \cup M, !.added = @ \cup A]
  BY DEF Extend
<1>3. Extend(r, b, upTo, at) = [r EXCEPT !.known = K, !.watched = W,
                                         !.match = r.match \cup M, !.added = r.added \cup A]
  <2> HIDE DEF M, A
  <2> QED BY <1>2 DEF Watches
<1> HIDE DEF M, A, K, W
<1>4. Extend(r, b, upTo, at) = [known |-> K, watched |-> W, paidTo |-> r.paidTo,
                                match |-> r.match \cup M, added |-> r.added \cup A, hits |-> r.hits]
  BY <1>3 DEF Watches
<1> QED BY <1>1, <1>4 DEF K, W, Items, Extended

\* One output that pays a known address.
LEMMA RecogniseIs ==
  ASSUME NEW r \in Watches, NEW t \in Tx, NEW op \in OutPoints(t), NEW at \in 0..MaxTip, minedAt[t] = at,
         IsKnown(ScriptOf(op), r.known)
  PROVE  LET q == Recognise(r, op, at) IN q \in Watches /\ Grew(r, q, at) /\ op \in q.hits
<1> DEFINE b == ScriptOf(op)[1]
           i == ScriptOf(op)[2]
           q == Recognise(r, op, at)
           p == i + 1
<1>1. /\ b \in Branch /\ i \in Nat /\ op \in AllOutputs /\ op[1] = t /\ ScriptOf(op) = <<b, i>>
      /\ Gap \in Nat /\ Depth \in Nat /\ 0 \in 0..MaxTip /\ p \in Nat
  BY OutputIs, ParametersAssumption DEF IsKnown
<1>2. /\ r.known \in [Branch -> Nat] /\ r.watched \in [Branch -> Nat] /\ r.paidTo \in [Branch -> Nat]
      /\ r.match \subseteq Joined /\ r.added \subseteq Joined /\ r.hits \subseteq AllOutputs
  BY DEF Watches
<1>3. /\ Max({r.paidTo[b], p}) = IF r.paidTo[b] <= p THEN p ELSE r.paidTo[b]
      /\ Max({r.watched[b], p + Gap}) = IF r.watched[b] <= p + Gap THEN p + Gap ELSE r.watched[b]
      /\ Max({r.known[b], p + Gap + Depth}) =
           IF r.known[b] <= p + Gap + Depth THEN p + Gap + Depth ELSE r.known[b]
      /\ Max({r.known[b], p + Depth}) = IF r.known[b] <= p + Depth THEN p + Depth ELSE r.known[b]
  BY <1>1, <1>2, MaxOfTwo
<1>4. CASE b \in GapBranch
  <2> DEFINE I == r.watched[b]..(p + Gap - 1)
             newMatch == Items(b, r.watched[b], p + Gap, 0)
             newAdded == Items(b, r.watched[b], p + Gap, at)
  <2>1. q = [known |-> [r.known EXCEPT ![b] = Max({r.known[b], p + Gap + Depth})],
             watched |-> [r.watched EXCEPT ![b] = Max({r.watched[b], p + Gap})],
             paidTo |-> [r.paidTo EXCEPT ![b] = Max({r.paidTo[b], p})],
             match |-> r.match \cup newMatch, added |-> r.added \cup newAdded, hits |-> r.hits \cup {op}]
    <3> DEFINE P == [r.paidTo EXCEPT ![b] = Max({r.paidTo[b], p})]
               H == r.hits \cup {op}
               e == [r EXCEPT !.hits = @ \cup {op}, !.paidTo[b] = Max({@, p})]
    <3>1. e = [r EXCEPT !.hits = H, !.paidTo = P]
      BY DEF Watches
    <3>2. P \in [Branch -> Nat] /\ H \subseteq AllOutputs
      BY <1>1, <1>2, <1>3
    <3>3. q = Extend(e, b, p + Gap, at)
      BY <1>4 DEF Recognise
    <3> HIDE DEF P, H, e, b, p, q, newMatch, newAdded, I
    <3>4. e = [known |-> r.known, watched |-> r.watched, paidTo |-> P,
               match |-> r.match, added |-> r.added, hits |-> H]
      BY <3>1 DEF Watches
    <3>5. e \in Watches
      BY <1>2, <3>2, <3>4 DEF Watches
    <3>6. p + Gap \in Nat
      BY <1>1
    <3>7. q = Extended(e, b, p + Gap, at)
      BY <1>1, <3>3, <3>5, <3>6, ExtendIs
    <3>8. /\ e.known = r.known /\ e.watched = r.watched /\ e.paidTo = P
          /\ e.match = r.match /\ e.added = r.added /\ e.hits = H
      BY <3>4
    <3> QED BY <3>7, <3>8, Zenon DEF P, H, newMatch, newAdded, Extended
  <2>2. \A j \in I : j \in Nat
    BY <1>1, <1>2
  <2>3. newMatch \subseteq Joined /\ newAdded \subseteq Joined
    BY <1>1, <1>4, <2>2 DEF Joined, Items
  <2>4. ASSUME NEW j \in Nat, r.watched[b] <= j, j < p + Gap
        PROVE  <<b, j, 0>> \in newMatch /\ <<b, j, at>> \in newAdded
    <3>1. p + Gap \in Nat /\ r.watched[b] \in Nat
      BY <1>1, <1>2
    <3> HIDE DEF b, p
    <3> QED BY <2>4, <3>1, ItemsAre
  <2> HIDE DEF q, I, newMatch, newAdded, b, i, p
  <2>5. q \in Watches
    BY <1>1, <1>2, <1>3, <2>1, <2>3 DEF Watches
  <2>6. \A c \in Branch : /\ q.known[c] = (IF c = b THEN Max({r.known[b], p + Gap + Depth}) ELSE r.known[c])
                          /\ q.watched[c] = (IF c = b THEN Max({r.watched[b], p + Gap}) ELSE r.watched[c])
                          /\ q.paidTo[c] = (IF c = b THEN Max({r.paidTo[b], p}) ELSE r.paidTo[c])
    BY <1>2, <2>1
  <2>7. \A c \in Branch : r.known[c] \in Nat /\ r.watched[c] \in Nat /\ r.paidTo[c] \in Nat
    BY <1>2
  <2>8. \A c \in Branch : r.known[c] <= q.known[c] /\ r.watched[c] <= q.watched[c]
    <3>1. r.known[b] <= q.known[b] /\ r.watched[b] <= q.watched[b]
      <4>1. q.known[b] = Max({r.known[b], p + Gap + Depth}) /\ q.watched[b] = Max({r.watched[b], p + Gap})
        BY <1>1, <2>6
      <4>2. r.known[b] \in Nat /\ r.watched[b] \in Nat
        BY <1>1, <2>7
      <4> QED BY <1>1, <1>3, <4>1, <4>2
    <3>2. ASSUME NEW c \in Branch, c # b PROVE r.known[c] <= q.known[c] /\ r.watched[c] <= q.watched[c]
      BY <2>6, <2>7, <3>2
    <3> QED BY <3>1, <3>2
  <2>9. /\ r.match \subseteq q.match /\ r.added \subseteq q.added /\ r.hits \subseteq q.hits /\ op \in q.hits
        /\ newMatch \subseteq q.match /\ newAdded \subseteq q.added
    BY <2>1
  <2>10. ASSUME NEW c \in GapBranch, NEW j \in Nat, r.watched[c] <= j, j < q.watched[c]
         PROVE  <<c, j, 0>> \in q.match /\ <<c, j, at>> \in q.added
    <3>1. c \in Branch /\ (c # b => q.watched[c] = r.watched[c])
      BY <2>6, ParametersAssumption
    <3>2. c = b
      BY <2>7, <2>10, <3>1
    <3>3. j < p + Gap
      <4>1. q.watched[b] = Max({r.watched[b], p + Gap})
        BY <1>1, <2>6
      <4>2. r.watched[b] \in Nat
        BY <1>1, <2>7
      <4> QED BY <1>1, <1>3, <2>10, <3>2, <4>1, <4>2
    <3> QED BY <2>4, <2>9, <2>10, <3>2, <3>3
  <2>11. \A c \in Branch : \/ q.paidTo[c] = r.paidTo[c]
                           \/ \E o \in q.hits : ScriptOf(o) = <<c, q.paidTo[c] - 1>> /\ minedAt[o[1]] = at
    <3>1. p - 1 = i
      BY <1>1 DEF p
    <3> QED BY <1>1, <1>3, <2>6, <2>9, <3>1
  <2>12. ASSUME NEW c \in GapBranch, r.paidTo[c] + Gap <= r.watched[c]
         PROVE  q.paidTo[c] + Gap <= q.watched[c]
    <3>1. CASE c = b
      <4>1. q.paidTo[b] = Max({r.paidTo[b], p}) /\ q.watched[b] = Max({r.watched[b], p + Gap})
        BY <1>1, <2>6
      <4>2. r.paidTo[b] \in Nat /\ r.watched[b] \in Nat
        BY <1>1, <2>7
      <4> QED BY <1>1, <1>3, <2>12, <3>1, <4>1, <4>2
    <3>2. CASE c # b
      BY <2>6, <2>12, <3>2, ParametersAssumption
    <3> QED BY <3>1, <3>2
  <2>13. q \in Watches /\ Grew(r, q, at) /\ op \in q.hits
    BY <2>5, <2>8, <2>9, <2>10, <2>11, <2>12 DEF Grew
  <2> QED BY <2>13 DEF q
<1>5. CASE b \notin GapBranch
  <2>1. q = [known |-> [r.known EXCEPT ![b] = Max({r.known[b], p + Depth})],
             watched |-> r.watched,
             paidTo |-> [r.paidTo EXCEPT ![b] = Max({r.paidTo[b], p})],
             match |-> r.match, added |-> r.added, hits |-> r.hits \cup {op}]
    BY <1>5 DEF Recognise, Watches
  <2> HIDE DEF q, b, i, p
  <2>2. q \in Watches
    BY <1>1, <1>2, <1>3, <2>1 DEF Watches
  <2>3. \A c \in Branch : /\ q.known[c] = (IF c = b THEN Max({r.known[b], p + Depth}) ELSE r.known[c])
                          /\ q.paidTo[c] = (IF c = b THEN Max({r.paidTo[b], p}) ELSE r.paidTo[c])
    BY <1>2, <2>1
  <2>4. \A c \in Branch : r.known[c] \in Nat /\ r.watched[c] \in Nat /\ r.paidTo[c] \in Nat
    BY <1>2
  <2>5. \A c \in Branch : r.known[c] <= q.known[c] /\ r.watched[c] <= q.watched[c]
    BY <1>1, <1>3, <2>1, <2>3, <2>4
  <2>6. \A c \in Branch : \/ q.paidTo[c] = r.paidTo[c]
                          \/ \E o \in q.hits : ScriptOf(o) = <<c, q.paidTo[c] - 1>> /\ minedAt[o[1]] = at
    <3>1. p - 1 = i
      BY <1>1 DEF p
    <3>2. op \in q.hits
      BY <2>1
    <3> QED BY <1>1, <1>3, <2>3, <3>1, <3>2
  <2>7. ASSUME NEW c \in GapBranch
        PROVE  q.paidTo[c] = r.paidTo[c] /\ q.watched[c] = r.watched[c] /\ r.watched[c] \in Nat
    BY <1>5, <2>1, <2>3, <2>4, ParametersAssumption
  <2>8. r.match \subseteq q.match /\ r.added \subseteq q.added /\ r.hits \subseteq q.hits /\ op \in q.hits
    BY <2>1
  <2>9. \A c \in GapBranch : r.paidTo[c] + Gap <= r.watched[c] => q.paidTo[c] + Gap <= q.watched[c]
    BY <2>7
  <2>10. \A c \in GapBranch, j \in Nat : ~(r.watched[c] <= j /\ j < q.watched[c])
    BY <2>7
  <2>11. q \in Watches /\ Grew(r, q, at) /\ op \in q.hits
    BY <2>2, <2>5, <2>6, <2>8, <2>9, <2>10 DEF Grew
  <2> QED BY <2>11 DEF q
<1> QED BY <1>4, <1>5

\* What is known stays known.
LEMMA StaysKnown ==
  ASSUME NEW r \in Watches, NEW q \in Watches, NEW at, Grew(r, q, at), NEW t \in Tx, NEW op \in OutPoints(t),
         IsKnown(ScriptOf(op), r.known)
  PROVE  IsKnown(ScriptOf(op), q.known)
<1> DEFINE b == ScriptOf(op)[1]
           i == ScriptOf(op)[2]
<1>1. b \in Branch /\ Counter[b] <= i /\ i < r.known[b] /\ i \in Nat
  BY OutputIs DEF IsKnown
<1>2. r.known[b] \in Nat /\ q.known[b] \in Nat /\ r.known[b] <= q.known[b]
  BY <1>1 DEF Watches, Grew
<1>3. i < q.known[b]
  BY <1>1, <1>2
<1> QED BY <1>1, <1>3 DEF IsKnown

\* The outputs of one transaction.
LEMMA RecogniseTxIs ==
  ASSUME NEW r \in Watches, NEW t \in Tx, NEW at \in 0..MaxTip, minedAt[t] = at
  PROVE  LET q == RecogniseTx(r, t, at)
         IN  /\ q \in Watches /\ Grew(r, q, at)
             /\ \A op \in OutPoints(t) : IsKnown(ScriptOf(op), r.known) => op \in q.hits
<1> DEFINE n == Len(Outs[t])
           s == OutputsOf(t)
           step(e, k) == IF IsKnown(ScriptOf(s[k]), e.known) THEN Recognise(e, s[k], at) ELSE e
           folds(f) == f = [u \in SUBSET (1..n) |-> IF u = {} THEN r ELSE step(f[u \ {Max(u)}], Max(u))]
           f == CHOOSE x : folds(x)
<1>1. n \in Nat /\ DOMAIN s = 1..n /\ \A k \in 1..n : s[k] = <<t, k>> /\ s[k] \in OutPoints(t)
  BY TransactionsAssumption DEF OutputsOf, OutPoints
<1>2. RecogniseTx(r, t, at) = f[1..n]
  BY <1>1 DEF RecogniseTx, FoldLeft, MapThenFoldSet
<1>3. ASSUME NEW e \in Watches, NEW k \in 1..n
      PROVE  /\ step(e, k) \in Watches /\ Grew(e, step(e, k), at)
             /\ IsKnown(ScriptOf(s[k]), e.known) => s[k] \in step(e, k).hits
  <2>1. CASE IsKnown(ScriptOf(s[k]), e.known)
    <3>1. step(e, k) = Recognise(e, s[k], at)
      BY <2>1
    <3>2. s[k] \in OutPoints(t)
      BY <1>1
    <3> HIDE DEF s, step
    <3> QED BY <2>1, <3>1, <3>2, RecogniseIs
  <2>2. CASE ~IsKnown(ScriptOf(s[k]), e.known)
    <3>1. step(e, k) = e
      BY <2>2
    <3> QED BY <2>2, <3>1, GrewReflexive
  <2> QED BY <2>1, <2>2
<1> HIDE DEF s, step
<1>4. folds(f)
  <2> DEFINE T == [p \in (1..n) \X Watches |-> step(p[2], p[1])]
  <2>1. T \in [(1..n) \X Watches -> Watches]
    BY <1>3
  <2>2. PICK g : FoldsTo(g, n, Watches, r, T)
    <3> HIDE DEF T, n
    <3> QED BY <1>1, <2>1, FoldSolution
  <2>3. ASSUME NEW u \in SUBSET (1..n), u # {} PROVE g[u] = step(g[u \ {Max(u)}], Max(u))
    <3>1. Max(u) \in 1..n
      BY <1>1, <2>3, MaxOf
    <3>2. g[u \ {Max(u)}] \in Watches
      BY <2>2 DEF FoldsTo
    <3>3. T[<<Max(u), g[u \ {Max(u)}]>>] = step(g[u \ {Max(u)}], Max(u))
      BY <3>1, <3>2
    <3> QED BY <2>2, <2>3, <3>3 DEF FoldsTo
  <2>4. g[{}] = r
    BY <2>2 DEF FoldsTo
  <2>5. folds(g)
    <3>1. g \in [SUBSET (1..n) -> Watches]
      BY <2>2 DEF FoldsTo
    <3>2. \A u \in SUBSET (1..n) : g[u] = IF u = {} THEN r ELSE step(g[u \ {Max(u)}], Max(u))
      BY <2>3, <2>4
    <3> QED BY <3>1, <3>2
  <2> HIDE DEF folds
  <2> QED BY <2>5
<1> HIDE DEF f, n
<1> DEFINE S == {k \in Nat : /\ f[1..k] \in Watches /\ Grew(r, f[1..k], at)
                             /\ \A j \in 1..k : IsKnown(ScriptOf(s[j]), r.known) => s[j] \in f[1..k].hits}
<1>5. 0 \in S
  <2>1. 1..0 = {} /\ 1..0 \in SUBSET (1..n)
    OBVIOUS
  <2>2. f[1..0] = r
    BY <1>4, <2>1
  <2> QED BY <2>1, <2>2, GrewReflexive
<1>6. ASSUME NEW k \in 0..(n - 1), k \in S PROVE k + 1 \in S
  <2>1. k + 1 \in 1..n /\ k \in Nat
    BY <1>1, <1>6
  <2>2. f[1..(k + 1)] = step(f[1..k], k + 1)
    <3>1. /\ 1..(k + 1) # {} /\ 1..(k + 1) \in SUBSET (1..n) /\ Max(1..(k + 1)) = k + 1
          /\ (1..(k + 1)) \ {k + 1} = 1..k
      BY <1>1, <2>1, Prefix
    <3> QED BY <1>4, <3>1
  <2> DEFINE e == f[1..k]
             q == step(e, k + 1)
  <2>3. e \in Watches /\ Grew(r, e, at) /\ \A j \in 1..k : IsKnown(ScriptOf(s[j]), r.known) => s[j] \in e.hits
    BY <1>6
  <2> HIDE DEF e
  <2>4. /\ q \in Watches /\ Grew(e, q, at)
        /\ IsKnown(ScriptOf(s[k + 1]), e.known) => s[k + 1] \in q.hits
    BY <1>3, <2>1, <2>3
  <2> HIDE DEF q
  <2>5. Grew(r, q, at)
    BY <2>3, <2>4, GrewTransitive
  <2>6. ASSUME NEW j \in 1..(k + 1), IsKnown(ScriptOf(s[j]), r.known) PROVE s[j] \in q.hits
    <3>1. CASE j \in 1..k
      BY <2>3, <2>4, <2>6, <3>1 DEF Grew
    <3>2. CASE j = k + 1
      <4>1. s[k + 1] \in OutPoints(t)
        BY <1>1, <2>1
      <4> QED BY <2>3, <2>4, <2>6, <3>2, <4>1, StaysKnown
    <3> QED BY <2>1, <3>1, <3>2
  <2>7. f[1..(k + 1)] = q /\ k + 1 \in Nat
    BY <2>1, <2>2 DEF q, e
  <2> QED BY <2>4, <2>5, <2>6, <2>7
<1>7. n \in S
  <2> HIDE DEF S
  <2>1. \A k \in 0..n : k \in S
    BY <1>1, <1>5, <1>6, UpTo, Zenon
  <2>2. n \in 0..n
    BY <1>1
  <2> QED BY <2>1, <2>2
<1>8. ASSUME NEW op \in OutPoints(t) PROVE \E j \in 1..n : op = s[j]
  BY <1>1 DEF OutPoints, n
<1> QED BY <1>2, <1>7, <1>8

\* A whole block: every output that pays an address known before it is a find.
LEMMA RecogniseBlockIs ==
  ASSUME NEW r \in Watches, NEW at \in 0..MaxTip
  PROVE  LET q == RecogniseBlock(r, at)
         IN  /\ q \in Watches /\ Grew(r, q, at)
             /\ \A t \in Tx : minedAt[t] = at =>
                  \A op \in OutPoints(t) : IsKnown(ScriptOf(op), r.known) => op \in q.hits
<1> DEFINE n == Len(Order)
           step(e, k) == IF minedAt[Order[k]] = at THEN RecogniseTx(e, Order[k], at) ELSE e
           folds(f) == f = [u \in SUBSET (1..n) |-> IF u = {} THEN r ELSE step(f[u \ {Max(u)}], Max(u))]
           f == CHOOSE x : folds(x)
           Found(q, k) == minedAt[Order[k]] = at =>
                            \A op \in OutPoints(Order[k]) : IsKnown(ScriptOf(op), r.known) => op \in q.hits
<1>1. n \in Nat /\ DOMAIN Order = 1..n /\ (\A k \in 1..n : Order[k] \in Tx) /\ Order \in Seq(Tx)
  BY TransactionsAssumption
<1>2. RecogniseBlock(r, at) = f[1..n]
  BY <1>1 DEF RecogniseBlock, FoldLeft, MapThenFoldSet
<1>3. ASSUME NEW e \in Watches, NEW k \in 1..n
      PROVE  /\ step(e, k) \in Watches /\ Grew(e, step(e, k), at)
             /\ minedAt[Order[k]] = at =>
                  \A op \in OutPoints(Order[k]) : IsKnown(ScriptOf(op), e.known) => op \in step(e, k).hits
  <2>1. CASE minedAt[Order[k]] = at
    <3>1. step(e, k) = RecogniseTx(e, Order[k], at) /\ Order[k] \in Tx
      BY <1>1, <2>1
    <3> HIDE DEF step
    <3> QED BY <2>1, <3>1, RecogniseTxIs
  <2>2. CASE minedAt[Order[k]] # at
    <3>1. step(e, k) = e
      BY <2>2
    <3> QED BY <2>2, <3>1, GrewReflexive
  <2> QED BY <2>1, <2>2
<1> HIDE DEF step
<1>4. folds(f)
  <2> DEFINE T == [p \in (1..n) \X Watches |-> step(p[2], p[1])]
  <2>1. T \in [(1..n) \X Watches -> Watches]
    BY <1>3
  <2>2. PICK g : FoldsTo(g, n, Watches, r, T)
    <3> HIDE DEF T, n
    <3> QED BY <1>1, <2>1, FoldSolution
  <2>3. ASSUME NEW u \in SUBSET (1..n), u # {} PROVE g[u] = step(g[u \ {Max(u)}], Max(u))
    <3>1. Max(u) \in 1..n
      BY <1>1, <2>3, MaxOf
    <3>2. g[u \ {Max(u)}] \in Watches
      BY <2>2 DEF FoldsTo
    <3>3. T[<<Max(u), g[u \ {Max(u)}]>>] = step(g[u \ {Max(u)}], Max(u))
      BY <3>1, <3>2
    <3> QED BY <2>2, <2>3, <3>3 DEF FoldsTo
  <2>4. g[{}] = r
    BY <2>2 DEF FoldsTo
  <2>5. folds(g)
    <3>1. g \in [SUBSET (1..n) -> Watches]
      BY <2>2 DEF FoldsTo
    <3>2. \A u \in SUBSET (1..n) : g[u] = IF u = {} THEN r ELSE step(g[u \ {Max(u)}], Max(u))
      BY <2>3, <2>4
    <3> QED BY <3>1, <3>2
  <2> HIDE DEF folds
  <2> QED BY <2>5
<1> HIDE DEF f, n
<1> DEFINE S == {k \in Nat : f[1..k] \in Watches /\ Grew(r, f[1..k], at) /\ \A j \in 1..k : Found(f[1..k], j)}
<1>5. 0 \in S
  <2>1. 1..0 = {} /\ 1..0 \in SUBSET (1..n)
    OBVIOUS
  <2>2. f[1..0] = r
    BY <1>4, <2>1
  <2> QED BY <2>1, <2>2, GrewReflexive
<1>6. ASSUME NEW k \in 0..(n - 1), k \in S PROVE k + 1 \in S
  <2>1. k + 1 \in 1..n /\ k \in Nat
    BY <1>1, <1>6
  <2>2. f[1..(k + 1)] = step(f[1..k], k + 1)
    <3>1. /\ 1..(k + 1) # {} /\ 1..(k + 1) \in SUBSET (1..n) /\ Max(1..(k + 1)) = k + 1
          /\ (1..(k + 1)) \ {k + 1} = 1..k
      BY <1>1, <2>1, Prefix
    <3> QED BY <1>4, <3>1
  <2> DEFINE e == f[1..k]
             q == step(e, k + 1)
  <2>3. e \in Watches /\ Grew(r, e, at) /\ \A j \in 1..k : Found(e, j)
    BY <1>6
  <2> HIDE DEF e
  <2>4. /\ q \in Watches /\ Grew(e, q, at)
        /\ minedAt[Order[k + 1]] = at =>
             \A op \in OutPoints(Order[k + 1]) : IsKnown(ScriptOf(op), e.known) => op \in q.hits
    BY <1>3, <2>1, <2>3
  <2> HIDE DEF q
  <2>5. Grew(r, q, at)
    BY <2>3, <2>4, GrewTransitive
  <2>6. ASSUME NEW j \in 1..(k + 1) PROVE Found(q, j)
    <3>1. CASE j \in 1..k
      BY <2>3, <2>4, <3>1 DEF Grew
    <3>2. CASE j = k + 1
      <4>1. Order[k + 1] \in Tx
        BY <1>1, <2>1
      <4> QED BY <2>3, <2>4, <3>2, <4>1, StaysKnown
    <3> QED BY <2>1, <3>1, <3>2
  <2>7. f[1..(k + 1)] = q /\ k + 1 \in Nat
    BY <2>1, <2>2 DEF q, e
  <2> HIDE DEF Found
  <2> QED BY <2>4, <2>5, <2>6, <2>7
<1>7. n \in S
  <2> HIDE DEF S
  <2>1. \A k \in 0..n : k \in S
    BY <1>1, <1>5, <1>6, UpTo, Zenon
  <2>2. n \in 0..n
    BY <1>1
  <2> QED BY <2>1, <2>2
<1>8. ASSUME NEW t \in Tx PROVE \E j \in 1..n : t = Order[j]
  BY <1>1 DEF ToSet
<1> QED BY <1>2, <1>7, <1>8

-----------------------------------------------------------------------------
(* Outputs that are followed: FollowSpends.                                *)

\* What is followed at depth 0 was paid out by a close.
Followings ==
  {f \in UNION {[D -> 0..(FollowDepth - 1)] : D \in SUBSET AllOutputs} :
     \A x \in DOMAIN f : f[x] = 0 => \E c \in Chan : Spends(x[1], Funding[c])}

\* No wallet address is looked for under this script.
Foreign(x) == ~IsKnown(ScriptOf(x), known)

LEMMA FollowingIs ==
  ASSUME NEW f
  PROVE  f \in Followings <=>
           /\ f = [x \in DOMAIN f |-> f[x]] /\ DOMAIN f \subseteq AllOutputs
           /\ \A x \in DOMAIN f : /\ f[x] \in {0, 1}
                                  /\ f[x] = 0 => \E c \in Chan : Spends(x[1], Funding[c])
<1>1. 0..(FollowDepth - 1) = {0, 1}
  BY DEF FollowDepth
<1>2. f \in UNION {[D -> {0, 1}] : D \in SUBSET AllOutputs} <=>
        /\ f = [x \in DOMAIN f |-> f[x]] /\ DOMAIN f \subseteq AllOutputs /\ \A x \in DOMAIN f : f[x] \in {0, 1}
  OBVIOUS
<1> QED BY <1>1, <1>2 DEF Followings

\* A close spends nothing but its channel's funding output, which no close
\* paid out: what is followed at depth 0 is not paid out by what is followed.
LEMMA NoCloseOfClose ==
  ASSUME NEW f \in Followings, NEW t \in Tx, NEW op \in DOMAIN f, f[op] = 0, Spends(t, op)
  PROVE  \A c \in Chan : ~Spends(t, Funding[c])
<1> SUFFICES ASSUME NEW c \in Chan, Spends(t, Funding[c]) PROVE FALSE
  OBVIOUS
<1>1. op = Funding[c]
  BY ChannelsAssumption DEF Spends
<1>2. PICK d \in Chan : Spends(op[1], Funding[d])
  BY FollowingIs
<1>3. op[1] \in Tx
  BY <1>1, ChannelsAssumption
<1> QED BY <1>1, <1>2, <1>3, ChannelsAssumption

\* An input is never an output of its own transaction.
LEMMA InputsAreEarlier ==
  ASSUME NEW t \in Tx, NEW op, Spends(t, op)
  PROVE  op[1] # t /\ op \notin OutPoints(t)
<1>1. PICK i \in DOMAIN Order : t = Order[i]
  BY TransactionsAssumption DEF ToSet
<1>2. op[1] = t => i < i
  BY <1>1, TransactionsAssumption DEF Spends
<1>3. i \in Nat
  BY TransactionsAssumption
<1> QED BY <1>2, <1>3, OutputIs

\* One input.
LEMMA FollowInputIs ==
  ASSUME NEW f \in Followings, NEW t \in Tx, NEW op, Spends(t, op)
  PROVE  LET q == FollowInput(f, t, op)
         IN  /\ q \in Followings
             /\ \A x \in DOMAIN f : x # op => x \in DOMAIN q /\ (q[x] = f[x] \/ x \in OutPoints(t))
             /\ op \in DOMAIN f /\ f[op] = 0 => \A x \in OutPoints(t) : Foreign(x) => x \in DOMAIN q
             /\ \A x \in DOMAIN q : \/ x \in DOMAIN f /\ q[x] = f[x]
                                    \/ x \in OutPoints(t) /\ q[x] = 1 /\ op \in DOMAIN f /\ f[op] = 0
<1> DEFINE q == FollowInput(f, t, op)
           rest == [x \in DOMAIN f \ {op} |-> f[x]]
           new == {x \in OutPoints(t) : Foreign(x)}
<1>1. /\ DOMAIN f \subseteq AllOutputs
      /\ \A x \in DOMAIN f : f[x] \in {0, 1} /\ (f[x] = 0 => \E c \in Chan : Spends(x[1], Funding[c]))
  BY FollowingIs
<1>2. op \notin OutPoints(t)
  BY InputsAreEarlier
<1>3. CASE op \notin DOMAIN f
  <2>1. q = f
    BY <1>3 DEF FollowInput
  <2> QED BY <1>3, <2>1
<1>4. CASE op \in DOMAIN f /\ f[op] = 1
  <2>1. q = rest
    BY <1>4 DEF FollowInput, FollowDepth
  <2>2. rest \in Followings
    BY <1>1, FollowingIs
  <2> QED BY <1>4, <2>1, <2>2
<1>5. CASE op \in DOMAIN f /\ f[op] = 0
  <2>1. q = [x \in new \cup DOMAIN rest |-> IF x \in new THEN 1 ELSE rest[x]]
    BY <1>5 DEF FollowInput, FollowDepth, Follow, Foreign
  <2>2. DOMAIN q = new \cup (DOMAIN f \ {op}) /\ q = [x \in DOMAIN q |-> q[x]]
        /\ \A x \in DOMAIN q : q[x] = IF x \in new THEN 1 ELSE f[x]
    BY <2>1
  <2>3. new \subseteq AllOutputs
    BY OutputIs
  <2> HIDE DEF q, rest, new
  <2>4. q \in Followings
    BY <1>1, <2>2, <2>3, FollowingIs
  <2>5. new \subseteq OutPoints(t) /\ \A x \in OutPoints(t) : Foreign(x) => x \in new
    BY DEF new
  <2>6. /\ \A x \in DOMAIN f : x # op => x \in DOMAIN q /\ (q[x] = f[x] \/ x \in OutPoints(t))
        /\ \A x \in OutPoints(t) : Foreign(x) => x \in DOMAIN q
        /\ \A x \in DOMAIN q : \/ x \in DOMAIN f /\ q[x] = f[x]
                               \/ x \in OutPoints(t) /\ q[x] = 1
    BY <2>2, <2>5
  <2> QED BY <1>5, <2>4, <2>6 DEF q
<1> QED BY <1>1, <1>3, <1>4, <1>5

\* All inputs of one transaction.
LEMMA FollowTxIs ==
  ASSUME NEW f \in Followings, NEW t \in Tx
  PROVE  LET q == FollowTx(f, t)
         IN  /\ q \in Followings
             /\ \A x \in DOMAIN f : Spends(t, x) \/ (x \in DOMAIN q /\ (f[x] = 0 => q[x] = 0))
             /\ (\E op \in DOMAIN f : f[op] = 0 /\ Spends(t, op)) =>
                  \A x \in OutPoints(t) : Foreign(x) => x \in DOMAIN q
<1> DEFINE n == Len(Ins[t])
           step(e, k) == FollowInput(e, t, Ins[t][k])
           folds(g) == g = [u \in SUBSET (1..n) |-> IF u = {} THEN f ELSE step(g[u \ {Max(u)}], Max(u))]
           g == CHOOSE x : folds(x)
           \* After the first k inputs.
           Kept(e, k) == \A x \in DOMAIN f : \/ \E j \in 1..k : x = Ins[t][j]
                                             \/ x \in DOMAIN e /\ (e[x] = f[x] \/ x \in OutPoints(t))
           Joins(e, k) == (\E j \in 1..k : Ins[t][j] \in DOMAIN f /\ f[Ins[t][j]] = 0) =>
                            \A x \in OutPoints(t) : Foreign(x) => x \in DOMAIN e
           Added(e) == \A x \in DOMAIN e :
                         \/ x \in DOMAIN f /\ e[x] = f[x]
                         \/ x \in OutPoints(t) /\ e[x] = 1 /\ \E op \in DOMAIN f : f[op] = 0 /\ Spends(t, op)
<1>1. n \in Nat /\ DOMAIN Ins[t] = 1..n /\ \A k \in 1..n : Spends(t, Ins[t][k])
  <2>1. Ins[t] \in Seq(ToSet(Ins[t]))
    BY TransactionsAssumption
  <2> QED BY <2>1 DEF Spends
<1>2. FollowTx(f, t) = g[1..n]
  BY <1>1 DEF FollowTx, FoldLeft, MapThenFoldSet
<1>3. ASSUME NEW e \in Followings, NEW k \in 1..n
      PROVE  LET q == step(e, k)
                 op == Ins[t][k]
             IN  /\ q \in Followings
                 /\ \A x \in DOMAIN e : x # op => x \in DOMAIN q /\ (q[x] = e[x] \/ x \in OutPoints(t))
                 /\ op \in DOMAIN e /\ e[op] = 0 => \A x \in OutPoints(t) : Foreign(x) => x \in DOMAIN q
                 /\ \A x \in DOMAIN q : \/ x \in DOMAIN e /\ q[x] = e[x]
                                        \/ x \in OutPoints(t) /\ q[x] = 1 /\ op \in DOMAIN e /\ e[op] = 0
  <2>1. Spends(t, Ins[t][k])
    BY <1>1
  <2> QED BY <2>1, FollowInputIs
<1> HIDE DEF step
<1>4. folds(g)
  <2> DEFINE T == [p \in (1..n) \X Followings |-> step(p[2], p[1])]
  <2>1. T \in [(1..n) \X Followings -> Followings]
    BY <1>3
  <2>2. PICK i : FoldsTo(i, n, Followings, f, T)
    <3> HIDE DEF T, n
    <3> QED BY <1>1, <2>1, FoldSolution
  <2>3. ASSUME NEW u \in SUBSET (1..n), u # {} PROVE i[u] = step(i[u \ {Max(u)}], Max(u))
    <3>1. Max(u) \in 1..n
      BY <1>1, <2>3, MaxOf
    <3>2. i[u \ {Max(u)}] \in Followings
      BY <2>2 DEF FoldsTo
    <3>3. T[<<Max(u), i[u \ {Max(u)}]>>] = step(i[u \ {Max(u)}], Max(u))
      BY <3>1, <3>2
    <3> QED BY <2>2, <2>3, <3>3 DEF FoldsTo
  <2>4. i[{}] = f
    BY <2>2 DEF FoldsTo
  <2>5. folds(i)
    <3>1. i \in [SUBSET (1..n) -> Followings]
      BY <2>2 DEF FoldsTo
    <3>2. \A u \in SUBSET (1..n) : i[u] = IF u = {} THEN f ELSE step(i[u \ {Max(u)}], Max(u))
      BY <2>3, <2>4
    <3> QED BY <3>1, <3>2
  <2> HIDE DEF folds
  <2> QED BY <2>5
<1> HIDE DEF g, n
<1> DEFINE S == {k \in Nat : g[1..k] \in Followings /\ Kept(g[1..k], k) /\ Joins(g[1..k], k) /\ Added(g[1..k])}
<1>5. 0 \in S
  <2>1. 1..0 = {} /\ 1..0 \in SUBSET (1..n)
    OBVIOUS
  <2>2. g[1..0] = f
    BY <1>4, <2>1
  <2> QED BY <2>1, <2>2
<1>6. ASSUME NEW k \in 0..(n - 1), k \in S PROVE k + 1 \in S
  <2>1. k + 1 \in 1..n /\ k \in Nat
    BY <1>1, <1>6
  <2>2. g[1..(k + 1)] = step(g[1..k], k + 1)
    <3>1. /\ 1..(k + 1) # {} /\ 1..(k + 1) \in SUBSET (1..n) /\ Max(1..(k + 1)) = k + 1
          /\ (1..(k + 1)) \ {k + 1} = 1..k
      BY <1>1, <2>1, Prefix
    <3> QED BY <1>4, <3>1
  <2> DEFINE e == g[1..k]
             q == step(e, k + 1)
             op == Ins[t][k + 1]
  <2>3. e \in Followings /\ Kept(e, k) /\ Joins(e, k) /\ Added(e)
    BY <1>6
  <2>4. Spends(t, op) /\ op \notin OutPoints(t)
    BY <1>1, <2>1, InputsAreEarlier
  <2> HIDE DEF e
  <2>5. /\ q \in Followings
        /\ \A x \in DOMAIN e : x # op => x \in DOMAIN q /\ (q[x] = e[x] \/ x \in OutPoints(t))
        /\ op \in DOMAIN e /\ e[op] = 0 => \A x \in OutPoints(t) : Foreign(x) => x \in DOMAIN q
        /\ \A x \in DOMAIN q : \/ x \in DOMAIN e /\ q[x] = e[x]
                               \/ x \in OutPoints(t) /\ q[x] = 1 /\ op \in DOMAIN e /\ e[op] = 0
    BY <1>3, <2>1, <2>3
  <2>6. \A j : j \in 1..(k + 1) <=> j \in 1..k \/ j = k + 1
    BY <2>1
  <2> HIDE DEF q
  <2>7. Kept(q, k + 1)
    <3>1. ASSUME NEW x \in DOMAIN f, \A j \in 1..(k + 1) : x # Ins[t][j]
          PROVE  x \in DOMAIN q /\ (q[x] = f[x] \/ x \in OutPoints(t))
      <4>1. x # op /\ x \in DOMAIN e /\ (e[x] = f[x] \/ x \in OutPoints(t))
        BY <2>3, <2>6, <3>1
      <4> QED BY <2>5, <4>1
    <3> QED BY <3>1
  <2>8. Joins(q, k + 1)
    <3>1. ASSUME NEW j \in 1..(k + 1), Ins[t][j] \in DOMAIN f, f[Ins[t][j]] = 0,
                 NEW x \in OutPoints(t), Foreign(x)
          PROVE  x \in DOMAIN q
      <4>1. x # op
        BY <2>4
      <4>2. CASE \E i \in 1..k : op = Ins[t][i]
        BY <2>3, <2>5, <2>6, <3>1, <4>1, <4>2
      <4>3. CASE j = k + 1 /\ ~\E i \in 1..k : op = Ins[t][i]
        <5>1. op \in DOMAIN e /\ e[op] = f[op]
          BY <2>3, <2>4, <3>1, <4>3
        <5> QED BY <2>5, <3>1, <4>3, <5>1
      <4>4. CASE j \in 1..k
        BY <2>3, <2>5, <3>1, <4>1, <4>4
      <4> QED BY <2>6, <4>2, <4>3, <4>4
    <3> QED BY <3>1
  <2>9. Added(q)
    <3>1. ASSUME NEW x \in DOMAIN q, ~(x \in DOMAIN f /\ q[x] = f[x])
          PROVE  x \in OutPoints(t) /\ q[x] = 1 /\ \E o \in DOMAIN f : f[o] = 0 /\ Spends(t, o)
      <4>1. CASE x \in DOMAIN e /\ q[x] = e[x]
        BY <2>3, <3>1, <4>1
      <4>2. CASE x \in OutPoints(t) /\ q[x] = 1 /\ op \in DOMAIN e /\ e[op] = 0
        <5>1. op \in DOMAIN f /\ f[op] = 0
          BY <2>3, <2>4, <4>2
        <5> QED BY <2>4, <4>2, <5>1
      <4> QED BY <2>5, <4>1, <4>2
    <3> QED BY <3>1
  <2>10. g[1..(k + 1)] = q /\ k + 1 \in Nat
    BY <2>1, <2>2 DEF q, e
  <2> HIDE DEF Kept, Joins, Added
  <2> QED BY <2>5, <2>7, <2>8, <2>9, <2>10
<1>7. n \in S
  <2> HIDE DEF S
  <2>1. \A k \in 0..n : k \in S
    BY <1>1, <1>5, <1>6, UpTo, Zenon
  <2>2. n \in 0..n
    BY <1>1
  <2> QED BY <2>1, <2>2
<1> DEFINE q == g[1..n]
<1>8. q \in Followings /\ Kept(q, n) /\ Joins(q, n) /\ Added(q)
  BY <1>7
<1> HIDE DEF q
<1>9. ASSUME NEW op, Spends(t, op) PROVE \E j \in 1..n : op = Ins[t][j]
  BY <1>1, <1>9, TransactionsAssumption DEF Spends, ToSet
<1>10. ASSUME NEW x \in DOMAIN f, ~Spends(t, x) PROVE x \in DOMAIN q /\ (f[x] = 0 => q[x] = 0)
  <2>1. x \in DOMAIN q /\ (q[x] = f[x] \/ x \in OutPoints(t))
    BY <1>1, <1>8, <1>10
  <2>2. ASSUME f[x] = 0, q[x] # f[x] PROVE FALSE
    <3>1. x \in OutPoints(t) /\ \E op \in DOMAIN f : f[op] = 0 /\ Spends(t, op)
      BY <1>8, <2>1, <2>2
    <3>2. PICK c \in Chan : Spends(x[1], Funding[c])
      BY <2>2, FollowingIs
    <3>3. x[1] = t
      BY <3>1, OutputIs
    <3> QED BY <3>1, <3>2, <3>3, NoCloseOfClose
  <2> QED BY <2>1, <2>2
<1>11. ASSUME NEW op \in DOMAIN f, f[op] = 0, Spends(t, op), NEW x \in OutPoints(t), Foreign(x)
       PROVE  x \in DOMAIN q
  BY <1>8, <1>9, <1>11
<1> QED BY <1>2, <1>8, <1>10, <1>11 DEF q

\* A whole block. What closes paid out goes on being followed unless it is
\* spent; whatever spends it is followed in turn.
LEMMA FollowSpendsIs ==
  ASSUME minedAt \in Chains, NEW f \in Followings, NEW at, at \in Nat \ {0}
  PROVE  LET q == FollowSpends(f, at)
         IN  /\ q \in Followings
             /\ \A x \in DOMAIN f : \/ \E t \in Tx : minedAt[t] = at /\ Spends(t, x)
                                    \/ x \in DOMAIN q /\ (f[x] = 0 => q[x] = 0)
             /\ \A t \in Tx, op \in DOMAIN f : minedAt[t] = at /\ f[op] = 0 /\ Spends(t, op) =>
                  \A x \in OutPoints(t) : Foreign(x) =>
                    x \in DOMAIN q \/ \E u \in Tx : minedAt[u] = at /\ Spends(u, x)
<1> DEFINE n == Len(Order)
           step(e, k) == IF minedAt[Order[k]] = at THEN FollowTx(e, Order[k]) ELSE e
           folds(g) == g = [u \in SUBSET (1..n) |-> IF u = {} THEN f ELSE step(g[u \ {Max(u)}], Max(u))]
           g == CHOOSE x : folds(x)
           \* After the first k transactions.
           SpentBy(x, k) == \E j \in 1..k : minedAt[Order[j]] = at /\ Spends(Order[j], x)
           Kept(e, k) == \A x \in DOMAIN f : SpentBy(x, k) \/ (x \in DOMAIN e /\ (f[x] = 0 => e[x] = 0))
           Joins(e, k) == \A j \in 1..k, op \in DOMAIN f :
                            minedAt[Order[j]] = at /\ f[op] = 0 /\ Spends(Order[j], op) =>
                              \A x \in OutPoints(Order[j]) : Foreign(x) => x \in DOMAIN e \/ SpentBy(x, k)
<1>1. /\ n \in Nat /\ DOMAIN Order = 1..n /\ (\A k \in 1..n : Order[k] \in Tx)
      /\ \A i, j \in 1..n : Order[i] = Order[j] => i = j
  BY TransactionsAssumption
<1>2. FollowSpends(f, at) = g[1..n]
  BY <1>1 DEF FollowSpends, FoldLeft, MapThenFoldSet
<1>3. ASSUME NEW e \in Followings, NEW k \in 1..n
      PROVE  /\ step(e, k) \in Followings
             /\ minedAt[Order[k]] # at => step(e, k) = e
             /\ minedAt[Order[k]] = at =>
                  /\ \A x \in DOMAIN e : \/ Spends(Order[k], x)
                                         \/ x \in DOMAIN step(e, k) /\ (e[x] = 0 => step(e, k)[x] = 0)
                  /\ (\E op \in DOMAIN e : e[op] = 0 /\ Spends(Order[k], op)) =>
                       \A x \in OutPoints(Order[k]) : Foreign(x) => x \in DOMAIN step(e, k)
  <2>1. CASE minedAt[Order[k]] = at
    <3>1. step(e, k) = FollowTx(e, Order[k]) /\ Order[k] \in Tx
      BY <1>1, <2>1
    <3> HIDE DEF step
    <3> QED BY <2>1, <3>1, FollowTxIs
  <2>2. CASE minedAt[Order[k]] # at
    BY <2>2
  <2> QED BY <2>1, <2>2
<1> HIDE DEF step
<1>4. folds(g)
  <2> DEFINE T == [p \in (1..n) \X Followings |-> step(p[2], p[1])]
  <2>1. T \in [(1..n) \X Followings -> Followings]
    BY <1>3
  <2>2. PICK i : FoldsTo(i, n, Followings, f, T)
    <3> HIDE DEF T, n
    <3> QED BY <1>1, <2>1, FoldSolution
  <2>3. ASSUME NEW u \in SUBSET (1..n), u # {} PROVE i[u] = step(i[u \ {Max(u)}], Max(u))
    <3>1. Max(u) \in 1..n
      BY <1>1, <2>3, MaxOf
    <3>2. i[u \ {Max(u)}] \in Followings
      BY <2>2 DEF FoldsTo
    <3>3. T[<<Max(u), i[u \ {Max(u)}]>>] = step(i[u \ {Max(u)}], Max(u))
      BY <3>1, <3>2
    <3> QED BY <2>2, <2>3, <3>3 DEF FoldsTo
  <2>4. i[{}] = f
    BY <2>2 DEF FoldsTo
  <2>5. folds(i)
    <3>1. i \in [SUBSET (1..n) -> Followings]
      BY <2>2 DEF FoldsTo
    <3>2. \A u \in SUBSET (1..n) : i[u] = IF u = {} THEN f ELSE step(i[u \ {Max(u)}], Max(u))
      BY <2>3, <2>4
    <3> QED BY <3>1, <3>2
  <2> HIDE DEF folds
  <2> QED BY <2>5
<1> HIDE DEF g, n
<1> DEFINE S == {k \in Nat : g[1..k] \in Followings /\ Kept(g[1..k], k) /\ Joins(g[1..k], k)}
<1>5. 0 \in S
  <2>1. 1..0 = {} /\ 1..0 \in SUBSET (1..n)
    OBVIOUS
  <2>2. g[1..0] = f
    BY <1>4, <2>1
  <2> QED BY <2>1, <2>2
<1>6. ASSUME NEW k \in 0..(n - 1), k \in S PROVE k + 1 \in S
  <2>1. k + 1 \in 1..n /\ k \in Nat
    BY <1>1, <1>6
  <2>2. g[1..(k + 1)] = step(g[1..k], k + 1)
    <3>1. /\ 1..(k + 1) # {} /\ 1..(k + 1) \in SUBSET (1..n) /\ Max(1..(k + 1)) = k + 1
          /\ (1..(k + 1)) \ {k + 1} = 1..k
      BY <1>1, <2>1, Prefix
    <3> QED BY <1>4, <3>1
  <2> DEFINE e == g[1..k]
             q == step(e, k + 1)
             t == Order[k + 1]
  <2>3. e \in Followings /\ Kept(e, k) /\ Joins(e, k)
    BY <1>6
  <2> HIDE DEF e
  <2>4. /\ q \in Followings
        /\ minedAt[t] # at => q = e
        /\ minedAt[t] = at =>
             /\ \A x \in DOMAIN e : Spends(t, x) \/ (x \in DOMAIN q /\ (e[x] = 0 => q[x] = 0))
             /\ (\E op \in DOMAIN e : e[op] = 0 /\ Spends(t, op)) =>
                  \A x \in OutPoints(t) : Foreign(x) => x \in DOMAIN q
    BY <1>3, <2>1, <2>3
  <2>5. /\ \A j : j \in 1..(k + 1) <=> j \in 1..k \/ j = k + 1
        /\ \A j \in 1..(k + 1) : j \in 1..n
    BY <1>1, <2>1
  <2> HIDE DEF q
  <2>6. \A x : SpentBy(x, k + 1) <=> SpentBy(x, k) \/ (minedAt[t] = at /\ Spends(t, x))
    BY <2>5
  <2>7. \A x \in DOMAIN e : SpentBy(x, k + 1) \/ (x \in DOMAIN q /\ (e[x] = 0 => q[x] = 0))
    BY <2>4, <2>6
  <2> HIDE DEF SpentBy
  <2>8. Kept(q, k + 1)
    BY <2>3, <2>6, <2>7
  <2>9. ASSUME NEW j \in 1..(k + 1), NEW op \in DOMAIN f,
               minedAt[Order[j]] = at, f[op] = 0, Spends(Order[j], op),
               NEW x \in OutPoints(Order[j]), Foreign(x)
        PROVE  x \in DOMAIN q \/ SpentBy(x, k + 1)
    <3>1. CASE j \in 1..k
      <4>1. x \in DOMAIN e \/ SpentBy(x, k)
        BY <2>3, <2>9, <3>1
      <4> QED BY <2>6, <2>7, <4>1
    <3>2. CASE j = k + 1
      <4>1. ~SpentBy(op, k)
        <5> SUFFICES ASSUME NEW i \in 1..k, minedAt[Order[i]] = at, Spends(Order[i], op) PROVE FALSE
          BY DEF SpentBy
        <5>1. i \in 1..n /\ i # j /\ Order[i] \in Tx /\ Order[j] \in Tx
          BY <1>1, <2>1, <2>5, <3>2
        <5>2. Order[i] = Order[j]
          BY <2>9, <5>1, OneSpender
        <5> QED BY <1>1, <2>5, <5>1, <5>2
      <4>2. op \in DOMAIN e /\ e[op] = 0
        BY <2>3, <2>9, <4>1
      <4> QED BY <2>4, <2>9, <3>2, <4>2
    <3> QED BY <2>5, <3>1, <3>2
  <2>10. Joins(q, k + 1)
    BY <2>9
  <2>11. g[1..(k + 1)] = q /\ k + 1 \in Nat
    BY <2>1, <2>2 DEF q, e
  <2> HIDE DEF Kept, Joins
  <2> QED BY <2>4, <2>8, <2>10, <2>11
<1>7. n \in S
  <2> HIDE DEF S
  <2>1. \A k \in 0..n : k \in S
    BY <1>1, <1>5, <1>6, UpTo, Zenon
  <2>2. n \in 0..n
    BY <1>1
  <2> QED BY <2>1, <2>2
<1> DEFINE q == g[1..n]
<1>8. q \in Followings /\ Kept(q, n) /\ Joins(q, n)
  BY <1>7
<1> HIDE DEF q
<1>9. \A x : SpentBy(x, n) => \E u \in Tx : minedAt[u] = at /\ Spends(u, x)
  BY <1>1
<1>10. ASSUME NEW t \in Tx PROVE \E j \in 1..n : t = Order[j]
  BY <1>1 DEF ToSet
<1> HIDE DEF SpentBy
<1>11. \A x \in DOMAIN f : \/ \E t \in Tx : minedAt[t] = at /\ Spends(t, x)
                           \/ x \in DOMAIN q /\ (f[x] = 0 => q[x] = 0)
  BY <1>8, <1>9
<1>12. ASSUME NEW t \in Tx, NEW op \in DOMAIN f, minedAt[t] = at, f[op] = 0, Spends(t, op),
              NEW x \in OutPoints(t), Foreign(x)
       PROVE  x \in DOMAIN q \/ \E u \in Tx : minedAt[u] = at /\ Spends(u, x)
  BY <1>8, <1>9, <1>10, <1>12
<1> QED BY <1>2, <1>8, <1>11, <1>12 DEF q

-----------------------------------------------------------------------------
(* The watch, whatever it has been through.                                *)

Cur == [known |-> known, watched |-> watched, paidTo |-> paidTo,
        match |-> match, added |-> added, hits |-> hits]

WatchInv ==
  /\ Cur \in Watches /\ followed \in Followings /\ ownTxs \subseteq Tx
  /\ \A b \in Branch : NewWatch(b) <= watched[b] /\ NewWatch(b) + Depth <= known[b]
  /\ \A b \in GapBranch : paidTo[b] + Gap <= watched[b]
  /\ PaidToIsAFind

LEMMA CurIs ==
  Cur \in Watches <=>
    /\ known \in [Branch -> Nat] /\ watched \in [Branch -> Nat] /\ paidTo \in [Branch -> Nat]
    /\ match \subseteq Joined /\ added \subseteq Joined /\ hits \subseteq AllOutputs
BY DEF Cur, Watches

LEMMA CurIsNext ==
  (Cur \in Watches)' <=>
    /\ known' \in [Branch -> Nat] /\ watched' \in [Branch -> Nat] /\ paidTo' \in [Branch -> Nat]
    /\ match' \subseteq Joined /\ added' \subseteq Joined /\ hits' \subseteq AllOutputs
BY DEF Cur, Watches, Joined, AllOutputs, OutPoints

\* A block that is opened: what applyBlock does to the addresses.
LEMMA Applied ==
  ASSUME Cur \in Watches, h \in 0..MaxTip, ApplyToWatch(h)
  PROVE  /\ (Cur \in Watches)' /\ Grew(Cur, Cur', h)
         /\ \A t \in Tx : minedAt[t] = h =>
              \A op \in OutPoints(t) : IsKnown(ScriptOf(op), known) => op \in hits'
<1> DEFINE seen == RecogniseBlock(Cur, h)
<1>1. /\ known' = seen.known /\ watched' = seen.watched /\ paidTo' = seen.paidTo
      /\ match' = seen.match /\ added' = seen.added /\ hits' = seen.hits
  BY DEF ApplyToWatch, Cur
<1>2. /\ seen \in Watches /\ Grew(Cur, seen, h)
      /\ \A t \in Tx : minedAt[t] = h =>
           \A op \in OutPoints(t) : IsKnown(ScriptOf(op), Cur.known) => op \in seen.hits
  BY RecogniseBlockIs
<1>3. Cur.known = known
  BY DEF Cur
<1> HIDE DEF seen
<1>4. Cur' = seen
  BY <1>1, <1>2 DEF Cur, Watches
<1>5. (Cur \in Watches)'
  BY <1>1, <1>2, CurIsNext DEF Watches
<1> QED BY <1>1, <1>2, <1>3, <1>4, <1>5

LEMMA WatchInvNext ==
  WatchInv' <=>
    /\ (Cur \in Watches)' /\ followed' \in Followings /\ ownTxs' \subseteq Tx
    /\ \A b \in Branch : NewWatch(b) <= watched'[b] /\ NewWatch(b) + Depth <= known'[b]
    /\ \A b \in GapBranch : paidTo'[b] + Gap <= watched'[b]
    /\ PaidToIsAFind'
BY DEF WatchInv, Followings, NewWatch, AllOutputs, OutPoints, Spends

\* What a close paid out, to any other wallet, is followed.
LEMMA FollowClosesIs ==
  ASSUME NEW f \in Followings, NEW outs, outs \subseteq AllOutputs,
         \A x \in outs : \E c \in Chan : Spends(x[1], Funding[c])
  PROVE  LET q == Follow(f, outs, 0)
         IN  /\ q \in Followings
             /\ \A x \in DOMAIN f : x \in DOMAIN q /\ (f[x] = 0 => q[x] = 0)
             /\ \A x \in outs : Foreign(x) => x \in DOMAIN q /\ q[x] = 0
<1> DEFINE new == {x \in outs : Foreign(x)}
           q == [x \in new \cup DOMAIN f |-> IF x \in new THEN 0 ELSE f[x]]
<1>1. Follow(f, outs, 0) = q
  BY DEF Follow, Foreign
<1>2. /\ DOMAIN f \subseteq AllOutputs
      /\ \A x \in DOMAIN f : f[x] \in {0, 1} /\ (f[x] = 0 => \E c \in Chan : Spends(x[1], Funding[c]))
  BY FollowingIs
<1>3. DOMAIN q = new \cup DOMAIN f /\ q = [x \in DOMAIN q |-> q[x]]
      /\ \A x \in DOMAIN q : q[x] = IF x \in new THEN 0 ELSE f[x]
  OBVIOUS
<1>4. new \subseteq outs /\ \A x \in outs : Foreign(x) => x \in new
  OBVIOUS
<1> HIDE DEF q, new
<1>5. q \in Followings
  BY <1>2, <1>3, <1>4, FollowingIs
<1> QED BY <1>1, <1>3, <1>4, <1>5

LEMMA NoneFollowed == << >> \in Followings
<1>1. DOMAIN << >> = {} /\ << >> = [x \in DOMAIN << >> |-> << >>[x]]
  OBVIOUS
<1> QED BY <1>1, FollowingIs

LEMMA WatchInit == Init => WatchInv
<1> SUFFICES ASSUME Init PROVE WatchInv
  OBVIOUS
<1>1. \A b \in Branch : NewWatch(b) \in Nat /\ Counter[b] \in Nat /\ (b \notin GapBranch => NewWatch(b) = Counter[b])
  BY ParametersAssumption DEF NewWatch, Window
<1>2. match \subseteq Joined
  <2>1. MaxTip \in Nat
    BY ParametersAssumption
  <2>2. ASSUME NEW b \in Branch, NEW i \in Counter[b]..(NewWatch(b) - 1) PROVE <<b, i, 0>> \in Joined
    BY <1>1, <2>1, <2>2 DEF Joined
  <2> QED BY <2>2 DEF Init
<1>3. known \in [Branch -> Nat] /\ watched \in [Branch -> Nat] /\ paidTo \in [Branch -> Nat]
  BY <1>1, ParametersAssumption DEF Init
<1>4. Cur \in Watches
  BY <1>2, <1>3, CurIs DEF Init
<1>5. followed \in Followings
  BY NoneFollowed DEF Init
<1>6. \A b \in Branch : NewWatch(b) <= watched[b] /\ NewWatch(b) + Depth <= known[b]
  BY <1>1, ParametersAssumption DEF Init
<1>7. \A b \in GapBranch : paidTo[b] + Gap <= watched[b]
  BY ParametersAssumption DEF Init, NewWatch, Window
<1>8. PaidToIsAFind
  BY DEF Init, PaidToIsAFind
<1> QED BY <1>4, <1>5, <1>6, <1>7, <1>8 DEF WatchInv, Init

\* A block that is opened.
LEMMA WatchOpened ==
  ASSUME ChannelInv, ChannelInv', WatchInv, pass \in {"main", "rest"}, h <= target,
         OpenBlock(h), UNCHANGED minedAt, tip' = tip
  PROVE  WatchInv'
<1>1. /\ h \in Nat \ {0} /\ h \in 0..MaxTip /\ h <= tip /\ tip \in Nat /\ minedAt \in Chains
  BY ParametersAssumption DEF ChannelInv, PlaceInv
<1>2. ApplyToWatch(h) /\ Cur \in Watches /\ followed \in Followings
  BY DEF OpenBlock, Watching, WatchInv
<1>3. /\ (Cur \in Watches)' /\ Grew(Cur, Cur', h)
  BY <1>1, <1>2, Applied
<1>4. followed' \in Followings
  <2>1. CASE pass = "main"
    <3> DEFINE outs == UNION {OutPoints(spentBy'[c]) : c \in {c \in States : spentBy[c] = None /\ spentBy'[c] # None}}
    <3>1. followed' = FollowSpends(Follow(followed, outs, 0), h)
      BY <1>2, <2>1 DEF ApplyToWatch
    <3>2. ASSUME NEW c \in States, spentBy'[c] # None
          PROVE  spentBy'[c] \in Tx /\ Spends(spentBy'[c], Funding[c]) /\ c \in Chan
      BY <3>2 DEF ChannelInv, SoundInv, States, Spends
    <3>3. outs \subseteq AllOutputs /\ \A x \in outs : \E c \in Chan : Spends(x[1], Funding[c])
      BY <3>2, OutputIs
    <3> HIDE DEF outs
    <3>4. Follow(followed, outs, 0) \in Followings
      BY <1>2, <3>3, FollowClosesIs
    <3> QED BY <1>1, <3>1, <3>4, FollowSpendsIs
  <2>2. CASE pass = "rest"
    BY <1>2, <2>2 DEF ApplyToWatch
  <2> QED BY <2>1, <2>2
<1>5. ownTxs' \subseteq Tx
  BY <1>2 DEF ApplyToWatch, InBlock, WatchInv
<1>6. /\ known \in [Branch -> Nat] /\ watched \in [Branch -> Nat]
      /\ known' \in [Branch -> Nat] /\ watched' \in [Branch -> Nat] /\ paidTo' \in [Branch -> Nat]
      /\ hits' \subseteq AllOutputs
  BY <1>2, <1>3, CurIs, CurIsNext
<1>7. /\ Cur.known = known /\ Cur.watched = watched /\ Cur.paidTo = paidTo /\ Cur.hits = hits
      /\ Cur'.known = known' /\ Cur'.watched = watched' /\ Cur'.paidTo = paidTo' /\ Cur'.hits = hits'
  BY DEF Cur
<1>8. \A b \in Branch : NewWatch(b) <= watched'[b] /\ NewWatch(b) + Depth <= known'[b]
  <2>1. \A b \in Branch : known[b] <= known'[b] /\ watched[b] <= watched'[b]
    BY <1>3, <1>7 DEF Grew
  <2>2. \A b \in Branch : NewWatch(b) \in Nat /\ Depth \in Nat
    BY ParametersAssumption DEF NewWatch, Window
  <2> QED BY <1>6, <2>1, <2>2 DEF WatchInv
<1>9. \A b \in GapBranch : paidTo'[b] + Gap <= watched'[b]
  BY <1>3, <1>7 DEF Grew, WatchInv
<1>10. PaidToIsAFind'
  <2>1. ASSUME NEW b \in Branch, paidTo'[b] > 0
        PROVE  \E op \in hits' : ScriptOf(op) = <<b, paidTo'[b] - 1>> /\ Mined(op[1], 1, tip)
    <3>1. CASE paidTo'[b] = paidTo[b]
      <4>1. hits \subseteq hits'
        BY <1>3, <1>7 DEF Grew
      <4> QED BY <2>1, <3>1, <4>1 DEF WatchInv, PaidToIsAFind
    <3>2. CASE \E op \in hits' : ScriptOf(op) = <<b, paidTo'[b] - 1>> /\ minedAt[op[1]] = h
      BY <1>1, <3>2 DEF Mined
    <3> QED BY <1>3, <1>7, <3>1, <3>2 DEF Grew
  <2> QED BY <2>1 DEF PaidToIsAFind, Mined, ScriptOf
<1> QED BY <1>3, <1>4, <1>5, <1>8, <1>9, <1>10, WatchInvNext

\* The watch begins a pass over the rest, or is left alone.
LEMMA WatchKept ==
  ASSUME WatchInv, UNCHANGED <<minedAt, known, watched, paidTo, hits, ownTxs>>,
         tip \in Nat, tip' \in Nat, tip <= tip', minedAt \in [Tx -> Nat],
         \/ UNCHANGED <<match, added, followed>>
         \/ match' \subseteq added /\ added' = {} /\ followed' = << >>
  PROVE  WatchInv'
<1>1. (Cur \in Watches)'
  BY CurIs, CurIsNext DEF WatchInv
<1>2. followed' \in Followings
  BY NoneFollowed DEF WatchInv
<1>3. PaidToIsAFind'
  <2>1. ASSUME NEW b \in Branch, paidTo[b] > 0
        PROVE  \E op \in hits : ScriptOf(op) = <<b, paidTo[b] - 1>> /\ Mined(op[1], 1, tip')
    <3>1. PICK op \in hits : ScriptOf(op) = <<b, paidTo[b] - 1>> /\ Mined(op[1], 1, tip)
      BY <2>1 DEF WatchInv, PaidToIsAFind
    <3>2. op[1] \in Tx
      BY <3>1, CurIs, OutputIs DEF WatchInv, AllOutputs
    <3> QED BY <3>1, <3>2 DEF Mined
  <2> QED BY <2>1 DEF PaidToIsAFind, Mined, ScriptOf
<1> QED BY <1>1, <1>2, <1>3, WatchInvNext DEF WatchInv

LEMMA WatchStep ==
  ASSUME ChannelInv, ChannelInv', WatchInv, [Next]_vars
  PROVE  WatchInv'
<1>1. UNCHANGED minedAt /\ minedAt \in [Tx -> Nat] /\ tip \in Nat /\ tip' \in Nat
  BY ChainFacts DEF ChannelInv, PlaceInv, Next, OpenBelowFloor, MatchingBlock, FalsePositive, OtherBlock, SkipBlocks,
         MainEnds, RestEnds, CarryOn, CheckEnds, CheckFails, NewBlock, vars, chain
<1>2. ASSUME UNCHANGED <<watch, tip>> PROVE WatchInv'
  BY <1>1, <1>2, WatchKept DEF watch
<1>3. ASSUME OpenBlock(h), h <= target, UNCHANGED tip PROVE WatchInv'
  <2>1. CASE pass \in {"main", "rest"}
    BY <1>1, <1>3, <2>1, WatchOpened
  <2>2. CASE pass \notin {"main", "rest"}
    BY <1>2, <1>3, <2>2 DEF OpenBlock, Watching
  <2> QED BY <2>1, <2>2
<1>4. CASE OpenBelowFloor
  <2>1. h <= target
    BY <1>4, ParametersAssumption DEF OpenBelowFloor, ChannelInv, PlaceInv
  <2> QED BY <1>3, <1>4, <2>1 DEF OpenBelowFloor, chain
<1>5. CASE MatchingBlock \/ FalsePositive
  BY <1>3, <1>5 DEF MatchingBlock, FalsePositive, Looking, chain
<1>6. CASE OtherBlock \/ SkipBlocks \/ CarryOn \/ CheckEnds \/ CheckFails
  BY <1>2, <1>6 DEF OtherBlock, SkipBlocks, CarryOn, CheckEnds, CheckFails, chain
<1>7. CASE MainEnds \/ RestEnds
  <2>1. UNCHANGED tip /\ (BeginRest \/ EndSearch)
    BY <1>7 DEF MainEnds, RestEnds, chain
  <2>2. CASE BeginRest
    <3>1. Left \subseteq added
      BY DEF Left
    <3> QED BY <1>1, <2>1, <2>2, <3>1, WatchKept DEF BeginRest
  <2>3. CASE EndSearch
    BY <1>2, <2>1, <2>3 DEF EndSearch
  <2> QED BY <2>1, <2>2, <2>3
<1>8. CASE NewBlock
  <2>1. tip <= tip' /\ UNCHANGED watch
    BY <1>1, <1>8 DEF NewBlock
  <2> QED BY <1>1, <2>1, WatchKept DEF watch
<1>9. CASE UNCHANGED vars
  BY <1>2, <1>9 DEF vars, chain
<1> QED BY <1>4, <1>5, <1>6, <1>7, <1>8, <1>9 DEF Next

LEMMA SpecWatchInv == Spec => [](ChannelInv /\ WatchInv)
<1>1. ChannelInv /\ WatchInv /\ [Next]_vars => ChannelInv' /\ WatchInv'
  BY ChannelStep, WatchStep
<1> QED BY <1>1, ChannelInit, WatchInit, PTL DEF Spec

\* A find is only what the chain has, and the wallet is moved no further than
\* to the highest of them.
THEOREM SpecPaidToIsAFind == Spec => []PaidToIsAFind
<1>1. WatchInv => PaidToIsAFind
  BY DEF WatchInv
<1> QED BY <1>1, SpecWatchInv, PTL

\* The types nothing else rests on.
TypeInv ==
  /\ found \subseteq Chan /\ spentBy \in [Chan -> Tx \cup {None}] /\ toUsSpent \subseteq Chan
  /\ falses \in 0..MaxFalse

LEMMA TypeInit == Init => TypeInv
BY ParametersAssumption DEF Init, TypeInv

LEMMA TypeStep ==
  ASSUME TypeInv, [Next]_vars
  PROVE  TypeInv'
<1>1. ASSUME UNCHANGED states PROVE found' \subseteq Chan /\ spentBy' \in [Chan -> Tx \cup {None}] /\ toUsSpent' \subseteq Chan
  BY <1>1 DEF states, TypeInv
<1>2. ASSUME OpenBlock(h)
      PROVE  found' \subseteq Chan /\ spentBy' \in [Chan -> Tx \cup {None}] /\ toUsSpent' \subseteq Chan
  <2>1. CASE pass = "rest"
    BY <1>1, <1>2, <2>1 DEF OpenBlock
  <2>2. CASE pass # "rest"
    <3>1. ApplyToChannels(h)
      BY <1>2, <2>2 DEF OpenBlock
    <3>2. States \subseteq Chan
      BY DEF States
    <3>3. \A c \in Chan : SpenderIn(c, h) \in Tx \cup {None}
      BY SpenderIs
    <3> QED BY <3>1, <3>2, <3>3 DEF ApplyToChannels, TypeInv
  <2> QED BY <2>1, <2>2
<1>3. falses' \in 0..MaxFalse
  <2>1. falses' = falses \/ (falses < MaxFalse /\ falses' = falses + 1)
    BY DEF Next, OpenBelowFloor, MatchingBlock, FalsePositive, OtherBlock, SkipBlocks, MainEnds, RestEnds,
           CarryOn, CheckEnds, CheckFails, NewBlock, vars
  <2> QED BY <2>1, ParametersAssumption DEF TypeInv
<1>4. \/ OpenBlock(h) \/ UNCHANGED states
  BY DEF Next, OpenBelowFloor, MatchingBlock, FalsePositive, OtherBlock, SkipBlocks, MainEnds, RestEnds,
         CarryOn, CheckEnds, CheckFails, NewBlock, vars
<1> QED BY <1>1, <1>2, <1>3, <1>4 DEF TypeInv

LEMMA TypeFromInv == ChannelInv /\ WatchInv /\ TypeInv => TypeOK
<1> SUFFICES ASSUME ChannelInv, WatchInv, TypeInv PROVE TypeOK
  OBVIOUS
<1>1. minedAt \in [Tx -> 0..MaxTip]
  <2>1. PICK w \in Worlds : minedAt \in Placements(w)
    BY DEF ChannelInv, Chains
  <2>2. PICK p \in [DOMAIN w -> 0..MaxTip] : minedAt = [t \in Tx |-> IF t \in DOMAIN w THEN p[t] ELSE 0]
    BY <2>1 DEF Placements
  <2> QED BY <2>2, ParametersAssumption
<1>2. /\ tip \in StartTip..MaxTip /\ h \in Nat /\ target \in 0..MaxTip /\ nextBlock \in 0..(MaxTip + 1)
      /\ pass \in {"main", "rest", "searched", "check", "checked", "failed"}
  BY ParametersAssumption DEF ChannelInv, PlaceInv
<1>3. /\ known \in [Branch -> Nat] /\ watched \in [Branch -> Nat] /\ paidTo \in [Branch -> Nat]
      /\ match \subseteq Joined /\ added \subseteq Joined /\ hits \subseteq AllOutputs
  BY CurIs DEF WatchInv
<1>4. \A m \in match \cup added : m[1] \in GapBranch /\ m[2] \in Nat /\ m[3] \in 0..MaxTip
  BY <1>3 DEF Joined
<1>5. /\ DOMAIN followed \subseteq AllOutputs
      /\ \A op \in DOMAIN followed : followed[op] \in 0..(FollowDepth - 1)
  BY FollowingIs DEF WatchInv, FollowDepth
<1>6. hits \cup DOMAIN followed \subseteq UNION {OutPoints(t) : t \in Tx}
  BY <1>3, <1>5 DEF AllOutputs
<1> QED BY <1>1, <1>2, <1>3, <1>4, <1>5, <1>6 DEF TypeOK, TypeInv, WatchInv

\* Every variable stays in its type.
THEOREM SpecTypeOK == Spec => []TypeOK
<1> QED BY TypeFromInv, TypeInit, TypeStep, SpecWatchInv, PTL DEF Spec

-----------------------------------------------------------------------------
(* The gap rule.                                                           *)

\* The payments to an address in the blocks from lo to hi are in S.
Covered(b, i, lo, hi, S) ==
  \A t \in Tx : \A op \in OutPoints(t) :
    ScriptOf(op) = <<b, i>> /\ lo <= minedAt[t] /\ Mined(t, From, hi) => op \in S

\* An address that joined the match at a block is found from that block on.
JoinedAndCovered(b, i) ==
  /\ <<b, i, 0>> \in match
  /\ \E a \in 0..MaxTip : <<b, i, a>> \in added /\ Covered(b, i, a, h - 1, hits)

\* One that the pass over the rest has yet to look for in the blocks before it.
LeftAndCovered(b, i) ==
  \E a \in 0..MaxTip :
    /\ <<b, i, a>> \in match
    /\ Covered(b, i, a, Walked, hits) /\ Covered(b, i, From, (IF h < a THEN h ELSE a) - 1, hits)

GapInv ==
  \A b \in GapBranch : \A i \in Counter[b]..(NewWatch(b) + Depth - 1) : i < watched[b] =>
    /\ pass = "main" => \/ <<b, i, 0>> \in match /\ Covered(b, i, From, h - 1, hits)
                        \/ JoinedAndCovered(b, i)
    /\ pass = "rest" => \/ Covered(b, i, From, Walked, hits)
                        \/ LeftAndCovered(b, i)
                        \/ JoinedAndCovered(b, i)
    /\ pass = "searched" => Covered(b, i, From, Walked, hits)

\* The same of the next state, on the same chain.
JoinedNext(b, i) ==
  /\ <<b, i, 0>> \in match'
  /\ \E a \in 0..MaxTip : <<b, i, a>> \in added' /\ Covered(b, i, a, h' - 1, hits')

LeftNext(b, i) ==
  \E a \in 0..MaxTip :
    /\ <<b, i, a>> \in match'
    /\ Covered(b, i, a, nextBlock' - 1, hits') /\ Covered(b, i, From, (IF h' < a THEN h' ELSE a) - 1, hits')

GapNext ==
  \A b \in GapBranch : \A i \in Counter[b]..(NewWatch(b) + Depth - 1) : i < watched'[b] =>
    /\ pass' = "main" => \/ <<b, i, 0>> \in match' /\ Covered(b, i, From, h' - 1, hits')
                         \/ JoinedNext(b, i)
    /\ pass' = "rest" => \/ Covered(b, i, From, nextBlock' - 1, hits')
                         \/ LeftNext(b, i)
                         \/ JoinedNext(b, i)
    /\ pass' = "searched" => Covered(b, i, From, nextBlock' - 1, hits')

LEMMA GapInvNext ==
  ASSUME UNCHANGED minedAt, GapNext
  PROVE  GapInv'
<1>1. \A b, i : JoinedNext(b, i) => JoinedAndCovered(b, i)'
  BY DEF JoinedNext, JoinedAndCovered, Covered, Mined, ScriptOf, OutPoints
<1>2. ASSUME NEW b, NEW i, LeftNext(b, i) PROVE LeftAndCovered(b, i)'
  <2>1. PICK a \in 0..MaxTip :
          /\ <<b, i, a>> \in match' /\ Covered(b, i, a, nextBlock' - 1, hits')
          /\ Covered(b, i, From, (IF h' < a THEN h' ELSE a) - 1, hits')
    BY <1>2 DEF LeftNext
  <2>2. Covered(b, i, a, Walked, hits)'
    BY <2>1 DEF Covered, Mined, ScriptOf, OutPoints, Walked
  <2>3. Covered(b, i, From, (IF h < a THEN h ELSE a) - 1, hits)'
    BY <2>1 DEF Covered, Mined, ScriptOf, OutPoints
  <2> QED BY <2>1, <2>2, <2>3 DEF LeftAndCovered
<1>3. \A b, i : Covered(b, i, From, h' - 1, hits') => Covered(b, i, From, h - 1, hits)'
  BY DEF Covered, Mined, ScriptOf, OutPoints
<1>4. \A b, i : Covered(b, i, From, nextBlock' - 1, hits') => Covered(b, i, From, Walked, hits)'
  BY DEF Covered, Mined, ScriptOf, OutPoints, Walked
<1> SUFFICES ASSUME NEW b \in GapBranch, NEW i \in Counter[b]..(NewWatch(b) + Depth - 1), i < watched'[b]
             PROVE  /\ pass' = "main" => \/ <<b, i, 0>> \in match' /\ Covered(b, i, From, h - 1, hits)'
                                         \/ JoinedAndCovered(b, i)'
                    /\ pass' = "rest" => \/ Covered(b, i, From, Walked, hits)'
                                         \/ LeftAndCovered(b, i)'
                                         \/ JoinedAndCovered(b, i)'
                    /\ pass' = "searched" => Covered(b, i, From, Walked, hits)'
  BY DEF GapInv, NewWatch, Window
<1> QED BY <1>1, <1>2, <1>3, <1>4 DEF GapNext

LEMMA CoveredOn ==
  ASSUME minedAt \in [Tx -> Nat], NEW b, NEW i, NEW lo \in Nat, NEW hi \in Int, NEW to \in Int, NEW S, NEW R,
         S \subseteq R, Covered(b, i, lo, hi, S),
         \A t \in Tx : \A op \in OutPoints(t) :
           /\ ScriptOf(op) = <<b, i>> /\ lo <= minedAt[t] /\ From <= minedAt[t]
           /\ hi < minedAt[t] /\ minedAt[t] <= to
           => op \in R
  PROVE  Covered(b, i, lo, to, R)
<1> SUFFICES ASSUME NEW t \in Tx, NEW op \in OutPoints(t), ScriptOf(op) = <<b, i>>, lo <= minedAt[t],
                    Mined(t, From, to)
             PROVE  op \in R
  BY DEF Covered
<1>1. minedAt[t] \in Nat /\ From <= minedAt[t] /\ minedAt[t] <= to /\ minedAt[t] > 0
  BY DEF Mined
<1>2. CASE minedAt[t] <= hi
  BY <1>1, <1>2 DEF Covered, Mined
<1>3. CASE hi < minedAt[t]
  BY <1>1, <1>3
<1> QED BY <1>1, <1>2, <1>3

\* Blocks done with, by a pass that looks for addresses: what is in the match
\* was found in them, and what joined did so at the first of them.
LEMMA GapBlocks ==
  ASSUME ChannelInv, WatchInv, WatchInv', GapInv, UNCHANGED <<minedAt, pass, nextBlock>>,
         pass \in {"main", "rest"}, h' \in Nat, h <= h', h \in 0..MaxTip \/ UNCHANGED watched,
         match \subseteq match', added \subseteq added', hits \subseteq hits',
         \A b \in GapBranch : \A i \in Nat : watched[b] <= i /\ i < watched'[b] =>
           <<b, i, 0>> \in match' /\ <<b, i, h>> \in added',
         \A b \in GapBranch : \A i \in Counter[b]..(NewWatch(b) + Depth - 1) : \A a \in 0..MaxTip :
           <<b, i, a>> \in match' =>
             \A t \in Tx : \A op \in OutPoints(t) :
               /\ ScriptOf(op) = <<b, i>> /\ From <= minedAt[t] /\ (a = 0 \/ minedAt[t] < a)
               /\ h <= minedAt[t] /\ minedAt[t] <= h' - 1
               => op \in hits'
  PROVE  GapInv'
<1>1. minedAt \in [Tx -> Nat] /\ h \in Nat /\ From \in Nat /\ nextBlock \in Nat /\ MaxTip \in Nat
  BY ChainFacts, ParametersAssumption DEF ChannelInv, PlaceInv
<1> SUFFICES ASSUME NEW b \in GapBranch, NEW i \in Counter[b]..(NewWatch(b) + Depth - 1), i < watched'[b]
             PROVE  /\ pass = "main" => \/ <<b, i, 0>> \in match' /\ Covered(b, i, From, h' - 1, hits')
                                        \/ JoinedNext(b, i)
                    /\ pass = "rest" => \/ Covered(b, i, From, nextBlock - 1, hits')
                                        \/ LeftNext(b, i)
                                        \/ JoinedNext(b, i)
  BY GapInvNext DEF GapNext
<1>2. /\ i \in Nat /\ watched[b] \in Nat /\ watched'[b] \in Nat
      /\ \A a \in 0..MaxTip : <<b, i, a>> \in match' =>
           \A t \in Tx : \A op \in OutPoints(t) :
             /\ ScriptOf(op) = <<b, i>> /\ From <= minedAt[t] /\ (a = 0 \/ minedAt[t] < a)
             /\ h <= minedAt[t] /\ minedAt[t] <= h' - 1
             => op \in hits'
  BY CurIs, CurIsNext, ParametersAssumption DEF WatchInv, NewWatch, Window
<1>3. ASSUME NEW lo \in Nat, NEW hi \in Int, <<b, i, 0>> \in match', hi >= h - 1, Covered(b, i, lo, hi, hits)
      PROVE  Covered(b, i, lo, h' - 1, hits')
  BY <1>1, <1>2, <1>3, CoveredOn
<1>4. ASSUME NEW lo \in Nat, NEW hi \in Int, Covered(b, i, lo, hi, hits)
      PROVE  Covered(b, i, lo, hi, hits')
  BY <1>4 DEF Covered
<1>5. CASE ~(i < watched[b])
  <2>1. <<b, i, 0>> \in match' /\ <<b, i, h>> \in added' /\ h \in 0..MaxTip
    BY <1>2, <1>5
  <2>2. Covered(b, i, h, h - 1, hits)
    BY <1>1 DEF Covered, Mined
  <2>3. Covered(b, i, h, h' - 1, hits')
    BY <1>1, <1>3, <2>1, <2>2
  <2> QED BY <2>1, <2>3 DEF JoinedNext
<1>6. ASSUME JoinedAndCovered(b, i) PROVE JoinedNext(b, i)
  <2>1. PICK a \in 0..MaxTip : <<b, i, a>> \in added /\ Covered(b, i, a, h - 1, hits)
    BY <1>6 DEF JoinedAndCovered
  <2>2. Covered(b, i, a, h' - 1, hits')
    BY <1>1, <1>3, <1>6, <2>1 DEF JoinedAndCovered
  <2> QED BY <1>6, <2>1, <2>2 DEF JoinedAndCovered, JoinedNext
<1>7. ASSUME LeftAndCovered(b, i) PROVE LeftNext(b, i)
  <2>1. PICK a \in 0..MaxTip : /\ <<b, i, a>> \in match /\ Covered(b, i, a, nextBlock - 1, hits)
                               /\ Covered(b, i, From, (IF h < a THEN h ELSE a) - 1, hits)
    BY <1>7 DEF LeftAndCovered, Walked
  <2>2. Covered(b, i, a, nextBlock - 1, hits')
    BY <1>1, <1>4, <2>1
  <2>3. ASSUME NEW t \in Tx, NEW op \in OutPoints(t), ScriptOf(op) = <<b, i>>, From <= minedAt[t],
               (IF h < a THEN h ELSE a) - 1 < minedAt[t], minedAt[t] <= (IF h' < a THEN h' ELSE a) - 1
        PROVE  op \in hits'
    <3>1. h <= minedAt[t] /\ minedAt[t] < a /\ minedAt[t] <= h' - 1
      BY <1>1, <2>3
    <3> QED BY <1>2, <2>1, <2>3, <3>1
  <2>4. Covered(b, i, From, (IF h' < a THEN h' ELSE a) - 1, hits')
    <3>1. (IF h < a THEN h ELSE a) - 1 \in Int /\ (IF h' < a THEN h' ELSE a) - 1 \in Int
      BY <1>1
    <3> QED BY <1>1, <2>1, <2>3, <3>1, CoveredOn
  <2> QED BY <2>1, <2>2, <2>4 DEF LeftNext
<1>8. CASE pass = "main" /\ i < watched[b]
  <2>1. \/ <<b, i, 0>> \in match /\ Covered(b, i, From, h - 1, hits)
        \/ JoinedAndCovered(b, i)
    BY <1>8 DEF GapInv
  <2>2. ASSUME <<b, i, 0>> \in match, Covered(b, i, From, h - 1, hits)
        PROVE  <<b, i, 0>> \in match' /\ Covered(b, i, From, h' - 1, hits')
    BY <1>1, <1>3, <2>2
  <2> QED BY <1>6, <1>8, <2>1, <2>2
<1>9. CASE pass = "rest" /\ i < watched[b]
  <2>1. \/ Covered(b, i, From, nextBlock - 1, hits)
        \/ LeftAndCovered(b, i)
        \/ JoinedAndCovered(b, i)
    BY <1>9 DEF GapInv, Walked
  <2>2. Covered(b, i, From, nextBlock - 1, hits) => Covered(b, i, From, nextBlock - 1, hits')
    BY <1>1, <1>4
  <2> QED BY <1>6, <1>7, <1>9, <2>1, <2>2
<1> QED BY <1>5, <1>8, <1>9

LEMMA GapInit == Init => GapInv
<1> SUFFICES ASSUME Init, NEW b \in GapBranch, NEW i \in Counter[b]..(NewWatch(b) + Depth - 1), i < watched[b]
             PROVE  <<b, i, 0>> \in match /\ Covered(b, i, From, h - 1, hits)
  BY DEF Init, GapInv
<1>1. <<b, i, 0>> \in match
  <2>1. b \in Branch /\ watched[b] = NewWatch(b) /\ i \in Counter[b]..(NewWatch(b) - 1)
    BY ParametersAssumption DEF Init, NewWatch, Window
  <2> QED BY <2>1 DEF Init
<1>2. h \in Nat /\ h <= From /\ minedAt \in [Tx -> Nat]
  <2>1. Floor <= tip /\ tip \in Nat
    BY ParametersAssumption DEF Init
  <2> QED BY <2>1, FirstBlockIs, ChainFacts DEF Init
<1>3. Covered(b, i, From, h - 1, hits)
  BY <1>2, ParametersAssumption DEF Covered, Mined
<1> QED BY <1>1, <1>3

LEMMA GapOpened ==
  ASSUME ChannelInv, WatchInv, WatchInv', GapInv, pass \in {"main", "rest"}, h <= target,
         OpenBlock(h), h' = h + 1, UNCHANGED <<minedAt, pass, nextBlock>>
  PROVE  GapInv'
<1>1. /\ h \in Nat /\ h \in 0..MaxTip /\ h' \in Nat /\ h <= h'
  BY ParametersAssumption DEF ChannelInv, PlaceInv
<1>2. Cur \in Watches /\ ApplyToWatch(h)
  BY DEF OpenBlock, Watching, WatchInv
<1>3. /\ Grew(Cur, Cur', h)
      /\ \A t \in Tx : minedAt[t] = h => \A op \in OutPoints(t) : IsKnown(ScriptOf(op), known) => op \in hits'
  BY <1>1, <1>2, Applied
<1>4. /\ Cur.watched = watched /\ Cur'.watched = watched' /\ Cur.match = match /\ Cur'.match = match'
      /\ Cur.added = added /\ Cur'.added = added' /\ Cur.hits = hits /\ Cur'.hits = hits'
  BY DEF Cur
<1>5. /\ match \subseteq match' /\ added \subseteq added' /\ hits \subseteq hits'
      /\ \A b \in GapBranch : \A i \in Nat : watched[b] <= i /\ i < watched'[b] =>
           <<b, i, 0>> \in match' /\ <<b, i, h>> \in added'
  BY <1>3, <1>4 DEF Grew
<1>6. \A t \in Tx : minedAt[t] \in Nat
  BY ChainFacts DEF ChannelInv
<1>7. ASSUME NEW b \in GapBranch, NEW i \in Counter[b]..(NewWatch(b) + Depth - 1), NEW t \in Tx,
             NEW op \in OutPoints(t), ScriptOf(op) = <<b, i>>, h <= minedAt[t], minedAt[t] <= h' - 1
      PROVE  op \in hits'
  <2>1. minedAt[t] = h
    BY <1>1, <1>6, <1>7
  <2>2. b \in Branch /\ known[b] \in Nat /\ NewWatch(b) + Depth <= known[b]
    BY CurIs, ParametersAssumption DEF WatchInv
  <2>3. Counter[b] \in Nat /\ NewWatch(b) \in Nat /\ Depth \in Nat
    BY <2>2, ParametersAssumption DEF NewWatch, Window
  <2>4. Counter[b] <= i /\ i < known[b]
    BY <2>2, <2>3
  <2>5. IsKnown(ScriptOf(op), known)
    BY <1>7, <2>2, <2>4 DEF IsKnown
  <2> QED BY <1>3, <2>1, <2>5
<1> QED BY <1>1, <1>5, <1>7, GapBlocks

LEMMA GapPassed ==
  ASSUME ChannelInv, WatchInv, WatchInv', GapInv, pass \in {"main", "rest"}, h' \in Nat, h <= h',
         UNCHANGED <<minedAt, watch, pass, nextBlock>>,
         \A at \in h..(h' - 1) : From <= at => WatchScripts(at) \cap BlockScripts(at) = {}
  PROVE  GapInv'
<1>1. h \in Nat /\ \A t \in Tx : minedAt[t] \in Nat
  BY ChainFacts DEF ChannelInv, PlaceInv
<1>2. UNCHANGED <<known, watched, match, added, hits>>
  BY DEF watch
<1>3. \A b \in GapBranch : watched[b] \in Nat
  BY CurIs, ParametersAssumption DEF WatchInv
<1>4. ASSUME NEW b \in GapBranch, NEW i \in Counter[b]..(NewWatch(b) + Depth - 1), NEW a \in 0..MaxTip,
             <<b, i, a>> \in match, NEW t \in Tx, NEW op \in OutPoints(t), ScriptOf(op) = <<b, i>>,
             From <= minedAt[t], a = 0 \/ minedAt[t] < a, h <= minedAt[t], minedAt[t] <= h' - 1
      PROVE  FALSE
  <2>1. minedAt[t] \in h..(h' - 1) /\ ~(minedAt[t] < From)
    BY <1>1, <1>4, ParametersAssumption
  <2>2. <<b, i>> \in WatchScripts(minedAt[t])
    BY <1>4, <2>1 DEF WatchScripts
  <2>3. PICK n \in 1..Len(Outs[t]) : op = <<t, n>>
    BY DEF OutPoints
  <2>4. ScriptOf(op) \in ToSet(Outs[t])
    BY <2>3, TransactionsAssumption DEF ScriptOf, ToSet
  <2>5. <<b, i>> \in BlockScripts(minedAt[t])
    BY <1>4, <2>4 DEF BlockScripts, InBlock
  <2> QED BY <1>4, <2>1, <2>2, <2>5
<1>5. UNCHANGED watched /\ match \subseteq match' /\ added \subseteq added' /\ hits \subseteq hits'
  BY <1>2
<1>6. \A b \in GapBranch : \A i \in Nat : ~(watched[b] <= i /\ i < watched'[b])
  BY <1>2, <1>3
<1>7. \A b \in GapBranch : \A i \in Counter[b]..(NewWatch(b) + Depth - 1) : \A a \in 0..MaxTip :
        <<b, i, a>> \in match' =>
          \A t \in Tx : \A op \in OutPoints(t) :
            /\ ScriptOf(op) = <<b, i>> /\ From <= minedAt[t] /\ (a = 0 \/ minedAt[t] < a)
            /\ h <= minedAt[t] /\ minedAt[t] <= h' - 1
            => op \in hits'
  BY <1>2, <1>4
<1> QED BY <1>5, <1>6, <1>7, GapBlocks

\* Where nothing is looked for there is nothing to look for up to the next start.
LEMMA NothingToWatch ==
  ASSUME ChannelInv, WatchInv, pass \in {"main", "rest"}, Scripts(h) = {}, h' = NextStart(pass, h, target)
  PROVE  /\ h' \in Nat
         /\ \A at \in h..(h' - 1) : From <= at => WatchScripts(at) = {}
<1>1. h \in Nat /\ target \in Nat /\ From \in Nat
  BY ParametersAssumption DEF ChannelInv, PlaceInv
<1>2. h' \in Nat /\ (From <= h \/ h' <= From)
  BY <1>1, NextStartIs
<1>3. WatchScripts(h) = {}
  BY DEF Scripts, Watching
<1>4. \A m \in match : m = <<m[1], m[2], m[3]>> /\ m[3] \in Nat
  BY CurIs, ParametersAssumption DEF WatchInv, Joined
<1>5. ASSUME NEW at, at \in h..(h' - 1), From <= at PROVE WatchScripts(at) = {}
  <2>1. at \in Nat /\ h <= at /\ From <= h
    BY <1>1, <1>2, <1>5
  <2>2. ASSUME NEW m \in match, m[3] = 0 \/ h < m[3] PROVE FALSE
    <3>1. ~(h < From)
      BY <1>1, <2>1
    <3>2. <<m[1], m[2]>> \in WatchScripts(h)
      BY <2>2, <3>1 DEF WatchScripts
    <3> QED BY <1>3, <3>2
  <2>3. \A m \in match : ~(m[3] = 0 \/ at < m[3])
    BY <1>1, <1>4, <2>1, <2>2
  <2>4. pass = "main" => Own = {} /\ \A op \in DOMAIN followed : FALSE
    BY <1>1, <1>3, <2>1 DEF WatchScripts
  <2> QED BY <2>3, <2>4 DEF WatchScripts
<1> QED BY <1>2, <1>5

\* A pass over the rest begins, or nothing is left.
LEMMA GapEnds ==
  ASSUME ChannelInv, WatchInv, GapInv, pass \in {"main", "rest"}, h > target, BeginRest \/ EndSearch,
         UNCHANGED minedAt, nextBlock' = IF pass = "main" THEN target + 1 ELSE nextBlock
  PROVE  GapInv'
<1>1. /\ h \in Nat /\ target \in Nat /\ nextBlock \in Nat /\ tip \in Nat /\ h = target + 1 /\ nextBlock <= h
      /\ From \in Nat /\ From <= h /\ MaxTip \in Nat /\ Floor <= tip
  BY ParametersAssumption DEF ChannelInv, PlaceInv
<1>2. \A t \in Tx : minedAt[t] \in Nat
  BY ChainFacts DEF ChannelInv
<1>3. nextBlock' - 1 \in Int /\ nextBlock' - 1 <= h - 1 /\ (pass = "main" => nextBlock' = h)
      /\ (pass = "rest" => nextBlock' = nextBlock)
  BY <1>1
<1>4. UNCHANGED <<watched, hits>>
  BY DEF BeginRest, EndSearch, watch
<1>5. ASSUME NEW b, NEW i, NEW lo \in Nat, Covered(b, i, lo, h - 1, hits) PROVE Covered(b, i, lo, nextBlock' - 1, hits)
  BY <1>1, <1>2, <1>3, <1>5 DEF Covered, Mined
\* What every address was found in, by the end of a pass.
<1>6. ASSUME NEW b \in GapBranch, NEW i \in Counter[b]..(NewWatch(b) + Depth - 1), i < watched[b]
      PROVE  \/ Covered(b, i, From, nextBlock' - 1, hits)
             \/ \E a \in 0..MaxTip : <<b, i, a>> \in added /\ Covered(b, i, a, nextBlock' - 1, hits)
  <2>1. JoinedAndCovered(b, i) =>
          \E a \in 0..MaxTip : <<b, i, a>> \in added /\ Covered(b, i, a, nextBlock' - 1, hits)
    BY <1>1, <1>5 DEF JoinedAndCovered
  <2>2. CASE pass = "main"
    BY <1>1, <1>5, <1>6, <2>1, <2>2 DEF GapInv
  <2>3. CASE pass = "rest"
    <3>1. ASSUME LeftAndCovered(b, i) PROVE Covered(b, i, From, nextBlock' - 1, hits)
      <4>1. PICK a \in 0..MaxTip : /\ Covered(b, i, a, nextBlock - 1, hits)
                                   /\ Covered(b, i, From, (IF h < a THEN h ELSE a) - 1, hits)
        BY <3>1 DEF LeftAndCovered, Walked
      <4>2. ASSUME NEW t \in Tx, NEW op \in OutPoints(t), ScriptOf(op) = <<b, i>>, Mined(t, From, nextBlock - 1)
            PROVE  op \in hits
        <5>1. CASE a <= minedAt[t]
          BY <4>1, <4>2, <5>1 DEF Covered
        <5>2. CASE ~(a <= minedAt[t])
          <6>1. Mined(t, From, (IF h < a THEN h ELSE a) - 1) /\ From <= minedAt[t]
            BY <1>1, <1>2, <4>2, <5>2 DEF Mined
          <6> QED BY <4>1, <4>2, <6>1 DEF Covered
        <5> QED BY <5>1, <5>2
      <4> QED BY <1>3, <2>3, <4>2 DEF Covered
    <3> QED BY <1>3, <1>6, <2>1, <2>3, <3>1 DEF GapInv, Walked
  <2> QED BY <2>2, <2>3
<1>7. ASSUME NEW b, NEW i, NEW a \in 0..MaxTip, a <= From, Covered(b, i, a, nextBlock' - 1, hits)
      PROVE  Covered(b, i, From, nextBlock' - 1, hits)
  BY <1>1, <1>2, <1>7 DEF Covered
<1>8. CASE EndSearch
  <2>1. pass' = "searched" /\ Left = {}
    BY <1>8 DEF EndSearch
  <2>2. \A b, i : \A a \in 0..MaxTip : <<b, i, a>> \in added => a <= From
    BY <1>1, <2>1 DEF Left
  <2>3. GapNext
    BY <1>4, <1>6, <1>7, <2>1, <2>2 DEF GapNext
  <2> QED BY <2>3, GapInvNext
<1>9. CASE BeginRest
  <2>1. pass' = "rest" /\ match' = {a \in added : a[3] > From} /\ h' = FirstBlock("rest", tip)
    BY <1>9 DEF BeginRest, Left
  <2>2. h' \in Nat /\ h' <= From
    BY <1>1, <2>1, FirstBlockIs
  <2>3. ASSUME NEW b, NEW i, NEW a \in 0..MaxTip, <<b, i, a>> \in added, ~(a <= From),
               Covered(b, i, a, nextBlock' - 1, hits)
        PROVE  LeftNext(b, i)
    <3>1. <<b, i, a>> \in match'
      BY <1>1, <2>1, <2>3
    <3>2. Covered(b, i, From, (IF h' < a THEN h' ELSE a) - 1, hits')
      BY <1>1, <1>2, <2>2 DEF Covered, Mined
    <3> QED BY <1>4, <2>3, <3>1, <3>2 DEF LeftNext
  <2>4. GapNext
    BY <1>4, <1>6, <1>7, <2>1, <2>3 DEF GapNext
  <2> QED BY <2>4, GapInvNext
<1> QED BY <1>8, <1>9

LEMMA GapStep ==
  ASSUME ChannelInv, ChannelInv', WatchInv, WatchInv', GapInv, [Next]_vars
  PROVE  GapInv'
<1>1. UNCHANGED minedAt /\ h \in Nat /\ h' \in Nat /\ target \in Nat
  BY DEF ChannelInv, PlaceInv, Next, OpenBelowFloor, MatchingBlock, FalsePositive, OtherBlock, SkipBlocks,
         MainEnds, RestEnds, CarryOn, CheckEnds, CheckFails, NewBlock, vars, chain
<1>2. ASSUME pass' \notin {"main", "rest", "searched"} PROVE GapInv'
  BY <1>2 DEF GapInv
<1>3. pass \notin {"main", "rest"} => UNCHANGED pass \/ pass' \notin {"main", "rest", "searched"}
  BY DEF Next, OpenBelowFloor, MatchingBlock, FalsePositive, OtherBlock, SkipBlocks, MainEnds, RestEnds,
         CarryOn, CheckEnds, CheckFails, NewBlock, Looking, vars, walk
<1>4. ASSUME UNCHANGED <<watch, pass, h, nextBlock>> PROVE GapInv'
  <2>1. UNCHANGED <<watched, match, added, hits>>
    BY <1>4 DEF watch
  <2>2. GapNext
    BY <1>4, <2>1 DEF GapNext, GapInv, JoinedNext, JoinedAndCovered, LeftNext, LeftAndCovered, Walked
  <2> QED BY <1>1, <2>2, GapInvNext
<1>5. ASSUME pass \in {"main", "rest"}, OpenBlock(h), h <= target, h' = h + 1, UNCHANGED <<pass, nextBlock>>
      PROVE  GapInv'
  BY <1>1, <1>5, GapOpened
<1>6. CASE OpenBelowFloor
  <2>1. h <= target
    BY <1>6, ParametersAssumption DEF OpenBelowFloor, ChannelInv, PlaceInv
  <2> QED BY <1>5, <1>6, <2>1 DEF OpenBelowFloor
<1>7. CASE (MatchingBlock \/ FalsePositive \/ OtherBlock \/ SkipBlocks) /\ pass = "check"
  <2>1. pass' = "check"
    BY <1>7 DEF MatchingBlock, FalsePositive, OtherBlock, SkipBlocks
  <2> QED BY <1>2, <2>1
<1>8. CASE (MatchingBlock \/ FalsePositive) /\ pass \in {"main", "rest"}
  BY <1>5, <1>8 DEF MatchingBlock, FalsePositive, Looking, Advance
<1>9. CASE OtherBlock /\ pass \in {"main", "rest"}
  <2>1. h' = h + 1 /\ UNCHANGED <<watch, pass, nextBlock>> /\ WatchScripts(h) \cap BlockScripts(h) = {}
    BY <1>9 DEF OtherBlock, Advance, Scripts, Watching
  <2>2. h <= h' /\ \A at \in h..(h' - 1) : at = h
    BY <1>1, <2>1
  <2> QED BY <1>1, <1>9, <2>1, <2>2, GapPassed
<1>10. CASE SkipBlocks /\ pass \in {"main", "rest"}
  <2>1. UNCHANGED <<watch, pass, nextBlock>> /\ h' = NextStart(pass, h, target) /\ Scripts(h) = {} /\ h <= target
    BY <1>10 DEF SkipBlocks, Looking
  <2>2. h <= h'
    <3>1. h < h' \/ h' = target + 1
      BY <1>1, <2>1, NextStartIs
    <3> QED BY <1>1, <2>1, <3>1
  <2>3. \A at \in h..(h' - 1) : From <= at => WatchScripts(at) \cap BlockScripts(at) = {}
    BY <1>10, <2>1, NothingToWatch
  <2> QED BY <1>1, <1>10, <2>1, <2>2, <2>3, GapPassed
<1>11. (MatchingBlock \/ FalsePositive \/ OtherBlock \/ SkipBlocks) => pass \in {"main", "rest", "check"}
  BY DEF MatchingBlock, FalsePositive, OtherBlock, SkipBlocks, Looking
<1>12. CASE MainEnds \/ RestEnds
  <2>1. /\ pass \in {"main", "rest"} /\ h > target /\ (BeginRest \/ EndSearch)
        /\ nextBlock' = IF pass = "main" THEN target + 1 ELSE nextBlock
    BY <1>12 DEF MainEnds, RestEnds, PassOver
  <2> QED BY <1>1, <2>1, GapEnds
<1>13. CASE CarryOn \/ CheckEnds \/ CheckFails
  BY <1>2, <1>13 DEF CarryOn, CheckEnds, CheckFails
<1>14. CASE NewBlock \/ UNCHANGED vars
  BY <1>4, <1>14 DEF NewBlock, vars, walk
<1> QED BY <1>6, <1>7, <1>8, <1>9, <1>10, <1>11, <1>12, <1>13, <1>14 DEF Next

LEMMA GapFromInv == ChannelInv /\ WatchInv /\ GapInv => GapSearchIsComplete
<1> SUFFICES ASSUME ChannelInv, WatchInv, GapInv, pass = "searched", NEW b \in GapBranch,
                    NEW i \in Counter[b]..(Max({Counter[b] + Window, paidTo[b] + Gap}) - 1),
                    i < NewWatch(b) + Depth
             PROVE  AllFound(b, i)
  BY DEF GapSearchIsComplete
<1>1. /\ Counter[b] \in Nat /\ watched[b] \in Nat /\ paidTo[b] \in Nat /\ NewWatch(b) = Counter[b] + Window
      /\ Window \in Nat /\ Gap \in Nat /\ Depth \in Nat
      /\ NewWatch(b) <= watched[b] /\ paidTo[b] + Gap <= watched[b]
  BY CurIs, ParametersAssumption DEF WatchInv, NewWatch, Window
<1>2. Max({Counter[b] + Window, paidTo[b] + Gap}) <= watched[b]
      /\ Max({Counter[b] + Window, paidTo[b] + Gap}) \in Nat
  <2>1. Counter[b] + Window \in Nat /\ paidTo[b] + Gap \in Nat
    BY <1>1
  <2> QED BY <1>1, <2>1, MaxOfTwo
<1>3. i \in Counter[b]..(NewWatch(b) + Depth - 1) /\ i < watched[b]
  BY <1>1, <1>2
<1>4. Covered(b, i, From, Walked, hits)
  BY <1>3 DEF GapInv
<1> QED BY <1>4 DEF Covered, AllFound, Mined

\* The gap rule: when the search ends, every address up to the gap after the
\* last paid one was looked for in every block, also in those that had passed
\* before it joined the match.
THEOREM SpecGapSearchIsComplete == Spec => []GapSearchIsComplete
<1>1. ChannelInv /\ WatchInv /\ GapInv /\ [Next]_vars => ChannelInv' /\ WatchInv' /\ GapInv'
  BY ChannelStep, WatchStep, GapStep
<1> QED BY <1>1, ChannelInit, WatchInit, GapInit, GapFromInv, PTL DEF Spec

-----------------------------------------------------------------------------
(* Following the money.                                                    *)

\* An output to an address that is looked for from the beginning.
Wallet(op) ==
  /\ ScriptOf(op)[1] \in Branch /\ Counter[ScriptOf(op)[1]] <= ScriptOf(op)[2]
  /\ ScriptOf(op)[2] < NewWatch(ScriptOf(op)[1]) + Depth
Finds(t, S) == \A op \in OutPoints(t) : Wallet(op) => op \in S

\* The closes, and what takes their money on, in the blocks up to upTo.
ClosedBy(t, upTo) ==
  /\ \E c \in States : RightScript(c) /\ Spends(t, Funding[c]) /\ Start(c) <= minedAt[t]
  /\ Mined(t, From, upTo)
Takes(u, t) == \E op \in OutPoints(t) : ScriptOf(op)[1] \notin Branch /\ Spends(u, op)
FirstBy(u, upTo) == Mined(u, From, upTo) /\ \E t \in Tx : ClosedBy(t, upTo) /\ Takes(u, t)
SecondBy(v, upTo) == Mined(v, From, upTo) /\ \E u \in Tx : FirstBy(u, upTo) /\ Takes(v, u)
MoneyBy(t, upTo) == ClosedBy(t, upTo) \/ FirstBy(t, upTo) \/ SecondBy(t, upTo)

\* What t pays to others is followed, or has been spent already.
Spent(x, upTo) == \E u \in Tx : Spends(u, x) /\ Mined(u, 1, upTo)
Followed(t, f, depths, upTo) ==
  \A x \in OutPoints(t) : ScriptOf(x)[1] \notin Branch =>
    (x \in DOMAIN f /\ f[x] \in depths) \/ Spent(x, upTo)

SweepInv ==
  /\ pass \in {"main", "rest", "searched"} => \A t \in Tx : MoneyBy(t, Reach - 1) => Finds(t, hits)
  /\ pass = "main" =>
       /\ \A c \in Chan : spentBy[c] # None => minedAt[spentBy[c]] < h
       /\ \A t \in Tx : /\ ClosedBy(t, h - 1) => Followed(t, followed, {0}, h - 1)
                        /\ FirstBy(t, h - 1) => Followed(t, followed, {0, 1}, h - 1)

\* The same of the next state, on the same chain.
SweepNext ==
  /\ pass' \in {"main", "rest", "searched"} => \A t \in Tx : MoneyBy(t, Reach' - 1) => Finds(t, hits')
  /\ pass' = "main" =>
       /\ \A c \in Chan : spentBy'[c] # None => minedAt[spentBy'[c]] < h'
       /\ \A t \in Tx : /\ ClosedBy(t, h' - 1) => Followed(t, followed', {0}, h' - 1)
                        /\ FirstBy(t, h' - 1) => Followed(t, followed', {0, 1}, h' - 1)

LEMMA SweepInvNext ==
  ASSUME UNCHANGED minedAt, SweepNext
  PROVE  SweepInv'
<1> USE DEF Mined, ScriptOf, OutPoints, Spends, States, Usable, Start, RightScript
<1>1. \A t : ClosedBy(t, Reach - 1)' <=> ClosedBy(t, Reach' - 1)
  BY DEF ClosedBy
<1>2. \A t : ClosedBy(t, h - 1)' <=> ClosedBy(t, h' - 1)
  BY DEF ClosedBy
<1>3. \A t : FirstBy(t, Reach - 1)' <=> FirstBy(t, Reach' - 1)
  BY DEF FirstBy, ClosedBy, Takes
<1>4. \A t : FirstBy(t, h - 1)' <=> FirstBy(t, h' - 1)
  BY DEF FirstBy, ClosedBy, Takes
<1>5. \A t : SecondBy(t, Reach - 1)' <=> SecondBy(t, Reach' - 1)
  BY DEF SecondBy, FirstBy, ClosedBy, Takes
<1>6. \A t : Finds(t, hits') => Finds(t, hits)'
  BY DEF Finds, Wallet, NewWatch, Window
<1>7. \A t : Followed(t, followed', {0}, h' - 1) => Followed(t, followed, {0}, h - 1)'
  BY DEF Followed, Spent
<1>8. \A t : Followed(t, followed', {0, 1}, h' - 1) => Followed(t, followed, {0, 1}, h - 1)'
  BY DEF Followed, Spent
<1> QED BY <1>1, <1>2, <1>3, <1>4, <1>5, <1>6, <1>7, <1>8 DEF SweepInv, SweepNext, MoneyBy

\* What takes money on is in no earlier block, and of what is no later than
\* a block, that block is all that counts.
LEMMA TakesLater ==
  ASSUME minedAt \in Chains, NEW t \in Tx, NEW u \in Tx, Takes(u, t), minedAt[u] > 0
  PROVE  minedAt[t] <= minedAt[u]
BY ChainFacts, OutputIs DEF Takes, Spends

LEMMA UpToThen ==
  ASSUME minedAt \in Chains, NEW lo \in Int, NEW hi \in Int, NEW t \in Tx, minedAt[t] <= lo
  PROVE  /\ ClosedBy(t, hi) => ClosedBy(t, lo)
         /\ FirstBy(t, hi) => FirstBy(t, lo)
         /\ SecondBy(t, hi) => SecondBy(t, lo)
<1>1. minedAt \in [Tx -> Nat]
  BY ChainFacts
<1>2. ASSUME NEW u \in Tx, minedAt[u] <= lo, ClosedBy(u, hi) PROVE ClosedBy(u, lo)
  BY <1>2 DEF ClosedBy, Mined
<1>3. ASSUME NEW u \in Tx, minedAt[u] <= lo, FirstBy(u, hi) PROVE FirstBy(u, lo)
  <2>1. PICK v \in Tx : ClosedBy(v, hi) /\ Takes(u, v)
    BY <1>3 DEF FirstBy
  <2>2. minedAt[v] <= minedAt[u]
    BY <1>3, <2>1, TakesLater DEF FirstBy, Mined
  <2>3. ClosedBy(v, lo)
    BY <1>1, <1>2, <1>3, <2>1, <2>2
  <2> QED BY <1>3, <2>1, <2>3 DEF FirstBy, Mined
<1>4. ASSUME SecondBy(t, hi) PROVE SecondBy(t, lo)
  <2>1. PICK u \in Tx : FirstBy(u, hi) /\ Takes(t, u)
    BY <1>4 DEF SecondBy
  <2>2. minedAt[u] <= minedAt[t]
    BY <1>4, <2>1, TakesLater DEF SecondBy, Mined
  <2>3. FirstBy(u, lo)
    BY <1>1, <1>3, <2>1, <2>2
  <2> QED BY <1>4, <2>1, <2>3 DEF SecondBy, Mined
<1> QED BY <1>2, <1>3, <1>4

LEMMA SweepInit == Init => SweepInv
<1> SUFFICES ASSUME Init PROVE SweepInv
  OBVIOUS
<1>1. h \in Nat /\ h <= From /\ minedAt \in [Tx -> Nat] /\ Reach = h
  <2>1. Floor <= tip /\ tip \in Nat
    BY ParametersAssumption DEF Init
  <2> QED BY <2>1, FirstBlockIs, ChainFacts DEF Init, Reach
<1>2. \A t \in Tx : ~Mined(t, From, h - 1)
  BY <1>1, ParametersAssumption DEF Mined
<1>3. \A t \in Tx : ~MoneyBy(t, h - 1)
  BY <1>2 DEF MoneyBy, ClosedBy, FirstBy, SecondBy
<1> QED BY <1>1, <1>3 DEF Init, SweepInv, MoneyBy

\* Blocks done with, by the walk that follows the money.
LEMMA SweepBlocks ==
  ASSUME ChannelInv, SweepInv, pass = "main", UNCHANGED <<minedAt, pass, nextBlock>>, h' \in Nat, h <= h',
         hits \subseteq hits',
         \A c \in Chan : spentBy'[c] # None => minedAt[spentBy'[c]] < h',
         \A x \in DOMAIN followed : \/ x \in DOMAIN followed' /\ (followed[x] = 0 => followed'[x] = 0)
                                    \/ Spent(x, h' - 1),
         \A x \in DOMAIN followed' : followed'[x] \in {0, 1},
         \A t \in Tx : h <= minedAt[t] /\ MoneyBy(t, h' - 1) => Finds(t, hits'),
         \A t \in Tx : h <= minedAt[t] /\ ClosedBy(t, h' - 1) => Followed(t, followed', {0}, h' - 1),
         \A t \in Tx : h <= minedAt[t] /\ FirstBy(t, h' - 1) => Followed(t, followed', {0, 1}, h' - 1)
  PROVE  SweepInv'
<1>1. minedAt \in Chains /\ minedAt \in [Tx -> Nat] /\ h \in Nat /\ Reach = h /\ Reach' = h'
  BY ChainFacts DEF ChannelInv, PlaceInv, Reach
<1>2. ASSUME NEW t \in Tx, ~(h <= minedAt[t])
      PROVE  /\ ClosedBy(t, h' - 1) => ClosedBy(t, h - 1)
             /\ FirstBy(t, h' - 1) => FirstBy(t, h - 1)
             /\ SecondBy(t, h' - 1) => SecondBy(t, h - 1)
  <2>1. h - 1 \in Int /\ h' - 1 \in Int /\ minedAt[t] <= h - 1
    BY <1>1, <1>2
  <2> QED BY <1>1, <2>1, UpToThen
<1>3. \A x : Spent(x, h - 1) => Spent(x, h' - 1)
  BY <1>1 DEF Spent, Mined
<1>4. \A t \in Tx : /\ Followed(t, followed, {0}, h - 1) => Followed(t, followed', {0}, h' - 1)
                    /\ Followed(t, followed, {0, 1}, h - 1) => Followed(t, followed', {0, 1}, h' - 1)
  BY <1>3 DEF Followed
<1>5. ASSUME NEW t \in Tx, MoneyBy(t, h' - 1) PROVE Finds(t, hits')
  <2>1. CASE ~(h <= minedAt[t])
    <3>1. MoneyBy(t, h - 1)
      BY <1>2, <1>5, <2>1 DEF MoneyBy
    <3> QED BY <1>1, <3>1 DEF SweepInv, Finds
  <2> QED BY <1>5, <2>1
<1>6. ASSUME NEW t \in Tx
      PROVE  /\ ClosedBy(t, h' - 1) => Followed(t, followed', {0}, h' - 1)
             /\ FirstBy(t, h' - 1) => Followed(t, followed', {0, 1}, h' - 1)
  <2>1. CASE ~(h <= minedAt[t])
    BY <1>2, <1>4, <2>1 DEF SweepInv
  <2> QED BY <2>1
<1>7. SweepNext
  BY <1>1, <1>5, <1>6 DEF SweepNext
<1> QED BY <1>7, SweepInvNext

\* Steps that look at no block of the walk.
LEMMA SweepKept ==
  ASSUME SweepInv, pass \in {"main", "rest", "searched"}, UNCHANGED minedAt, Reach' = Reach, hits \subseteq hits',
         pass' # "main" \/ UNCHANGED <<pass, h, followed, spentBy>>
  PROVE  SweepInv'
<1>1. \A t \in Tx : Finds(t, hits) => Finds(t, hits')
  BY DEF Finds
<1>2. SweepNext
  BY <1>1 DEF SweepNext, SweepInv
<1> QED BY <1>2, SweepInvNext

\* Blocks whose filters match nothing hold neither a close nor anything that
\* takes its money on.
LEMMA SweepPassed ==
  ASSUME ChannelInv, WatchInv, SweepInv, pass = "main", UNCHANGED <<minedAt, states, watch, pass, nextBlock>>,
         h' \in Nat, h <= h',
         \A at \in h..(h' - 1) : /\ ChannelScripts(at) \cap BlockScripts(at) = {}
                                 /\ From <= at => WatchScripts(at) \cap BlockScripts(at) = {}
  PROVE  SweepInv'
<1>1. minedAt \in Chains /\ minedAt \in [Tx -> Nat] /\ h \in Nat /\ From \in Nat
  BY ChainFacts, ParametersAssumption DEF ChannelInv, PlaceInv
<1>2. UNCHANGED <<spentBy, followed, hits>>
  BY DEF states, watch
<1>3. ASSUME NEW t \in Tx, h <= minedAt[t], Mined(t, From, h' - 1)
      PROVE  /\ minedAt[t] \in h..(h' - 1) /\ From <= minedAt[t] /\ minedAt[t] > 0
             /\ \A op : Spends(t, op) => ScriptOf(op) \in BlockScripts(minedAt[t])
             /\ \A op \in DOMAIN followed : ~Spends(t, op)
  <2>1. minedAt[t] \in h..(h' - 1) /\ From <= minedAt[t] /\ minedAt[t] > 0 /\ ~(minedAt[t] < From)
    BY <1>1, <1>3 DEF Mined
  <2>2. \A op : Spends(t, op) => ScriptOf(op) \in BlockScripts(minedAt[t])
    BY DEF BlockScripts, Spends, InBlock
  <2>3. \A op \in DOMAIN followed : ScriptOf(op) \in WatchScripts(minedAt[t])
    BY <2>1 DEF WatchScripts
  <2> QED BY <2>1, <2>2, <2>3
<1>4. ASSUME NEW t \in Tx, h <= minedAt[t], ClosedBy(t, h' - 1) PROVE FALSE
  <2>1. PICK c \in States : RightScript(c) /\ Spends(t, Funding[c]) /\ Start(c) <= minedAt[t]
    BY <1>4 DEF ClosedBy
  <2>2. Mined(t, From, h' - 1) /\ c \in Chan
    BY <1>4 DEF ClosedBy, States
  <2>3. minedAt[t] \in h..(h' - 1) /\ minedAt[t] > 0 /\ ScriptOf(Funding[c]) \in BlockScripts(minedAt[t])
    BY <1>3, <1>4, <2>1, <2>2
  <2>4. spentBy[c] # None
    <3>1. spentBy[c] = None => FundScript[c] \in ChannelScripts(minedAt[t])
      BY <2>1 DEF ChannelScripts
    <3> QED BY <2>1, <2>3, <3>1 DEF RightScript
  <2>5. spentBy[c] \in Tx /\ Spends(spentBy[c], Funding[c]) /\ minedAt[spentBy[c]] > 0
    BY <2>2, <2>4 DEF ChannelInv, SoundInv, Mined
  <2>6. spentBy[c] = t
    BY <1>1, <2>1, <2>3, <2>5, OneSpender
  <2>7. minedAt[t] < h
    BY <2>2, <2>4, <2>6 DEF SweepInv
  <2> QED BY <1>1, <1>4, <2>7
\* What is followed is not spent in these blocks, nor is what was spent before.
<1>5. ASSUME NEW t \in Tx, NEW u \in Tx, NEW depths, Followed(t, followed, depths, h - 1), Takes(u, t),
             h <= minedAt[u], Mined(u, From, h' - 1)
      PROVE  FALSE
  <2>1. PICK op \in OutPoints(t) : ScriptOf(op)[1] \notin Branch /\ Spends(u, op)
    BY <1>5 DEF Takes
  <2>2. CASE op \in DOMAIN followed
    BY <1>3, <1>5, <2>1, <2>2
  <2>3. CASE Spent(op, h - 1)
    <3>1. PICK w \in Tx : Spends(w, op) /\ Mined(w, 1, h - 1)
      BY <2>3 DEF Spent
    <3>2. w = u
      BY <1>1, <1>5, <2>1, <3>1, OneSpender DEF Mined
    <3> QED BY <1>1, <1>5, <3>1, <3>2 DEF Mined
  <2> QED BY <1>5, <2>1, <2>2, <2>3 DEF Followed
<1>6. h - 1 \in Int /\ h' - 1 \in Int /\ \A t \in Tx : ~(h <= minedAt[t]) => minedAt[t] <= h - 1
  BY <1>1
<1>7. ASSUME NEW t \in Tx, h <= minedAt[t], FirstBy(t, h' - 1) PROVE FALSE
  <2>1. PICK u \in Tx : ClosedBy(u, h' - 1) /\ Takes(t, u)
    BY <1>7 DEF FirstBy
  <2>2. minedAt[u] <= h - 1
    BY <1>4, <1>6, <2>1
  <2>3. Followed(u, followed, {0}, h - 1)
    BY <1>1, <1>6, <2>1, <2>2, UpToThen DEF SweepInv
  <2> QED BY <1>5, <1>7, <2>1, <2>3 DEF FirstBy
<1>8. ASSUME NEW t \in Tx, h <= minedAt[t], SecondBy(t, h' - 1) PROVE FALSE
  <2>1. PICK u \in Tx : FirstBy(u, h' - 1) /\ Takes(t, u)
    BY <1>8 DEF SecondBy
  <2>2. minedAt[u] <= h - 1
    BY <1>6, <1>7, <2>1
  <2>3. Followed(u, followed, {0, 1}, h - 1)
    BY <1>1, <1>6, <2>1, <2>2, UpToThen DEF SweepInv
  <2> QED BY <1>5, <1>8, <2>1, <2>3 DEF SecondBy
<1>9. \A x \in DOMAIN followed : followed[x] \in {0, 1}
  BY FollowingIs DEF WatchInv
<1>10. \A c \in Chan : spentBy'[c] # None => minedAt[spentBy'[c]] < h'
  <2>1. \A c \in Chan : spentBy[c] # None => spentBy[c] \in Tx /\ minedAt[spentBy[c]] < h
    BY DEF ChannelInv, SoundInv, SweepInv
  <2> QED BY <1>1, <1>2, <2>1
<1> QED BY <1>2, <1>4, <1>7, <1>8, <1>9, <1>10, SweepBlocks DEF MoneyBy

\* A block that is opened.
LEMMA SweepOpened ==
  ASSUME ChannelInv, ChannelInv', WatchInv, WatchInv', SweepInv, pass = "main", h <= target,
         OpenBlock(h), h' = h + 1, UNCHANGED <<minedAt, pass, nextBlock>>
  PROVE  SweepInv'
<1>1. /\ minedAt \in Chains /\ minedAt \in [Tx -> Nat] /\ h \in Nat \ {0} /\ h \in 0..MaxTip /\ From \in Nat
      /\ h' - 1 = h
  BY ChainFacts, ParametersAssumption DEF ChannelInv, PlaceInv
<1>2. ApplyToChannels(h) /\ ApplyToWatch(h) /\ Cur \in Watches /\ followed \in Followings /\ followed' \in Followings
  BY WatchInvNext DEF OpenBlock, Watching, WatchInv
<1> DEFINE outs == UNION {OutPoints(spentBy'[c]) : c \in {c \in States : spentBy[c] = None /\ spentBy'[c] # None}}
           f == Follow(followed, outs, 0)
<1>3. followed' = FollowSpends(f, h)
  BY <1>2 DEF ApplyToWatch
<1>4. ASSUME NEW c \in States, spentBy'[c] # None
      PROVE  spentBy'[c] \in Tx /\ Spends(spentBy'[c], Funding[c]) /\ c \in Chan
  BY <1>4 DEF ChannelInv, SoundInv, States, Spends
<1>5. outs \subseteq AllOutputs /\ \A x \in outs : \E c \in Chan : Spends(x[1], Funding[c])
  BY <1>4, OutputIs
<1>6. ASSUME NEW t \in Tx, minedAt[t] = h, ClosedBy(t, h) PROVE OutPoints(t) \subseteq outs
  <2>1. PICK c \in States : RightScript(c) /\ Spends(t, Funding[c]) /\ Start(c) <= minedAt[t]
    BY <1>6 DEF ClosedBy
  <2>2. c \in Chan
    BY DEF States
  <2>3. spentBy[c] = None
    <3>1. SUFFICES ASSUME spentBy[c] # None PROVE FALSE
      OBVIOUS
    <3>2. spentBy[c] \in Tx /\ Spends(spentBy[c], Funding[c]) /\ minedAt[spentBy[c]] > 0
      BY <2>2, <3>1 DEF ChannelInv, SoundInv, Mined
    <3>3. spentBy[c] = t
      BY <1>1, <1>6, <2>1, <3>2, OneSpender
    <3> QED BY <1>1, <1>6, <2>2, <3>1, <3>3 DEF SweepInv
  <2>4. spentBy'[c] = SpenderIn(c, h)
    BY <1>2, <2>2, <2>3 DEF ApplyToChannels
  <2>5. SpenderIn(c, h) \in Tx /\ minedAt[SpenderIn(c, h)] = h /\ Spends(SpenderIn(c, h), Funding[c])
        /\ SpenderIn(c, h) # None
    BY <1>6, <2>1, SpenderIs
  <2>6. spentBy'[c] = t
    BY <1>1, <1>6, <2>1, <2>4, <2>5, OneSpender
  <2> QED BY <2>3, <2>4, <2>5, <2>6
<1> HIDE DEF outs
<1>7. /\ f \in Followings
      /\ \A x \in DOMAIN followed : x \in DOMAIN f /\ (followed[x] = 0 => f[x] = 0)
      /\ \A x \in outs : Foreign(x) => x \in DOMAIN f /\ f[x] = 0
  BY <1>2, <1>5, FollowClosesIs
<1> HIDE DEF f
<1>8. /\ \A x \in DOMAIN f : \/ \E t \in Tx : minedAt[t] = h /\ Spends(t, x)
                             \/ x \in DOMAIN followed' /\ (f[x] = 0 => followed'[x] = 0)
      /\ \A t \in Tx, op \in DOMAIN f : minedAt[t] = h /\ f[op] = 0 /\ Spends(t, op) =>
           \A x \in OutPoints(t) : Foreign(x) =>
             x \in DOMAIN followed' \/ \E u \in Tx : minedAt[u] = h /\ Spends(u, x)
  BY <1>1, <1>3, <1>7, FollowSpendsIs
<1>9. \A x : (\E u \in Tx : minedAt[u] = h /\ Spends(u, x)) => Spent(x, h' - 1)
  BY <1>1 DEF Spent, Mined
<1>10. \A x : ScriptOf(x)[1] \notin Branch => Foreign(x)
  BY DEF Foreign, IsKnown
<1>11. \A t \in Tx : h <= minedAt[t] /\ MoneyBy(t, h' - 1) => minedAt[t] = h
  BY <1>1 DEF MoneyBy, ClosedBy, FirstBy, SecondBy, Mined
<1>12. \A t \in Tx : h <= minedAt[t] /\ MoneyBy(t, h' - 1) => Finds(t, hits')
  <2>1. \A t \in Tx : minedAt[t] = h => \A op \in OutPoints(t) : IsKnown(ScriptOf(op), known) => op \in hits'
    BY <1>1, <1>2, Applied
  <2>2. ASSUME NEW t \in Tx, NEW op \in OutPoints(t), Wallet(op) PROVE IsKnown(ScriptOf(op), known)
    <3> DEFINE b == ScriptOf(op)[1]
               i == ScriptOf(op)[2]
    <3>1. b \in Branch /\ Counter[b] <= i /\ i < NewWatch(b) + Depth /\ i \in Nat
      BY <2>2, OutputIs DEF Wallet
    <3>2. known[b] \in Nat /\ NewWatch(b) + Depth <= known[b] /\ NewWatch(b) + Depth \in Nat
      BY <3>1, CurIs, ParametersAssumption DEF WatchInv, NewWatch, Window
    <3>3. i < known[b]
      BY <3>1, <3>2
    <3> QED BY <3>1, <3>3 DEF IsKnown
  <2> QED BY <1>11, <2>1, <2>2 DEF Finds
\* What a close paid to others, in this block or before it, can be followed.
<1>13. ASSUME NEW t \in Tx, ClosedBy(t, h), NEW x \in OutPoints(t), ScriptOf(x)[1] \notin Branch
       PROVE  (x \in DOMAIN f /\ f[x] = 0) \/ Spent(x, h - 1)
  <2>1. CASE minedAt[t] = h
    BY <1>6, <1>7, <1>10, <1>13, <2>1
  <2>2. CASE minedAt[t] # h
    <3>1. minedAt[t] <= h - 1 /\ h - 1 \in Int /\ h \in Int
      BY <1>1, <1>13, <2>2 DEF ClosedBy, Mined
    <3>2. ClosedBy(t, h - 1)
      BY <1>1, <1>13, <3>1, UpToThen
    <3>3. (x \in DOMAIN followed /\ followed[x] = 0) \/ Spent(x, h - 1)
      BY <1>13, <3>2 DEF SweepInv, Followed
    <3> QED BY <1>7, <3>3
  <2> QED BY <2>1, <2>2
<1>14. \A x : Spent(x, h - 1) => Spent(x, h' - 1)
  BY <1>1 DEF Spent, Mined
<1>15. \A t \in Tx : h <= minedAt[t] /\ ClosedBy(t, h' - 1) => Followed(t, followed', {0}, h' - 1)
  BY <1>1, <1>8, <1>9, <1>13, <1>14 DEF Followed
<1>16. \A x \in DOMAIN followed' : followed'[x] \in {0, 1}
  BY <1>2, FollowingIs
<1>17. ASSUME NEW u \in Tx, minedAt[u] = h, FirstBy(u, h) PROVE Followed(u, followed', {0, 1}, h' - 1)
  <2>1. PICK t \in Tx : ClosedBy(t, h) /\ Takes(u, t)
    BY <1>17 DEF FirstBy
  <2>2. PICK op \in OutPoints(t) : ScriptOf(op)[1] \notin Branch /\ Spends(u, op)
    BY <2>1 DEF Takes
  <2>3. ~Spent(op, h - 1)
    <3>1. SUFFICES ASSUME NEW w \in Tx, Spends(w, op), Mined(w, 1, h - 1) PROVE FALSE
      BY DEF Spent
    <3>2. w = u
      BY <1>1, <1>17, <2>2, <3>1, OneSpender DEF Mined
    <3> QED BY <1>1, <1>17, <3>1, <3>2 DEF Mined
  <2>4. op \in DOMAIN f /\ f[op] = 0
    BY <1>13, <2>1, <2>2, <2>3
  <2>5. \A x \in OutPoints(u) : Foreign(x) =>
          x \in DOMAIN followed' \/ \E v \in Tx : minedAt[v] = h /\ Spends(v, x)
    BY <1>8, <1>17, <2>2, <2>4
  <2> QED BY <1>9, <1>10, <1>16, <2>5 DEF Followed
<1>18. \A t \in Tx : h <= minedAt[t] /\ FirstBy(t, h' - 1) => Followed(t, followed', {0, 1}, h' - 1)
  BY <1>1, <1>11, <1>17 DEF MoneyBy
<1>19. \A x \in DOMAIN followed : \/ x \in DOMAIN followed' /\ (followed[x] = 0 => followed'[x] = 0)
                                  \/ Spent(x, h' - 1)
  BY <1>7, <1>8, <1>9
<1>20. hits \subseteq hits'
  <2>1. Grew(Cur, Cur', h)
    BY <1>1, <1>2, Applied
  <2> QED BY <2>1 DEF Grew, Cur
<1>21. \A c \in Chan : spentBy'[c] # None => minedAt[spentBy'[c]] < h'
  <2>1. ASSUME NEW c \in Chan, spentBy'[c] # None PROVE minedAt[spentBy'[c]] < h'
    <3>1. CASE spentBy'[c] = spentBy[c]
      <4>1. spentBy[c] \in Tx /\ minedAt[spentBy[c]] < h
        BY <2>1, <3>1 DEF ChannelInv, SoundInv, SweepInv
      <4> QED BY <1>1, <3>1, <4>1
    <3>2. CASE spentBy'[c] = SpenderIn(c, h)
      BY <1>1, <2>1, <3>2, SpenderIs
    <3> QED BY <1>2, <3>1, <3>2 DEF ApplyToChannels
  <2> QED BY <2>1
<1>22. h' \in Nat /\ h <= h'
  BY <1>1
<1> QED BY <1>12, <1>15, <1>16, <1>18, <1>19, <1>20, <1>21, <1>22, SweepBlocks

LEMMA SweepStep ==
  ASSUME ChannelInv, ChannelInv', WatchInv, WatchInv', SweepInv, [Next]_vars
  PROVE  SweepInv'
<1>1. UNCHANGED minedAt /\ h \in Nat /\ h' \in Nat /\ target \in Nat /\ nextBlock \in Nat
  BY DEF ChannelInv, PlaceInv, Next, OpenBelowFloor, MatchingBlock, FalsePositive, OtherBlock, SkipBlocks,
         MainEnds, RestEnds, CarryOn, CheckEnds, CheckFails, NewBlock, vars, chain
<1>2. ASSUME pass' \notin {"main", "rest", "searched"} PROVE SweepInv'
  BY <1>2 DEF SweepInv
<1>3. ASSUME UNCHANGED <<states, watch, pass, h, nextBlock>> PROVE SweepInv'
  <2>1. CASE pass \in {"main", "rest", "searched"}
    <3>1. Reach' = Reach /\ hits \subseteq hits' /\ UNCHANGED <<pass, h, followed, spentBy>>
      BY <1>3 DEF Reach, states, watch
    <3> QED BY <1>1, <2>1, <3>1, SweepKept
  <2> QED BY <1>2, <1>3, <2>1
<1>4. ASSUME pass = "main", OpenBlock(h), h <= target, h' = h + 1, UNCHANGED <<pass, nextBlock>>
      PROVE  SweepInv'
  BY <1>1, <1>4, SweepOpened
<1>5. ASSUME pass = "rest", UNCHANGED <<pass, nextBlock>>, hits \subseteq hits' PROVE SweepInv'
  <2>1. Reach' = Reach /\ pass' # "main"
    BY <1>5 DEF Reach
  <2> QED BY <1>1, <1>5, <2>1, SweepKept
<1>6. ASSUME pass = "rest", OpenBlock(h), h <= target PROVE hits \subseteq hits'
  <2>1. ApplyToWatch(h) /\ Cur \in Watches
    BY <1>6 DEF OpenBlock, Watching, WatchInv
  <2>2. h \in 0..MaxTip
    BY <1>6, ParametersAssumption DEF ChannelInv, PlaceInv
  <2>3. Grew(Cur, Cur', h)
    BY <2>1, <2>2, Applied
  <2> QED BY <2>3 DEF Grew, Cur
<1>7. CASE OpenBelowFloor
  <2>1. h <= target
    BY <1>7, ParametersAssumption DEF OpenBelowFloor, ChannelInv, PlaceInv
  <2> QED BY <1>4, <1>5, <1>6, <1>7, <2>1 DEF OpenBelowFloor
<1>8. CASE (MatchingBlock \/ FalsePositive \/ OtherBlock \/ SkipBlocks) /\ pass = "check"
  <2>1. pass' = "check"
    BY <1>8 DEF MatchingBlock, FalsePositive, OtherBlock, SkipBlocks
  <2> QED BY <1>2, <2>1
<1>9. CASE (MatchingBlock \/ FalsePositive) /\ pass \in {"main", "rest"}
  BY <1>4, <1>5, <1>6, <1>9 DEF MatchingBlock, FalsePositive, Looking, Advance
<1>10. CASE (OtherBlock \/ SkipBlocks) /\ pass = "rest"
  BY <1>5, <1>10 DEF OtherBlock, SkipBlocks, watch
<1>11. CASE OtherBlock /\ pass = "main"
  <2>1. /\ h' = h + 1 /\ UNCHANGED <<states, watch, pass, nextBlock>>
        /\ ChannelScripts(h) \cap BlockScripts(h) = {} /\ WatchScripts(h) \cap BlockScripts(h) = {}
    BY <1>11 DEF OtherBlock, Advance, Scripts, Watching
  <2>2. h <= h' /\ \A at \in h..(h' - 1) : at = h
    BY <1>1, <2>1
  <2> QED BY <1>1, <1>11, <2>1, <2>2, SweepPassed
<1>12. CASE SkipBlocks /\ pass = "main"
  <2>1. /\ UNCHANGED <<states, watch, pass, nextBlock>> /\ h' = NextStart(pass, h, target)
        /\ Scripts(h) = {} /\ h <= target
    BY <1>12 DEF SkipBlocks, Looking
  <2>2. /\ h < h' \/ h' = target + 1
        /\ \A c \in States : Start(c) <= h \/ h' <= Start(c)
    BY <1>1, <1>12, <2>1, NextStartIs
  <2>3. h <= h'
    BY <1>1, <2>1, <2>2
  <2>4. ASSUME NEW at, at \in h..(h' - 1) PROVE ChannelScripts(at) = {}
    <3>1. \A c \in States : Start(c) \in Nat
      BY ParametersAssumption DEF States, Start
    <3>2. at \in Int /\ at < h'
      BY <1>1, <2>4, BeforeNext
    <3>3. \A c \in States : Start(c) <= at => Start(c) <= h
      BY <1>1, <2>2, <3>1, <3>2
    <3>4. ChannelScripts(h) = {}
      BY <1>12, <2>1 DEF Scripts
    <3> QED BY <3>3, <3>4 DEF ChannelScripts
  <2>5. \A at \in h..(h' - 1) : From <= at => WatchScripts(at) = {}
    BY <1>12, <2>1, NothingToWatch
  <2> QED BY <1>1, <1>12, <2>1, <2>3, <2>4, <2>5, SweepPassed
<1>13. (MatchingBlock \/ FalsePositive \/ OtherBlock \/ SkipBlocks) => pass \in {"main", "rest", "check"}
  BY DEF MatchingBlock, FalsePositive, OtherBlock, SkipBlocks, Looking
<1>14. CASE MainEnds \/ RestEnds
  <2>1. pass \in {"main", "rest"} /\ pass' \in {"rest", "searched"} /\ UNCHANGED hits
    BY <1>14 DEF MainEnds, RestEnds, BeginRest, EndSearch, watch
  <2>2. nextBlock' = IF pass = "main" THEN h ELSE nextBlock
    BY <1>1, <1>14 DEF MainEnds, RestEnds, PassOver, ChannelInv, PlaceInv
  <2>3. Reach' = Reach
    BY <2>1, <2>2 DEF Reach
  <2> QED BY <1>1, <2>1, <2>3, SweepKept
<1>15. CASE CarryOn \/ CheckEnds \/ CheckFails
  BY <1>2, <1>15 DEF CarryOn, CheckEnds, CheckFails
<1>16. CASE NewBlock \/ UNCHANGED vars
  BY <1>3, <1>16 DEF NewBlock, vars, walk
<1> QED BY <1>7, <1>8, <1>9, <1>10, <1>11, <1>12, <1>13, <1>14, <1>15, <1>16 DEF Next

LEMMA SweepsFromInv == SweepInv => SweepsAreFound
<1> SUFFICES ASSUME SweepInv, pass = "searched", NEW t \in Closes \cup FirstSpends \cup SecondSpends
             PROVE  Finds(t, hits)
  BY DEF SweepsAreFound, Finds, Wallet
<1>1. Reach - 1 = Walked
  BY DEF Reach, Walked
<1>2. \A u \in Tx : u \in Closes <=> ClosedBy(u, Walked)
  BY DEF Closes, ClosedBy, Mined
<1>3. \A u \in Tx : u \in FirstSpends <=> FirstBy(u, Walked)
  <2>1. \A u \in Tx : SpendsFrom(u, Closes) <=> \E v \in Tx : ClosedBy(v, Walked) /\ Takes(u, v)
    BY <1>2 DEF SpendsFrom, Takes, Closes
  <2> QED BY <2>1 DEF FirstSpends, FirstBy
<1>4. \A u \in Tx : u \in SecondSpends <=> SecondBy(u, Walked)
  <2>1. \A u \in Tx : SpendsFrom(u, FirstSpends) <=> \E v \in Tx : FirstBy(v, Walked) /\ Takes(u, v)
    BY <1>3 DEF SpendsFrom, Takes, FirstSpends
  <2> QED BY <2>1 DEF SecondSpends, SecondBy
<1>5. t \in Tx
  BY DEF Closes, FirstSpends, SecondSpends
<1> QED BY <1>1, <1>2, <1>3, <1>4, <1>5 DEF SweepInv, MoneyBy

\* Following the money: what a close pays out within two spends is found, to an
\* address however far past the wallet's counter.
THEOREM SpecSweepsAreFound == Spec => []SweepsAreFound
<1>1. ChannelInv /\ WatchInv /\ SweepInv /\ [Next]_vars => ChannelInv' /\ WatchInv' /\ SweepInv'
  BY ChannelStep, WatchStep, SweepStep
<1> QED BY <1>1, ChannelInit, WatchInit, SweepInit, SweepsFromInv, PTL DEF Spec
=============================================================================
