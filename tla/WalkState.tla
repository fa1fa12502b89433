----------------------------- MODULE WalkState ------------------------------
(***************************************************************************)
(* The channel check over many program starts, on a chain that can be      *)
(* reorganised: CheckChannelsOnChain (core/chaincheck.go), the walk it     *)
(* keeps in memory (c.walk) and in chain-walk.json (core/walkstate.go),    *)
(* and the search that starts such a walk (findLaterFunds).                *)
(*                                                                         *)
(* ChainWalk has the filters, scripts and floor, on a chain that only      *)
(* grows; here a block is looked into exactly when something in it is      *)
(* watched. Channels of another node are set aside before all this.        *)
(*                                                                         *)
(* A block is its height and the number of blocks disconnected when it     *)
(* was found, which no two blocks share.                                   *)
(***************************************************************************)
EXTENDS Integers, Sequences, FiniteSets, FiniteSetsExt

CONSTANTS
  Chan,        \* the backup's channels
  Fund,        \* Fund[c]: the transaction that funds c
  PeerClose,   \* PeerClose[c]: a close with an output to toUsScript
  OtherClose,  \* OtherClose[c]: a close without one
  Sweep,       \* Sweep[c]: the transaction spending that output
  Hint,        \* Hint[c]: fundingHeightHint
  Pending,     \* the channels lnd does not list as open yet
  Back,        \* walkStateBack
  None,
  Mineable,    \* bound: the transactions that are mined
  StartTip,    \* the tip at first
  MaxTip,      \* bound: the highest block
  MaxDrops     \* bound: blocks disconnected

Closes(c) == {PeerClose[c], OtherClose[c]}
Tx == UNION {Closes(c) \cup {Fund[c], Sweep[c]} : c \in Chan}

Heights == 0..(MaxTip + 1)

\* fundingState of each channel and chainWalk.next. torn is history: heights
\* whose block was replaced after this walk had passed it, in memory.
Walk == [all: SUBSET Chan, found: SUBSET Chan, spent: [Chan -> Tx \cup {None}],
         swept: SUBSET Chan, next: Heights, torn: SUBSET (Heights \ {0})]

\* savedWalk. reached and lowest are history: the block the walk stood on, and
\* the lowest one disconnected since.
File == [all: SUBSET Chan, found: SUBSET Chan, spent: [Chan -> Tx \cup {None}],
         swept: SUBSET Chan, next: Heights, torn: SUBSET (Heights \ {0}),
         last: 0..MaxDrops, reached: Heights, lowest: Heights]

ASSUME ParametersAssumption ==
  /\ Hint \in [Chan -> Nat \ {0}] /\ Pending \subseteq Chan
  /\ None \notin Tx \cup Walk \cup File /\ Mineable \subseteq Tx
  /\ \A c \in Chan :
       /\ PeerClose[c] # OtherClose[c] /\ Fund[c] # Sweep[c]
       /\ Fund[c] \notin Closes(c) /\ Sweep[c] \notin Closes(c)
  /\ \A c, d \in Chan :
       c # d => (Closes(c) \cup {Fund[c], Sweep[c]})
                  \cap (Closes(d) \cup {Fund[d], Sweep[d]}) = {}
  /\ Back \in Nat \ {0}
  /\ StartTip \in Nat \ {0} /\ MaxTip \in Nat /\ StartTip <= MaxTip /\ MaxDrops \in Nat
  /\ \A c \in Chan \ Pending : Hint[c] <= StartTip

VARIABLES
  block,    \* the chain: what tells the blocks of each height apart
  minedAt,  \* the chain: each transaction's height, 0 when it has none
  drops,    \* blocks disconnected so far
  listed,   \* lnd: the channels it lists as open
  gone,     \* lnd: those it has closed
  file,     \* chain-walk.json
  mem,      \* c.walk
  pc,       \* "idle", or where a check or a search is
  job,      \* which of the two
  cur,      \* the walk at work
  same,     \* ... is c.walk itself
  h,        \* run's h
  target,   \* run's tip
  shown,    \* c.checks: the verdicts, with the last block they are about
  searched, \* the mark addresses-extended: the check comes after the search
  covered   \* history: the channels of the files since the last search

chain == <<block, minedAt, drops>>
lnd   == <<listed, gone>>
work  == <<pc, job, cur, same, h, target>>
past  == <<searched, covered>>
vars  == <<chain, lnd, file, mem, work, shown, past>>

Tip == Len(block)

NewWalk(F) ==
  [all |-> F, found |-> {}, spent |-> [c \in Chan |-> None], swept |-> {},
   next |-> 0, torn |-> {}]

NothingShown == [verdict |-> [c \in Chan |-> "unverified"], upTo |-> 0, torn |-> {}]

Init ==
  /\ block = [i \in 1..StartTip |-> 0] /\ drops = 0
  /\ minedAt = [t \in Tx |-> IF \E c \in Chan \ Pending : t = Fund[c]
                             THEN Hint[CHOOSE c \in Chan : t = Fund[c]] ELSE 0]
  /\ listed = Chan \ Pending /\ gone = {}
  /\ file = None /\ mem = None
  /\ pc = "idle" /\ job = "check" /\ cur = None /\ same = FALSE /\ h = 0 /\ target = 0
  /\ shown = NothingShown
  /\ searched = FALSE /\ covered = {}

-----------------------------------------------------------------------------
(* External: the chain and lnd.                                            *)

ParentOf(t) ==
  LET spends == {c \in Chan : t \in Closes(c)}
      sweeps == {c \in Chan : t = Sweep[c]}
  IN  {Fund[c] : c \in spends} \cup {PeerClose[c] : c \in sweeps}

\* Parents come first, and one of two closes at most.
MayBeMined(T) ==
  /\ \A t \in T : minedAt[t] = 0 /\ \A p \in ParentOf(t) : p \in T \/ minedAt[p] > 0
  /\ \A c \in Chan :
       /\ Cardinality({t \in Closes(c) : t \in T \/ minedAt[t] > 0}) <= 1
       /\ Fund[c] \in T => Hint[c] <= Tip + 1

Connect ==
  /\ Tip < MaxTip
  /\ \E T \in SUBSET Mineable :
       /\ MayBeMined(T)
       /\ minedAt' = [t \in Tx |-> IF t \in T THEN Tip + 1 ELSE minedAt[t]]
  /\ block' = Append(block, drops)
  /\ UNCHANGED <<drops, lnd, file, mem, work, shown, past>>

Tear(w, passed) == IF Tip < passed THEN [w EXCEPT !.torn = @ \cup {Tip}] ELSE w

\* The tip is disconnected; what the program knows does not change.
Disconnect ==
  /\ drops < MaxDrops /\ Tip > 1
  /\ drops' = drops + 1
  /\ block' = SubSeq(block, 1, Tip - 1)
  /\ minedAt' = [t \in Tx |-> IF minedAt[t] = Tip THEN 0 ELSE minedAt[t]]
  /\ file' = IF file = None THEN None ELSE [file EXCEPT !.lowest = Min({@, Tip})]
  /\ mem' = IF mem = None THEN None ELSE Tear(mem, mem.next)
  /\ cur' = IF cur = None THEN None ELSE Tear(cur, IF pc = "walk" THEN h ELSE cur.next)
  /\ shown' = Tear(shown, shown.upTo + 1)
  /\ UNCHANGED <<lnd, pc, job, same, h, target, past>>

LndListsOpen(c) ==
  /\ c \notin listed \cup gone /\ minedAt[Fund[c]] > 0
  /\ listed' = listed \cup {c}
  /\ UNCHANGED <<chain, gone, file, mem, work, shown, past>>

LndSeesClose(c) ==
  /\ c \in listed /\ \E t \in Closes(c) : minedAt[t] > 0
  /\ listed' = listed \ {c} /\ gone' = gone \cup {c}
  /\ UNCHANGED <<chain, file, mem, work, shown, past>>

-----------------------------------------------------------------------------
(* chainWalk: a block, and the verdicts.                                   *)

Collects(w, c) == w.spent[c] = PeerClose[c] /\ c \notin w.swept

Verdict(w, c) ==
  IF c \notin w.all THEN "unverified"
  ELSE IF w.spent[c] # None THEN (IF Collects(w, c) THEN "collect" ELSE "spent")
  ELSE IF c \in w.found THEN "open" ELSE "unverified"

Watched(w, at) ==
  {c \in w.all : Hint[c] <= at /\ (w.spent[c] = None \/ Collects(w, c))}

CloseIn(c, at) == {t \in Closes(c) : minedAt[t] = at}

LookInto(w, at) ==
  LET spent == [c \in Chan |-> IF c \in w.all /\ w.spent[c] = None /\ CloseIn(c, at) # {}
                               THEN CHOOSE t \in CloseIn(c, at) : TRUE ELSE w.spent[c]]
  IN  [w EXCEPT !.found = @ \cup {c \in w.all : minedAt[Fund[c]] = at},
                !.spent = spent,
                !.swept = @ \cup {c \in w.all : /\ spent[c] = PeerClose[c]
                                                /\ minedAt[Sweep[c]] = at},
                !.torn = @ \ {at}]

NextStart(w, at, end) == Min({Hint[c] : c \in {c \in w.all : Hint[c] > at}} \cup {end + 1})

-----------------------------------------------------------------------------
(* CheckChannelsOnChain up to the walk.                                    *)

SavedFundings == IF file = None THEN {} ELSE file.all

\* Mutant: channels lnd no longer lists are left to lnd.
FundingsListed == listed

\* Those lnd lists, and those an earlier walk covered.
Fundings == listed \cup (IF mem # None THEN mem.all ELSE SavedFundings)

InMemory(F) == mem # None /\ F \subseteq mem.all

\* Mutant: the hash of the block it stands on is not compared.
FitsAnyBlock(F) ==
  /\ file # None /\ file.next \in 2..(Tip + 1)
  /\ F \subseteq file.all

Fits(F) ==
  /\ file # None /\ file.next \in 2..(Tip + 1)
  /\ block[file.next - 1] = file.last
  /\ F \subseteq file.all

\* Mutant: ToUsSpent is not read back.
LoadWithoutSwept(F) ==
  [all |-> F, found |-> file.found \cap F,
   spent |-> [c \in Chan |-> IF c \in F THEN file.spent[c] ELSE None],
   swept |-> {}, next |-> file.next, torn |-> file.torn]

LoadWalk(F) ==
  [all |-> F, found |-> file.found \cap F,
   spent |-> [c \in Chan |-> IF c \in F THEN file.spent[c] ELSE None],
   swept |-> file.swept \cap F, next |-> file.next, torn |-> file.torn]

Idle ==
  /\ pc' = "idle" /\ job' = "check" /\ cur' = None /\ same' = FALSE
  /\ h' = 0 /\ target' = 0

Go(j, w, s) ==
  /\ pc' = "start" /\ job' = j /\ cur' = w /\ same' = s
  /\ UNCHANGED <<h, target>>

(* Also with a walk in memory that has no channels (a search of addresses  *)
(* alone): the early return is not taken then, but nothing is walked and   *)
(* nothing saved either, and the verdicts are set to none all the same.    *)
NothingToCheck ==
  /\ pc = "idle" /\ searched /\ Fundings = {}
  /\ shown' = NothingShown
  /\ UNCHANGED <<chain, lnd, file, mem, work, past>>

CarryOn ==
  /\ pc = "idle" /\ searched /\ Fundings # {}
  /\ InMemory(Fundings)
  /\ Go("check", mem, TRUE)
  /\ UNCHANGED <<chain, lnd, file, mem, shown, past>>

CarryOnSaved ==
  /\ pc = "idle" /\ searched /\ Fundings # {}
  /\ ~InMemory(Fundings)
  /\ Fits(Fundings)
  /\ Go("check", LoadWalk(Fundings), FALSE)
  /\ UNCHANGED <<chain, lnd, file, mem, shown, past>>

CheckFromStart ==
  /\ pc = "idle" /\ searched /\ Fundings # {}
  /\ ~InMemory(Fundings)
  /\ ~Fits(Fundings)
  /\ Go("check", NewWalk(Fundings), FALSE)
  /\ UNCHANGED <<chain, lnd, file, mem, shown, past>>

\* findLaterFunds: of the channels in lnd's database, from the start.
Search ==
  /\ pc = "idle" /\ ~searched
  /\ Go("search", NewWalk(listed), FALSE)
  /\ UNCHANGED <<chain, lnd, file, mem, shown, past>>

-----------------------------------------------------------------------------
(* chainWalk.run.                                                          *)

Run ==
  /\ pc = "start"
  /\ pc' = "walk" /\ target' = Tip
  /\ h' = IF cur.next = 0 THEN NextStart(cur, 0, Tip) ELSE cur.next
  /\ UNCHANGED <<chain, lnd, file, mem, job, cur, same, shown, past>>

\* Blocks found while scanning are part of the answer. A search has addresses
\* to watch in every block.
WalkBlock ==
  /\ pc = "walk" /\ h <= target /\ h <= Tip
  /\ job = "search" \/ Watched(cur, h) # {}
  /\ cur' = LookInto(cur, h)
  /\ h' = h + 1
  /\ target' = IF h = target THEN Max({Tip, target}) ELSE target
  /\ UNCHANGED <<chain, lnd, file, mem, pc, job, same, shown, past>>

SkipBlocks ==
  /\ pc = "walk" /\ h <= target /\ job = "check" /\ Watched(cur, h) = {}
  /\ h' = NextStart(cur, h, target)
  /\ UNCHANGED <<chain, lnd, file, mem, pc, job, cur, same, target, shown, past>>

Below(T, n) == {i \in T : i < n}

NeverStarted == job = "check" /\ cur.next = 0 /\ NextStart(cur, 0, target) > target

\* A check that has nothing to look for yet stays without a next block.
WalkEnds ==
  /\ pc = "walk" /\ h > target
  /\ LET next == IF NeverStarted THEN 0 ELSE target + 1
         w == [cur EXCEPT !.next = next, !.torn = Below(@, next)]
     IN  cur' = w /\ mem' = w
  /\ pc' = "save" /\ same' = FALSE /\ h' = 0 /\ target' = 0
  /\ UNCHANGED <<chain, lnd, file, job, shown, past>>

\* An error or Cancel: what c.walk has learnt stays, its next does not move.
WalkFails ==
  /\ pc \in {"start", "walk"}
  /\ mem' = IF same THEN [cur EXCEPT !.torn = Below(@, cur.next)] ELSE mem
  /\ Idle
  /\ UNCHANGED <<chain, lnd, file, shown, past>>

-----------------------------------------------------------------------------
(* chainWalk.save, and the verdicts.                                       *)

\* Mutant: the file stands on the tip that was reached.
SaveAtTip ==
  /\ cur.next > Back + 1 /\ cur.next - 1 <= Tip
  /\ file' = [all |-> cur.all, found |-> cur.found, spent |-> cur.spent, swept |-> cur.swept,
              next |-> cur.next, last |-> block[cur.next - 1],
              torn |-> cur.torn, reached |-> cur.next - 1, lowest |-> Min({cur.next, Tip + 1})]

Save ==
  LET next == cur.next - Back
  IN  /\ cur.next > Back + 1 /\ next - 1 <= Tip
      /\ file' = [all |-> cur.all, found |-> cur.found, spent |-> cur.spent,
                  swept |-> cur.swept, next |-> next, last |-> block[next - 1],
                  torn |-> Below(cur.torn, next),
                  reached |-> cur.next - 1, lowest |-> Min({cur.next, Tip + 1})]

TooShortToSave == cur.next <= Back + 1 /\ UNCHANGED file

Saved ==
  /\ pc = "save"
  /\ (Save \/ TooShortToSave)
  /\ LET since == IF job = "search" THEN cur.all ELSE covered \cup cur.all
     IN  covered' = IF file' = file THEN covered \cap since ELSE since
  /\ shown' = IF job = "search" THEN shown
              ELSE [verdict |-> [c \in Chan |-> Verdict(cur, c)],
                    upTo |-> Max({0, cur.next - 1}), torn |-> cur.torn]
  /\ searched' \in {searched, TRUE}
  /\ Idle
  /\ UNCHANGED <<chain, lnd, mem>>

\* A block that is not there, or a file error; c.walk is set already.
SaveFails ==
  /\ pc = "save"
  /\ Idle
  /\ UNCHANGED <<chain, lnd, file, mem, shown, past>>

\* The program ends, at any step, and is started again.
Restart ==
  /\ mem' = None /\ shown' = NothingShown
  /\ Idle
  /\ UNCHANGED <<chain, lnd, file, past>>

Next ==
  \/ Connect \/ Disconnect
  \/ \E c \in Chan : LndListsOpen(c) \/ LndSeesClose(c)
  \/ NothingToCheck \/ CarryOn \/ CarryOnSaved \/ CheckFromStart \/ Search
  \/ Run \/ WalkBlock \/ SkipBlocks \/ WalkEnds \/ WalkFails
  \/ Saved \/ SaveFails \/ Restart

Spec == Init /\ [][Next]_vars

-----------------------------------------------------------------------------
WalkOK(w) ==
  /\ w.found \subseteq w.all /\ w.swept \subseteq w.all
  /\ \A c \in Chan : w.spent[c] = None \/ (c \in w.all /\ w.spent[c] \in Closes(c))
  /\ \A c \in w.swept : w.spent[c] = PeerClose[c]

TypeOK ==
  /\ block \in Seq(0..MaxDrops) /\ Tip \in 1..MaxTip /\ drops \in 0..MaxDrops
  /\ minedAt \in [Tx -> 0..Tip]
  /\ listed \subseteq Chan /\ gone \subseteq Chan \ listed
  /\ file # None => file \in File /\ WalkOK(file) /\ file.next > 1
  /\ mem # None => mem \in Walk /\ WalkOK(mem)
  /\ cur # None => cur \in Walk /\ WalkOK(cur)
  /\ pc \in {"idle", "start", "walk", "save"} /\ (pc = "idle" <=> cur = None)
  /\ job \in {"check", "search"} /\ same \in BOOLEAN
  /\ h \in Heights /\ target \in 0..MaxTip
  /\ shown \in [verdict: [Chan -> {"unverified", "open", "spent", "collect"}],
                upTo: Heights, torn: SUBSET (Heights \ {0})]
  /\ covered \subseteq Chan /\ searched \in BOOLEAN

\* t is in a block the verdicts are about, one the walk had not passed in
\* memory before it was replaced.
WalkedOver(t) == minedAt[t] \in (1..shown.upTo) \ shown.torn

(***************************************************************************)
(* "Open needs positive proof: the output itself, ... and no spend of it"  *)
(* (chaincheck.go:276-277), over any number of starts: a channel shown as  *)
(* open is closed in no block up to the one the check reached, however     *)
(* deep the chain was reorganised while no program ran (LastHash).         *)
(***************************************************************************)
NoCloseIsMissed ==
  \A c \in Chan : shown.verdict[c] = "open" => \A t \in Closes(c) : ~WalkedOver(t)

(***************************************************************************)
(* What is shown as left to collect is swept in no block the check went    *)
(* over, also when close and sweep were seen in different starts.          *)
(***************************************************************************)
NothingCollectedTwice ==
  \A c \in Chan : shown.verdict[c] = "collect" => ~WalkedOver(Sweep[c])

(***************************************************************************)
(* "Channels an earlier walk covered and lnd no longer lists ...: the walk *)
(* keeps following them" (chaincheck.go:677-680): no file leaves out a     *)
(* channel of an earlier one, but for a search that is done again.         *)
(***************************************************************************)
NoChannelIsForgotten ==
  file # None => covered \subseteq file.all

(***************************************************************************)
(* "An ordinary reorganisation of the tip does not cost a whole walk"      *)
(* (walkstate.go:23-25): with no more than Back blocks below the one       *)
(* reached disconnected since, the file still stands on a block it knows.  *)
(***************************************************************************)
OrdinaryReorgIsCheap ==
  (file # None /\ file.reached - file.lowest < Back)
    => file.next <= Tip + 1 /\ block[file.next - 1] = file.last

(***************************************************************************)
(* Stated by chaincheck.go:698-699, "An earlier walk, of this run or saved *)
(* by an earlier one, covers these channels up to the block it ended at:   *)
(* carry on from there": when a walk is carried on, no channel that it     *)
(* still takes for open is closed in a block it leaves out.                *)
(***************************************************************************)
EarlierWalkCovers ==
  [][pc = "idle" /\ pc' = "start" =>
       \A c \in cur'.all : cur'.spent[c] = None =>
         \A t \in Closes(c) : minedAt[t] \notin Hint[c]..(cur'.next - 1)]_vars
=============================================================================
