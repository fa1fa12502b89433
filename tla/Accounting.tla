----------------------------- MODULE Accounting -----------------------------
(***************************************************************************)
(* The money on screen: status (core/node.go), what it takes from the last *)
(* channel check, and how the app and the command line decide that nothing *)
(* is on its way any more.                                                 *)
(*                                                                         *)
(* status asks lnd five times, one action each: the chain, lnd and the     *)
(* wallet go on between the answers. What the check finds on chain is      *)
(* ChainWalk and WalkState; here it is the truth of the moment it ran.     *)
(* What is done with the money once it has arrived is Sweep.               *)
(*                                                                         *)
(* Left out: channels below the dust limit, which have no money to show,   *)
(* those of another node, and closes with HTLCs or a time lock left, which *)
(* are lnd's alone. lnd no longer lists PendingClosingChannels.            *)
(***************************************************************************)
EXTENDS Integers, Sequences, FiniteSets, FiniteSetsExt, SequencesExt

CONSTANTS
  Chan,     \* channels lnd lists as open in the backup, with money in them
  Owed,     \* what the close of one pays (LimboBalance, toUsValue)
  Bumps,    \* bound: sweeps lnd publishes
  None

ASSUME AmountsAssumption ==
  /\ IsFiniteSet(Chan)
  /\ Owed \in Nat /\ Bumps \in Nat /\ Owed > 2 * Bumps /\ Owed > 2

\* A wallet transaction: a close that pays the wallet, a sweep of closes'
\* outputs by the phone or by lnd (the n-th), the phone's spend of an anchor.
Tx == [what: {"close", "phone", "lnd", "anchor"}, of: SUBSET Chan, n: 0..Bumps]

CloseTx(c) == [what |-> "close", of |-> {c}, n |-> 0]
PhoneTx(c) == [what |-> "phone", of |-> {c}, n |-> 0]
AnchorTx(c) == [what |-> "anchor", of |-> {c}, n |-> 0]
LndTx(B, n) == [what |-> "lnd", of |-> B, n |-> n]

\* PreviousOutpoints. "pay" is the output of c's close that is this app's.
Inputs(t) ==
  CASE t.what = "close"  -> {<<"fund", c>> : c \in t.of}
    [] t.what = "anchor" -> {<<"anchor", c>> : c \in t.of}
    [] OTHER             -> {<<"pay", c>> : c \in t.of}

\* Each fee bump of lnd's brings in less, but never less than half.
Amount(t) ==
  CASE t.what = "anchor" -> 1
    [] t.what = "lnd"    -> (Owed - t.n) * Cardinality(t.of)
    [] OTHER             -> Owed

SumOf(T) == MapThenSumSet(Amount, T)

Spent(T) == UNION {Inputs(t) : t \in T}

VARIABLES
  kind,     \* how c closes: "peer" and "own" commitment, or "coop"
  close,    \* the chain: c's close is "no", "sent" or "mined"
  lnd,      \* lnd has c as "open", "waiting", "force" or "closed"
  mined,    \* the wallet's confirmed transactions
  sent,     \* its unconfirmed ones that bring in money, oldest first
  walked,   \* the channels of the walk (in chain-walk.json as well)
  checks,   \* c.checks
  pc,       \* "idle", or the answer status waits for
  rd,       \* the answers so far
  st,       \* the Status just returned, until the next step
  moved     \* history: the world moved since status began

world  == <<kind, close, lnd, mined, sent>>
status == <<pc, rd>>
vars   == <<world, walked, checks, status, st, moved>>

NotChecked == [done |-> FALSE, verdict |-> [c \in Chan |-> "none"], collect |-> {}]

NothingRead == [unconf |-> 0, open |-> {}, waiting |-> {}, force |-> {},
                paid |-> {}, warnings |-> {}]

Init ==
  /\ kind \in [Chan -> {"peer", "own", "coop"}]
  /\ close = [c \in Chan |-> "no"] /\ lnd = [c \in Chan |-> "open"]
  /\ mined = {} /\ sent = <<>>
  /\ walked = {} /\ checks = NotChecked
  /\ pc = "idle" /\ rd = NothingRead /\ st = None
  /\ moved = FALSE

-----------------------------------------------------------------------------
(* External: the chain, the phone, lnd and its wallet.                     *)

Moves == moved' = (pc # "idle") /\ st' = None /\ UNCHANGED <<kind, walked, checks, status>>

\* A close lnd knows of before it confirms. A cooperative one pays the wallet.
CloseSent(c) ==
  /\ close[c] = "no" /\ lnd[c] = "open"
  /\ close' = [close EXCEPT ![c] = "sent"] /\ lnd' = [lnd EXCEPT ![c] = "waiting"]
  /\ sent' = IF kind[c] = "coop" THEN Append(sent, CloseTx(c)) ELSE sent
  /\ Moves /\ UNCHANGED mined

CloseMined(c) ==
  /\ close[c] # "mined" /\ (close[c] = "no" => lnd[c] = "open")
  /\ close' = [close EXCEPT ![c] = "mined"]
  /\ IF kind[c] = "coop"
     THEN mined' = mined \cup {CloseTx(c)} /\ sent' = RemoveFirst(sent, CloseTx(c))
     ELSE UNCHANGED <<mined, sent>>
  /\ Moves /\ UNCHANGED lnd

LndNoticesClose(c) ==
  /\ close[c] = "mined" /\ lnd[c] \in {"open", "waiting"}
  /\ lnd' = [lnd EXCEPT ![c] = IF kind[c] = "coop" THEN "closed" ELSE "force"]
  /\ Moves /\ UNCHANGED <<close, mined, sent>>

\* Another device with this wallet takes the payout, or an anchor alone.
PhoneSpends(c) ==
  /\ kind[c] # "coop" /\ close[c] = "mined" /\ {<<"pay", c>>, <<"anchor", c>>} \cap Spent(mined) = {}
  /\ mined' \in {mined \cup {PhoneTx(c)}, mined \cup {AnchorTx(c)}}
  /\ Moves /\ UNCHANGED <<close, lnd, sent>>

\* lnd's next sweep, of one close or of several together.
NextSweep == Max({0} \cup {t.n : t \in ToSet(sent) \cup mined}) + 1

LndSweeps(B) ==
  /\ B # {} /\ \A c \in B : lnd[c] = "force"
  /\ NextSweep <= Bumps /\ sent' = Append(sent, LndTx(B, NextSweep))
  /\ Moves /\ UNCHANGED <<close, lnd, mined>>

SweepMined(t) ==
  /\ t.what = "lnd" /\ Inputs(t) \cap Spent(mined) = {}
  /\ mined' = mined \cup {t} /\ sent' = RemoveFirst(sent, t)
  /\ Moves /\ UNCHANGED <<close, lnd>>

LndResolves(c) ==
  /\ lnd[c] = "force" /\ <<"pay", c>> \in Spent(mined)
  /\ lnd' = [lnd EXCEPT ![c] = "closed"]
  /\ Moves /\ UNCHANGED <<close, mined, sent>>

-----------------------------------------------------------------------------
(* The app: one operation at a time; the world does not wait.              *)

\* The outpoints of what the last check found unspent (sc.ToUs).
Counted == {<<"pay", c>> : c \in checks.collect}

PayoutKnown(c) == checks.verdict[c] = "spent" /\ kind[c] = "peer"

\* The verdicts of a check that follows the channels W.
OnChain(W) ==
  LET gone == {c \in W : close[c] = "mined"} IN
  [done |-> TRUE,
   verdict |-> [c \in Chan |-> CASE c \in gone -> "spent" [] c \in W \ gone -> "open" [] OTHER -> "none"],
   collect |-> {c \in gone : kind[c] = "peer" /\ <<"pay", c>> \notin Spent(mined)}]

\* CheckChannelsOnChain, when it succeeds: every channel lnd lists as open and
\* those of earlier walks.
Check ==
  /\ pc = "idle"
  /\ walked' = walked \cup {c \in Chan : lnd[c] = "open"}
  /\ checks' = OnChain(walked')
  /\ st' = None /\ UNCHANGED <<world, status, moved>>

\* Mutant: the transactions left in do not take their inputs from one another.
KeptWithEachOther(spent) == {t \in ToSet(sent) : Inputs(t) \cap spent = {}}

\* notOnItsWay, the transactions it leaves in: from the newest back, those
\* with no input that is spent, counted or taken by one left in already.
Kept(spent) ==
  LET Take(t, kept) == IF Inputs(t) \cap (spent \cup Spent(kept)) = {} THEN kept \cup {t} ELSE kept
  IN FoldRight(Take, sent, {})

NotOnItsWay == SumOf(ToSet(sent) \ Kept(Spent(mined) \cup Counted))

\* sweptBy, over the force closes the last answer lists: what the confirmed
\* transactions spending outputs of the close bring in. None spends both.
Brought(o) == IF o \in Spent(mined) THEN Amount(CHOOSE t \in mined : o \in Inputs(t)) ELSE 0

BroughtIn(c) == Brought(<<"pay", c>>) + Brought(<<"anchor", c>>)

\* Mutant: any spend of the close, the anchor's too, counts as its sweep.
SweptByAnySpend(force) == {c \in force : BroughtIn(c) > 0}

SweptBy(force) == {c \in force : BroughtIn(c) > 0 /\ BroughtIn(c) * 2 >= Owed}

Answer(here, next) == pc = here /\ pc' = next /\ UNCHANGED <<world, walked, checks>>

\* status starts when the channels have been checked, as the app shows it.
ReadBalance ==
  /\ Answer("idle", "txs") /\ checks.done
  /\ rd' = [NothingRead EXCEPT !.unconf = SumOf(ToSet(sent))]
  /\ moved' = FALSE /\ st' = None

ReadTxs ==
  /\ Answer("txs", "open")
  /\ \/ LET new == rd.unconf - NotOnItsWay IN
        rd' = [rd EXCEPT !.unconf = IF new < 0 THEN 0 ELSE new,
                         !.paid = {c \in Chan : CloseTx(c) \in mined}]
     \/ rd' = [rd EXCEPT !.warnings = @ \cup {"txs"}]
  /\ UNCHANGED <<st, moved>>

ReadOpen ==
  /\ Answer("open", "pending")
  /\ rd' = [rd EXCEPT !.open = {c \in Chan : lnd[c] = "open"}]
  /\ UNCHANGED <<st, moved>>

ReadPending ==
  /\ Answer("pending", "swept")
  /\ \/ rd' = [rd EXCEPT !.waiting = {c \in Chan : lnd[c] = "waiting"},
                         !.force = {c \in Chan : lnd[c] = "force"}]
     \/ rd' = [rd EXCEPT !.warnings = @ \cup {"pending"}]
  /\ UNCHANGED <<st, moved>>

\* The Status, once it is known which of the closes are swept.
Assemble(swept, warnings) ==
  LET listed == rd.waiting \cup rd.force
      byWalk == {c \in Chan : PayoutKnown(c)}
  IN [unconf |-> rd.unconf,
      warnings |-> warnings,
      channels |-> {c \in rd.open : checks.verdict[c] = "open"},
      collect |-> checks.collect,
      pending |-> ((rd.waiting \ rd.paid) \cup (rd.force \ swept)) \ byWalk,
      unresolved |-> {c \in rd.open : checks.verdict[c] = "spent"} \ (byWalk \cup listed)]

ReadSwept ==
  /\ Answer("swept", "idle")
  /\ \/ st' = Assemble(SweptBy(rd.force), rd.warnings)
     \/ rd.force # {} /\ st' = Assemble({}, rd.warnings \cup {"swept"})
  /\ rd' = NothingRead /\ UNCHANGED moved

\* walletBalance or openChannels fails: no status.
StatusFails ==
  /\ Answer("open", "idle")
  /\ rd' = NothingRead /\ moved' = FALSE /\ UNCHANGED st

\* collecting (main.go): is there anything the user has to wait for?
Collecting(s) ==
  \/ s.unconf > 0
  \/ s.collect # {} \/ s.pending # {} \/ s.unresolved # {}

\* The app is started again: the walk is read back from chain-walk.json.
Restart ==
  /\ checks' = NotChecked /\ st' = None
  /\ pc' = "idle" /\ rd' = NothingRead /\ moved' = FALSE
  /\ UNCHANGED <<world, walked>>

World ==
  \/ \E c \in Chan : CloseSent(c) \/ CloseMined(c) \/ LndNoticesClose(c) \/ PhoneSpends(c)
                     \/ LndResolves(c)
  \/ \E B \in SUBSET Chan : LndSweeps(B)
  \/ \E t \in ToSet(sent) : SweepMined(t)

App ==
  \/ Check \/ ReadBalance \/ ReadTxs \/ ReadOpen \/ ReadPending \/ ReadSwept
  \/ StatusFails \/ Restart

Next == World \/ App

Spec == Init /\ [][Next]_vars

-----------------------------------------------------------------------------
Status == [unconf: Nat, warnings: SUBSET {"txs", "pending", "swept"}, channels: SUBSET Chan,
           collect: SUBSET Chan, pending: SUBSET Chan, unresolved: SUBSET Chan]

TypeOK ==
  /\ kind \in [Chan -> {"peer", "own", "coop"}]
  /\ close \in [Chan -> {"no", "sent", "mined"}]
  /\ lnd \in [Chan -> {"open", "waiting", "force", "closed"}]
  /\ mined \subseteq Tx /\ sent \in Seq(Tx)
  /\ walked \subseteq Chan
  /\ checks.done \in BOOLEAN /\ checks.verdict \in [Chan -> {"none", "open", "spent"}]
  /\ checks.collect \subseteq Chan
  /\ pc \in {"idle", "txs", "open", "pending", "swept"}
  /\ \A f \in {"open", "waiting", "force", "paid"} : rd[f] \subseteq Chan
  /\ rd.unconf \in Nat /\ rd.warnings \subseteq {"txs", "pending"}
  /\ st \in Status \cup {None} /\ moved \in BOOLEAN

\* The money of c is in the wallet, confirmed.
Home(c) == IF kind[c] = "coop" THEN CloseTx(c) \in mined ELSE <<"pay", c>> \in Spent(mined)

(***************************************************************************)
(* Whatever moves while status collects its answers, a channel whose money *)
(* has not arrived is in the Status: as open, as money to collect, as a    *)
(* pending close or as unresolved. The only one that may be missing is one *)
(* lnd alone can tell of, when lnd could not list its pending closes.      *)
(***************************************************************************)
NothingIsLeftOut ==
  st # None => \A c \in Chan :
    \/ Home(c)
    \/ c \in st.channels \cup st.collect \cup st.pending \cup st.unresolved
    \/ "pending" \in st.warnings /\ ~PayoutKnown(c)

\* Closes lnd alone tells of, paid out or being paid out: its figure stands
\* until the sweep, or the cooperative close, has confirmed and lnd noticed.
StillListed ==
  {c \in st.pending : Home(c) \/ \E t \in ToSet(sent) : {<<"pay", c>>, <<"fund", c>>} \cap Inputs(t) # {}}

(***************************************************************************)
(* The figures add up to the money there is: never less, and more by no    *)
(* more than the closes in StillListed. Nothing of a transaction that      *)
(* cannot confirm, of bumped sweeps one, and nothing else twice. Of a      *)
(* Status all of whose answers came, from one moment, with a check the     *)
(* chain has not overtaken.                                                *)
(***************************************************************************)
TotalIsRight ==
  (/\ st # None /\ ~moved /\ st.warnings = {} /\ checks = OnChain(walked) /\ st.unresolved = {})
  => LET there == Owed * Cardinality({c \in Chan : ~Home(c)})
         shown == st.unconf
                  + Owed * (Cardinality(st.channels) + Cardinality(st.collect) + Cardinality(st.pending))
     IN shown \in there..(there + Owed * Cardinality(StillListed))

(***************************************************************************)
(* Stated by core/chaincheck.go:37-39: Collect is what a close paid to     *)
(* this app's key "and nobody has spent yet".                              *)
(***************************************************************************)
CollectIsStillThere ==
  st # None /\ ~moved => \A c \in st.collect : <<"pay", c>> \notin Spent(mined)

=============================================================================
