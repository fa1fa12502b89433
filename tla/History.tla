------------------------------- MODULE History -------------------------------
(***************************************************************************)
(* The list of money movements and its totals (core/history.go): what      *)
(* History makes of lnd's channels, the wallet's transactions and the      *)
(* payments the phone recorded. The phone's life is the state machine; the *)
(* ledger is a function of its state.                                      *)
(*                                                                         *)
(* An entry has the source it was built from and what it was built of, so  *)
(* that the same money listed twice is two entries; the source of one      *)
(* transaction listed on its own is its kind. Left out: amounts            *)
(* below a sat and below the dust limit, HTLCs and time locks, wording,    *)
(* and the calls to lnd that fail, after which the list is not complete    *)
(* and says so.                                                            *)
(***************************************************************************)
EXTENDS Integers, Sequences, FiniteSets, FiniteSetsExt, SequencesExt

CONSTANTS
  Chan,     \* channels that may close
  Bal,      \* what a close of one sets aside
  Swap,     \* deposits to a swap address
  SwapAmt,  \* what is sent to one
  SwapFee,  \* what the swap service keeps
  Fee,      \* fee of a sweep or another transaction, and of a payment
  Early,    \* two hours: how many events before an output its record may be
  Late,     \* fourteen days: how many events after it
  MaxTxs    \* bound: the wallet's transactions

ASSUME AmountsAssumption ==
  /\ IsFiniteSet(Chan) /\ IsFiniteSet(Swap)
  /\ Bal \in Nat /\ SwapAmt \in Nat /\ SwapFee \in Nat /\ Fee \in Nat /\ MaxTxs \in Nat
  /\ Bal > Fee /\ SwapAmt > SwapFee + Fee
  /\ Early \in Nat /\ Late \in Nat

VARIABLES
  coop,   \* the channels that close cooperatively
  lnd,    \* lnd has c as "open", "waiting", "force" or "closed", or no more ("pruned")
  app,    \* the app's record of c's close: "no", "pending" or "closed"
  txs,    \* the wallet's transactions
  log,    \* deposits funded and deposits recorded by the app, in order
  pay     \* who lists the payment sent: "no" one, "lnd" or "both"

historyVars == <<coop, lnd, app, txs, log, pay>>

\* Transactions. A deposit is funded from outside or from the wallet ("own"),
\* claimed by the swap service, refunded to the outside or moved back.
Tx(what, of) == [what |-> what, of |-> of]
Coop(c) == Tx("coop", {c})
SweepTx(B) == Tx("sweep", B)

\* Transaction.Amount: what the wallet's balance changed by. The wallet owns
\* the swap address as well.
Amount(t) ==
  CASE t.what = "coop"  -> Bal
    [] t.what = "sweep" -> Bal * Cardinality(t.of) - Fee
    [] t.what = "in"    -> SwapAmt
    [] t.what = "out"   -> -(SwapFee + Fee)
    [] t.what \in {"self", "own", "back"}     -> -Fee
    [] t.what = "fund"                        -> SwapAmt
    [] t.what \in {"claim", "refund"}         -> -SwapAmt

\* A payment a part of which failed: what went out (settledMsat), without the
\* fee. The app lists what was asked for, which is more.
Sent == SwapFee

Start == Sent + Fee  \* in the channel that stays open

HistoryInit ==
  /\ coop \in SUBSET Chan
  /\ lnd = [c \in Chan |-> "open"] /\ app = [c \in Chan |-> "no"]
  /\ txs = {} /\ log = <<>> /\ pay = "no"

-----------------------------------------------------------------------------
(* External: the phone, lnd and the chain.                                 *)

\* The backup is older than the chain: what lnd has of c may stay behind.
Closing(c) ==
  /\ lnd[c] = "open" /\ lnd' = [lnd EXCEPT ![c] = "waiting"]
  /\ \E r \in {"no", "pending"} : app' = [app EXCEPT ![c] = r]
  /\ UNCHANGED <<coop, txs, log, pay>>

ForceMined(c) ==
  /\ c \notin coop /\ lnd[c] \in {"open", "waiting"} /\ lnd' = [lnd EXCEPT ![c] = "force"]
  /\ UNCHANGED <<coop, app, txs, log, pay>>

LndCloses(c) ==
  /\ lnd[c] \in (IF c \in coop THEN {"open", "waiting"} ELSE {"force"})
  /\ lnd' = [lnd EXCEPT ![c] = "closed"]
  /\ UNCHANGED <<coop, app, txs, log, pay>>

AppRecordsClose(c) ==
  /\ lnd[c] = "closed" /\ app' = [app EXCEPT ![c] = "closed"]
  /\ UNCHANGED <<coop, lnd, txs, log, pay>>

\* The phone prunes lnd's database.
Prune(c) ==
  /\ lnd[c] = "closed" /\ app[c] = "closed" /\ lnd' = [lnd EXCEPT ![c] = "pruned"]
  /\ UNCHANGED <<coop, app, txs, log, pay>>

SumOf(T) == MapThenSumSet(Amount, T)

Onchain == SumOf(txs)

\* The wallet has the output of d, from outside or from itself.
HasOutput(T, d) == {Tx("fund", {d}), Tx("own", {d})} \cap T # {}
Output(d) == HasOutput(txs, d)
Spent(d) == \E t \in txs : t.what \in {"claim", "refund", "back"} /\ t.of = {d}

\* The wallet cannot spend what lies on a deposit address.
Spendable == Onchain - SwapAmt * Cardinality({d \in Swap : Output(d) /\ ~Spent(d)})

\* The wallet has one more transaction, each once.
WalletTx(t, enough) ==
  /\ t \notin txs /\ Spendable >= enough /\ Cardinality(txs) < MaxTxs
  /\ txs' = txs \cup {t}
  /\ UNCHANGED <<coop, lnd, app, pay>>

Arrived == UNION {t.of : t \in {u \in txs : u.what \in {"coop", "sweep"}}}

\* The close, or the sweep, of channels reaches the wallet late or never.
CloseSeen(c) == c \in coop /\ WalletTx(Coop(c), 0) /\ UNCHANGED log

SweepSeen(B) ==
  /\ B # {} /\ B \cap (coop \cup Arrived) = {}
  /\ WalletTx(SweepTx(B), 0) /\ UNCHANGED log

Plain ==
  \/ WalletTx(Tx("in", {}), 0) /\ UNCHANGED log
  \/ WalletTx(Tx("out", {}), SwapFee + Fee) /\ UNCHANGED log
  \/ WalletTx(Tx("self", {}), Fee) /\ UNCHANGED log

Funded(d) == <<"fund", d>> \in ToSet(log)

\* The wallet of a restored backup need not know every deposit address.
Fund(d) ==
  /\ ~Funded(d) /\ log' = Append(log, <<"fund", d>>)
  /\ \/ WalletTx(Tx("fund", {d}), 0)
     \/ WalletTx(Tx("own", {d}), SwapAmt + Fee)
     \/ UNCHANGED <<coop, lnd, app, txs, pay>>

\* The swap service pays the invoice, then claims.
Record(d) ==
  /\ Funded(d) /\ ~Spent(d) /\ <<"record", d>> \notin ToSet(log)
  /\ log' = Append(log, <<"record", d>>) /\ UNCHANGED <<coop, lnd, app, txs, pay>>

RecordedIn(l) == {d \in Swap : <<"record", d>> \in ToSet(l)}
Recorded == RecordedIn(log)

Spend(d) ==
  /\ Output(d) /\ ~Spent(d) /\ UNCHANGED log
  /\ IF d \in Recorded THEN WalletTx(Tx("claim", {d}), 0)
     ELSE WalletTx(Tx("refund", {d}), 0) \/ WalletTx(Tx("back", {d}), 0)

Pay ==
  /\ pay = "no" /\ pay' \in {"lnd", "both"}
  /\ UNCHANGED <<coop, lnd, app, txs, log>>

HistoryNext ==
  \/ \E c \in Chan : Closing(c) \/ ForceMined(c) \/ LndCloses(c) \/ AppRecordsClose(c)
                     \/ Prune(c) \/ CloseSeen(c)
  \/ \E B \in SUBSET Chan : SweepSeen(B)
  \/ Plain \/ Pay
  \/ \E d \in Swap : Fund(d) \/ Record(d) \/ Spend(d)

HistorySpec == HistoryInit /\ [][HistoryNext]_historyVars

-----------------------------------------------------------------------------
(* The ledger.                                                             *)

Entry(by, of, delta, fee, noted) ==
  [by |-> by, of |-> of, delta |-> delta, fee |-> fee, noted |-> noted]

\* Mutant: the app's records are not looked at.
ClosedOfLnd == {c \in Chan : lnd[c] = "closed"}

\* addClosedChannels: lnd's list, and the app's records of the others.
Closed == {c \in Chan : lnd[c] = "closed" \/ app[c] # "no"}

\* collectors: the close itself when it paid the wallet, else its sweeps.
Direct(c) == Coop(c) \in txs
SweepsOf(c) == {t \in txs : ~Direct(c) /\ t.what = "sweep" /\ c \in t.of}

Collected == UNION {SweepsOf(c) : c \in Closed}

Uncollected == Bal * Cardinality({c \in Closed : ~Direct(c) /\ SweepsOf(c) = {}})

\* Mutant: whatever else the sweep spends.
CollectedFeeOfAny(t) == Bal * Cardinality(t.of \cap Closed) - Amount(t)

\* A sweep that spends only closes that are listed costs what is missing.
CollectedFee(t) == IF t.of \subseteq Closed THEN Bal * Cardinality(t.of) - Amount(t) ELSE 0

CloseEntries ==
  {Entry("close", {c}, 0, 0, FALSE) : c \in Closed}
  \cup {Entry("collected", t.of, 0, CollectedFee(t), FALSE) : t \in Collected}

\* addPendingChannels.
Pending == {c \in Chan : lnd[c] \in {"waiting", "force"}}

PendingEntries == {Entry("pending", {c}, 0, 0, FALSE) : c \in Pending}

\* Mutant: a sweep is listed as collected, and is not explained by it.
OfClosesNotSwept ==
  {t \in txs : t.what = "coop" /\ t.of \subseteq Closed}
  \cup {t \in txs : t.what = "sweep" /\ \E c \in t.of : lnd[c] = "force"}

\* The transactions the closes explain.
OfCloses ==
  {t \in txs : t.what = "coop" /\ t.of \subseteq Closed} \cup Collected
  \cup {t \in txs : t.what = "sweep" /\ \E c \in t.of : lnd[c] = "force"}

\* addPayments: the n-th event's time is n, and every amount is exact.
TimeOf(l, e) == CHOOSE n \in DOMAIN l : l[n] = e

\* How long after e the deposit r is recorded.
After(l, e, r) == TimeOf(l, <<"record", r>>) - TimeOf(l, e)

\* How far from e that is; of two equally near, the earlier is the nearer.
Away(l, e, r) == IF After(l, e, r) < 0 THEN -2 * After(l, e, r) - 1 ELSE 2 * After(l, e, r)

Nearest(l, e, D) == CHOOSE r \in D : \A s \in D : Away(l, e, r) <= Away(l, e, s)

\* The records in e's window that m pairs with no output. Those of earlier
\* deposits are among them.
Free(l, e, m) ==
  {r \in RecordedIn(l) : After(l, e, r) \in (-Early)..Late} \ {m[x] : x \in DOMAIN m}

\* The record each output among T is paired with, the oldest output first.
Pairing(T, l) ==
  LET Pair(m, e) ==
        IF e[1] = "fund" /\ HasOutput(T, e[2]) /\ Free(l, e, m) # {}
        THEN [x \in DOMAIN m \cup {e[2]} |-> IF x = e[2] THEN Nearest(l, e, Free(l, e, m)) ELSE m[x]]
        ELSE m
  IN FoldLeft(Pair, [x \in {} |-> 0], l)

Paired == Pairing(txs, log)

Own(d) == Tx("own", {d}) \in txs
Into == SwapAmt - SwapFee

\* A deposit's output with its record, or without one: sitting there, moved
\* back (that transaction is listed on its own) or refunded.
OutputEntries(d) ==
  IF d \in DOMAIN Paired
  THEN {IF Own(d) THEN Entry("deposit", {d}, 0, SwapAmt - Into + Fee, FALSE)
                  ELSE Entry("deposit", {d}, Into, SwapFee, TRUE)}
  ELSE {IF Own(d) THEN Entry("output", {d}, 0, Fee, FALSE)
                  ELSE Entry("output", {d}, SwapAmt, 0, FALSE)}
       \cup {Entry("refund", {d}, -SwapAmt, Fee, FALSE) :
               t \in {u \in txs : u.what \in {"refund", "claim"} /\ u.of = {d}}}

\* Records no output was found for.
Unpaired == Recorded \ {Paired[d] : d \in DOMAIN Paired}

OfDeposits ==
  {t \in txs : t.what \in {"fund", "own", "claim", "refund"}}
  \cup {t \in txs : t.what = "back" /\ t.of \subseteq DOMAIN Paired}

DepositEntries ==
  (UNION {OutputEntries(d) : d \in {x \in Swap : Output(x)}})
  \cup {Entry("record", {d}, Into, SwapFee, TRUE) : d \in Unpaired}

\* addPayments and lndOnlyPayments: what was received, and the payment, with
\* lnd's amount whoever lists it.
PaymentEntries ==
  {Entry("start", {}, Start + Bal * Cardinality(Chan), 0, FALSE)}
  \cup {Entry("payment", {}, -(Sent + Fee), Fee, FALSE) : x \in {pay} \ {"no"}}

\* addOnchain: a transaction listed on its own.
OnchainEntry(t) ==
  CASE Amount(t) < 0 /\ t.what = "out" -> Entry(t.what, t.of, Amount(t), Fee, FALSE)
    [] t.what \in {"self", "back"}     -> Entry(t.what, t.of, 0, Fee, FALSE)
    [] OTHER                           -> Entry(t.what, t.of, Amount(t), 0, FALSE)

OnchainEntries == {OnchainEntry(t) : t \in txs \ (OfCloses \cup OfDeposits)}

Entries == CloseEntries \cup PendingEntries \cup PaymentEntries \cup DepositEntries \cup OnchainEntries

\* History: the totals. Expected is In - Out - Fees.
Counts(e) == IF e.delta < 0 \/ e.noted THEN e.delta ELSE e.delta - e.fee

Expected == MapThenSumSet(Counts, Entries)

\* What status makes of it: the wallet, the channel that stays open and what
\* is still in the others, lnd having them as open or as closing.
MoneyHeld ==
  Onchain
  + Start + Into * Cardinality(Recorded) - (IF pay = "no" THEN 0 ELSE Sent + Fee)
  + Bal * Cardinality({c \in Chan \ Arrived : lnd[c] \in {"open", "waiting", "force"}})

Unexplained == MoneyHeld + Uncollected - Expected

-----------------------------------------------------------------------------
HistoryTypeOK ==
  /\ coop \subseteq Chan
  /\ lnd \in [Chan -> {"open", "waiting", "force", "closed", "pruned"}]
  /\ app \in [Chan -> {"no", "pending", "closed"}]
  /\ IsFiniteSet(txs) /\ \A t \in txs : Amount(t) \in Int
  /\ log \in Seq({"fund", "record"} \X Swap) /\ pay \in {"no", "lnd", "both"}
  /\ Onchain \in Nat /\ Uncollected \in Nat
  /\ \A e \in Entries : e.delta \in Int /\ e.fee \in Nat

\* Nothing is between two books: lnd knows of every close whose money came,
\* no close lnd still has as pending is in the app's list too, the swap
\* service has taken what it paid for, and no deposit that was never swapped
\* in is paired with the record of another of the same amount.
Settled ==
  /\ \A c \in Arrived : lnd[c] \in {"closed", "pruned"}
  /\ \A c \in Pending : app[c] = "no"
  /\ \A d \in Recorded : Output(d) => Spent(d)
  /\ DOMAIN Paired \subseteq Recorded

(***************************************************************************)
(* The list explains the money: once nothing is between two books, what    *)
(* came in less what went out and the fees is what is held and what is     *)
(* not collected, to the sat. Money listed twice, left out or folded into  *)
(* the wrong entry would show as unexplained.                              *)
(***************************************************************************)
AddsUp == Settled => Unexplained = 0

(***************************************************************************)
(* addClosedChannels: the app's own records stand in for what lnd's        *)
(* database lost, so a list made after it was pruned says the same.        *)
(***************************************************************************)
PruningChangesNothing ==
  [][\A c \in Chan : Prune(c) => Entries' = Entries /\ Uncollected' = Uncollected]_historyVars

(***************************************************************************)
(* Stated by history.go:298-300: "On-chain transactions that belong to a   *)
(* channel close [...] are folded into that entry, so the same money is    *)
(* never listed twice."                                                    *)
(***************************************************************************)
ClosesAreFolded ==
  \A e \in PendingEntries, f \in OnchainEntries : e.of \cap f.of = {}
=============================================================================
