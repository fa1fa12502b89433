-------------------------------- MODULE Sweep --------------------------------
(***************************************************************************)
(* Sending the on-chain balance: the page (ui/frontend/dist/app.js), the   *)
(* operation lock (ui/app.go) and PrepareSweep and BroadcastSweep          *)
(* (core/core.go).                                                         *)
(*                                                                         *)
(* The page calls the app and goes on; the answer comes later, and nothing *)
(* on the page is disabled meanwhile (setBusy sets a flag). A call made    *)
(* while another runs ends with errBusy, which changes nothing, and is     *)
(* left out. So are Kept, the reserve for anchor channels, and the fees.   *)
(***************************************************************************)
EXTENDS Integers, Sequences, FiniteSets, SequencesExt

CONSTANTS
  Addr,        \* addresses the user may type; all of them valid
  Coin,        \* coins of the wallet
  Targets,     \* sweepTargets, in blocks
  Normal,      \* the target chosen at first
  MaxAnswers,  \* bound: answers on their way to the page
  Nil

ASSUME SweepAssumption ==
  /\ Targets \subseteq Nat /\ Normal \in Targets /\ MaxAnswers \in Nat
  /\ Nil \notin Addr

VARIABLES
  coins,   \* the confirmed, unspent coins
  sent,    \* what was published: where to, what it spends, what the page showed
  sweep,   \* c.sweep: Nil or a plan
  op,      \* the operation that holds the lock
  answers, \* answers the page has not got yet: a plan, or Nil for a txid
  page,    \* "wallet", "sweep" or "done"
  field,   \* the address field, Nil when empty
  shown,   \* ui.sweepPlan; the field is disabled and Send is there with it
  target,  \* ui.sweepTarget
  edited   \* history: the field changed after the address was read from it

behind == <<coins, sent, sweep, op, answers>>
form == <<page, field, shown, target, edited>>
sweepVars == <<behind, form>>

\* A sweepPlan. txs has what the transaction prepared for a target spends.
Plan(addr, amount, txs) == [addr |-> addr, amount |-> amount, txs |-> txs]

Idle == [what |-> "none"]

SweepInit ==
  /\ coins \in SUBSET Coin /\ sent = {} /\ sweep = Nil /\ op = Idle /\ answers = <<>>
  /\ page = "wallet" /\ field = Nil /\ shown = Nil /\ target = Normal /\ edited = FALSE

-----------------------------------------------------------------------------
(* The page.                                                               *)

GoSweep ==
  /\ page = "wallet" /\ page' = "sweep" /\ shown' = Nil
  /\ UNCHANGED <<behind, field, target, edited>>

Back ==
  /\ page \in {"sweep", "done"} /\ page' = "wallet"
  /\ UNCHANGED <<behind, field, shown, target, edited>>

Preparing == op.what = "prepare" \/ answers # <<>>

\* Mutant: the field is not disabled when a plan is shown.
EditAnyTime(a) ==
  /\ page = "sweep" /\ field' = a
  /\ edited' = (Preparing \/ edited)
  /\ UNCHANGED <<behind, page, shown, target>>

Edit(a) ==
  /\ page = "sweep" /\ shown = Nil /\ field' = a
  /\ edited' = (Preparing \/ edited)
  /\ UNCHANGED <<behind, page, shown, target>>

PrepareOp == [what |-> "prepare", addr |-> field, amount |-> {}, left |-> Targets,
              txs |-> [t \in {} |-> {}], step |-> "balance"]

\* Continue, or Enter in the field. The address is read here.
PrepareClicked ==
  /\ page = "sweep" /\ shown = Nil /\ field # Nil
  /\ op = Idle /\ Len(answers) < MaxAnswers
  /\ op' = PrepareOp /\ edited' = (answers # <<>> /\ edited)
  /\ UNCHANGED <<coins, sent, sweep, answers, page, field, shown, target>>

Fastest(T) == CHOOSE t \in T : \A u \in T : t <= u

\* The target chosen at first.
First(plan) == IF Normal \in DOMAIN plan.txs THEN Normal ELSE Fastest(DOMAIN plan.txs)

PlanArrives ==
  /\ answers # <<>> /\ Head(answers) # Nil /\ answers' = Tail(answers)
  /\ shown' = Head(answers) /\ target' = First(Head(answers))
  /\ UNCHANGED <<coins, sent, sweep, op, page, field, edited>>

Choose(t) ==
  /\ page = "sweep" /\ shown # Nil /\ t \in DOMAIN shown.txs /\ target' = t
  /\ UNCHANGED <<behind, page, field, shown, edited>>

SendClicked ==
  /\ page = "sweep" /\ shown # Nil /\ op = Idle /\ Len(answers) < MaxAnswers
  /\ op' = [what |-> "send", target |-> target, field |-> field, edited |-> edited]
  /\ UNCHANGED <<coins, sent, sweep, answers, form>>

SentArrives ==
  /\ answers # <<>> /\ Head(answers) = Nil /\ answers' = Tail(answers)
  /\ shown' = Nil /\ field' = Nil /\ page' = "done" /\ edited' = TRUE
  /\ UNCHANGED <<coins, sent, sweep, op, target>>

-----------------------------------------------------------------------------
(* PrepareSweep.                                                           *)

\* The operation fails, or is cancelled: c.sweep stays what it was.
Fails ==
  /\ op # Idle /\ op' = Idle
  /\ UNCHANGED <<coins, sent, sweep, answers, form>>

ReadBalance ==
  /\ op.what = "prepare" /\ op.step = "balance" /\ coins # {}
  /\ op' = [op EXCEPT !.amount = coins, !.step = "fee"]
  /\ UNCHANGED <<coins, sent, sweep, answers, form>>

FeeSourceAnswers ==
  /\ op.what = "prepare" /\ op.step = "fee"
  /\ op' = [op EXCEPT !.step = "dry"]
  /\ UNCHANGED <<coins, sent, sweep, answers, form>>

\* One target after the other, fastest first. A dry run may fail alone.
DryRun ==
  /\ op.what = "prepare" /\ op.step = "dry" /\ op.left # {}
  /\ LET t == Fastest(op.left)
         rest == op.left \ {t}
     IN \/ op' = [op EXCEPT !.left = rest]
        \/ /\ coins # {}
           /\ op' = [op EXCEPT !.left = rest,
                               !.txs = [u \in DOMAIN op.txs \cup {t} |->
                                          IF u = t THEN coins ELSE op.txs[u]]]
  /\ UNCHANGED <<coins, sent, sweep, answers, form>>

Prepared ==
  /\ op.what = "prepare" /\ op.step = "dry" /\ op.left = {} /\ DOMAIN op.txs # {}
  /\ sweep' = Plan(op.addr, op.amount, op.txs) /\ answers' = Append(answers, sweep')
  /\ op' = Idle /\ UNCHANGED <<coins, sent, form>>

-----------------------------------------------------------------------------
(* BroadcastSweep: a publish that fails is Fails.                          *)

Published == [to |-> sweep.addr, spends |-> sweep.txs[op.target],
              field |-> op.field, edited |-> op.edited]

\* Mutant: the plan stays after it was used.
PublishKept ==
  /\ op.what = "send" /\ sweep # Nil /\ op.target \in DOMAIN sweep.txs
  /\ sent' = sent \cup {Published} /\ coins' = coins \ Published.spends
  /\ UNCHANGED sweep /\ answers' = Append(answers, Nil) /\ op' = Idle
  /\ UNCHANGED form

Publish ==
  /\ op.what = "send" /\ sweep # Nil /\ op.target \in DOMAIN sweep.txs
  /\ sent' = sent \cup {Published} /\ coins' = coins \ Published.spends
  /\ sweep' = Nil /\ answers' = Append(answers, Nil) /\ op' = Idle
  /\ UNCHANGED form

\* External: a coin confirms.
CoinArrives(k) ==
  /\ k \notin coins /\ \A s \in sent : k \notin s.spends
  /\ coins' = coins \cup {k}
  /\ UNCHANGED <<sent, sweep, op, answers, form>>

SweepNext ==
  \/ GoSweep \/ Back \/ PrepareClicked \/ PlanArrives \/ SendClicked \/ SentArrives
  \/ \E a \in Addr : Edit(a)
  \/ \E t \in Targets : Choose(t)
  \/ Fails \/ ReadBalance \/ FeeSourceAnswers \/ DryRun \/ Prepared \/ Publish
  \/ \E k \in Coin : CoinArrives(k)

SweepSpec == SweepInit /\ [][SweepNext]_sweepVars
-----------------------------------------------------------------------------
TxsFor(Ds) == UNION {[D -> SUBSET Coin] : D \in Ds}

Plans == [addr: Addr, amount: SUBSET Coin, txs: TxsFor((SUBSET Targets) \ {{}})]

Ops ==
  {Idle}
  \cup [what: {"prepare"}, addr: Addr, amount: SUBSET Coin, left: SUBSET Targets,
        txs: TxsFor(SUBSET Targets), step: {"balance", "fee", "dry"}]
  \cup [what: {"send"}, target: Targets, field: Addr \cup {Nil}, edited: BOOLEAN]

SweepTypeOK ==
  /\ coins \subseteq Coin
  /\ sent \subseteq [to: Addr, spends: SUBSET Coin, field: Addr \cup {Nil}, edited: BOOLEAN]
  /\ sweep \in Plans \cup {Nil} /\ op \in Ops
  /\ answers \in Seq(Plans \cup {Nil})
  /\ page \in {"wallet", "sweep", "done"} /\ field \in Addr \cup {Nil}
  /\ shown \in Plans \cup {Nil} /\ target \in Targets /\ edited \in BOOLEAN

(***************************************************************************)
(* A prepared transaction spends coins that are there: whatever was        *)
(* published or has arrived since, and however often Send is clicked, none *)
(* of them spends what an earlier one spent.                               *)
(***************************************************************************)
PlanIsStillGood ==
  sweep # Nil => \A t \in DOMAIN sweep.txs : sweep.txs[t] # {} /\ sweep.txs[t] \subseteq coins

(***************************************************************************)
(* What Send publishes pays the address in the field, unless the field was *)
(* changed after Continue had read it: with plans left from earlier and    *)
(* answers that come after the page was left and opened again.             *)
(***************************************************************************)
SentWhereAsked == \A s \in sent : s.to = s.field \/ s.edited

(***************************************************************************)
(* Stated by ui/frontend/dist/index.html:264, above the field: "Sends      *)
(* everything the app holds on-chain to the address below".                *)
(***************************************************************************)
SentWhereShown == \A s \in sent : s.to = s.field
=============================================================================
