---------------------------- MODULE Window_proofs ----------------------------
(***************************************************************************)
(* Proofs about what the window shows and runs: AppOps, the operations and *)
(* which Core they work on, for any number of callers; History, the list   *)
(* of money movements, for any channels, deposits and amounts; Sweep, the  *)
(* page that sends the money, for any addresses, coins and fee targets.    *)
(***************************************************************************)
EXTENDS AppOps, History, Sweep, Folding

(* AppOps: which operation the lock, the cancel function and the current   *)
(* Core belong to.                                                         *)

\* Where a caller holds the lock.
Held == Body \cup {"locked", "clear", "unlock"}

\* The lock is a caller's exactly while it is in an operation.
LockInv == \A p \in Callers : opMu = p <=> pc[p] \in Held

\* Which operations are found at which place.
PlaceInv ==
  \A p \in Callers :
    /\ pc[p] \in {"body", "starting", "waiting", "clear"} => Within(p)
    /\ pc[p] = "looked" => kind[p] = "other"
    /\ pc[p] = "starting" => bound

\* a.cancel is never left behind by an operation that is over.
CancelInv ==
  cancel # None => pc[cancel] \in Body \cup {"clear"} /\ Within(cancel)

\* beforeClose looks at the node with the lock taken.
CloseInv == window = "locked" => opMu = "close"

BoundInv == up \cup ready # {} => bound

Parts ==
  /\ LockInv /\ PlaceInv /\ CancelInv /\ BoundInv /\ CloseInv
  /\ CancelIsItsOwn /\ WorksOnTheCurrentCore /\ NodeIsOfTheCurrentCore

IInv == TypeOK /\ Parts

-----------------------------------------------------------------------------
LEMMA InitInv == Init => IInv
<1> SUFFICES ASSUME Init PROVE IInv
  OBVIOUS
<1>1. TypeOK
  <2>1. 1 \in Cores
    BY ParametersAssumption DEF Cores
  <2>2. opMu \in Callers \cup {"free", "close"} /\ cancel \in Callers \cup {None}
        /\ cancelled \in SUBSET Callers
    BY DEF Init
  <2>3. pc \in [Callers -> PCs] /\ kind \in [Callers -> Kinds]
    BY DEF Init, PCs, Kinds, Running
  <2>4. uses \in [Callers -> Cores] /\ core \in Cores /\ closing \in Cores
        /\ restored \in SUBSET Cores /\ up \in SUBSET Cores /\ ready \in SUBSET Cores
    BY <2>1 DEF Init
  <2> QED
    BY <2>2, <2>3, <2>4 DEF Init, TypeOK
<1>2. LockInv /\ PlaceInv
  BY ParametersAssumption DEF Init, LockInv, PlaceInv, Held, Body
<1>3. CancelInv /\ BoundInv /\ CloseInv
  BY DEF Init, CancelInv, BoundInv, CloseInv
<1>4. CancelIsItsOwn /\ WorksOnTheCurrentCore /\ NodeIsOfTheCurrentCore
  BY DEF Init, CancelIsItsOwn, WorksOnTheCurrentCore, NodeIsOfTheCurrentCore, Body
<1> QED
  BY <1>1, <1>2, <1>3, <1>4 DEF IInv, Parts

LEMMA TypeStep == TypeOK /\ [Next]_vars => TypeOK'
<1> SUFFICES ASSUME TypeOK, [Next]_vars PROVE TypeOK'
  OBVIOUS
<1> USE ParametersAssumption
    DEF TypeOK, Cores, Stoppers, Kinds, Running, PCs, Body, None, Move, Ends, InOp
<1>1. CASE UNCHANGED vars
  BY <1>1 DEF vars, context, calls, session, process, closer
<1>2. ASSUME NEW p \in Callers, Call(p) PROVE TypeOK'
  <2>1. ASSUME NEW k \in Running \cup {"settings"}, TryLock(p, k) PROVE TypeOK'
    BY <2>1 DEF TryLock, context, session, process, closer
  <2>2. CASE OtherLooks(p)
    BY <2>2 DEF OtherLooks, context, session, process, closer
  <2>13. CASE OtherReturns(p) \/ OtherLocks(p)
    BY <2>13 DEF OtherReturns, OtherLocks, context, session, process, closer
  <2>3. CASE Register(p)
    BY <2>3 DEF Register, session, process, closer
  <2>4. CASE Clear(p)
    BY <2>4 DEF Clear, session, process, closer
  <2>5. CASE Unlock(p)
    BY <2>5 DEF Unlock, context, session, process, closer
  <2>6. CASE ShortOperation(p) \/ StartFails(p) \/ NodeNotUp(p) \/ SyncOver(p)
              \/ RelaunchFails(p)
    <3>1. pc' = [pc EXCEPT ![p] = "clear"] \/ pc' = [pc EXCEPT ![p] = "unlock"]
      BY <2>6 DEF ShortOperation, StartFails, NodeNotUp, SyncOver, RelaunchFails
    <3>2. pc' \in [Callers -> PCs]
      BY <3>1
    <3> QED
      BY <2>6, <3>2 DEF ShortOperation, StartFails, NodeNotUp, SyncOver, RelaunchFails,
                        context, session, process, closer
  <2>14. CASE SyncWithNode(p)
    BY <2>14 DEF SyncWithNode, context, session, process, closer
  <2>16. CASE SyncAfterRestore(p)
    BY <2>16 DEF SyncAfterRestore, context, session, process, closer
  <2>15. CASE StopReturns(p) \/ SettingsRefused(p)
    BY <2>15 DEF StopReturns, SettingsRefused, context, session, process, closer
  <2>7. CASE Restore(p)
    BY <2>7 DEF Restore, context, process, closer
  <2>8. CASE InitLibrary(p)
    <3>1. pc' \in [Callers -> PCs]
      <4>1. \/ pc' = [pc EXCEPT ![p] = "starting"]
            \/ pc' = [pc EXCEPT ![p] = "clear"]
            \/ pc' = [pc EXCEPT ![p] = "unlock"]
        BY <2>8 DEF InitLibrary
      <4> QED
        BY <4>1
    <3>2. ready' \in {ready, ready \cup {uses[p]}} /\ library' \in {library, "on"}
      <4>1. CASE uses[p] \in ready
        BY <2>8, <4>1 DEF InitLibrary
      <4>2. CASE uses[p] \notin ready
        BY <2>8, <4>2 DEF InitLibrary
      <4> QED
        BY <4>1, <4>2
    <3> QED
      BY <2>8, <3>1, <3>2 DEF InitLibrary, context, closer
  <2>9. CASE NodeUp(p)
    BY <2>9 DEF NodeUp, context, process, closer
  <2>10. CASE StopBegins(p)
    BY <2>10 DEF StopBegins, context, session, process, closer
  <2>11. CASE Relaunch(p)
    BY <2>11 DEF Relaunch, context, session, closer
  <2>12. CASE ApplySettings(p)
    BY <2>12 DEF ApplySettings, context, process, closer
  <2> QED
    BY <1>2, <2>1, <2>2, <2>3, <2>4, <2>5, <2>6, <2>7, <2>8, <2>9, <2>10, <2>11, <2>12,
       <2>13, <2>14, <2>15, <2>16
    DEF Call
<1>3. ASSUME NEW s \in Stoppers, StopNode(s) \/ StopLibrary(s) PROVE TypeOK'
  BY <1>3 DEF StopNode, StopLibrary, Stopped, context, calls, process, closer
<1>4. CASE CancelCurrent
  BY <1>4 DEF CancelCurrent, calls, session, process, closer
<1>5. CASE Window
  BY <1>5 DEF Window, CloseLooks, CloseNodeRuns, CloseNothingRuns, CloseAsks, CloseNo,
              CloseYes, CloseStops, ProcessEnds, context, calls, session, process
<1> QED
  BY <1>1, <1>2, <1>3, <1>4, <1>5 DEF Next

-----------------------------------------------------------------------------
(* The parts, for a step of a caller.                                      *)

LEMMA CallStep ==
  ASSUME TypeOK, Parts, NEW p \in Callers, Call(p)
  PROVE  Parts'
<1> USE ParametersAssumption
    DEF TypeOK, Parts, LockInv, PlaceInv, CancelInv, BoundInv, CloseInv, CancelIsItsOwn,
        WorksOnTheCurrentCore, NodeIsOfTheCurrentCore, Held, Body, PCs, Kinds, Running,
        Within, None, Move, Ends, InOp
<1>1. ASSUME NEW k \in Running \cup {"settings"}, TryLock(p, k) PROVE Parts'
  BY <1>1 DEF TryLock, context, session, process, closer
<1>2. CASE OtherLooks(p)
  BY <1>2 DEF OtherLooks, context, session, process, closer
<1>3. CASE OtherReturns(p)
  BY <1>3 DEF OtherReturns, context, session, process, closer
<1>4. CASE OtherLocks(p)
  BY <1>4 DEF OtherLocks, context, session, process, closer
<1>5. CASE Register(p)
  BY <1>5 DEF Register, session, process, closer
<1>6. CASE Clear(p)
  BY <1>6 DEF Clear, session, process, closer
<1>7. CASE Unlock(p)
  BY <1>7 DEF Unlock, context, session, process, closer
<1>8. CASE ShortOperation(p) \/ SyncWithNode(p) \/ SyncAfterRestore(p)
  BY <1>8 DEF ShortOperation, SyncWithNode, SyncAfterRestore, context, session, process, closer
<1>9. CASE StartFails(p) \/ NodeNotUp(p) \/ SyncOver(p)
  BY <1>9 DEF StartFails, NodeNotUp, SyncOver, context, session, process, closer
<1>10. CASE StopReturns(p) \/ RelaunchFails(p) \/ SettingsRefused(p)
  BY <1>10 DEF StopReturns, RelaunchFails, SettingsRefused, context, session, process, closer
<1>11. CASE Restore(p)
  BY <1>11 DEF Restore, context, process, closer
<1>12. CASE InitLibrary(p)
  BY <1>12 DEF InitLibrary, context, closer
<1>13. CASE NodeUp(p)
  BY <1>13 DEF NodeUp, context, process, closer
<1>14. CASE StopBegins(p)
  BY <1>14 DEF StopBegins, context, session, process, closer
<1>15. CASE Relaunch(p)
  BY <1>15 DEF Relaunch, context, session, closer
<1>16. CASE ApplySettings(p)
  BY <1>16 DEF ApplySettings, context, process, closer
<1> QED
  BY <1>1, <1>2, <1>3, <1>4, <1>5, <1>6, <1>7, <1>8, <1>9, <1>10, <1>11, <1>12, <1>13,
     <1>14, <1>15, <1>16 DEF Call

LEMMA PartsStep ==
  ASSUME TypeOK, Parts, [Next]_vars
  PROVE  Parts'
<1> USE ParametersAssumption
    DEF TypeOK, Parts, LockInv, PlaceInv, CancelInv, BoundInv, CloseInv, CancelIsItsOwn,
        WorksOnTheCurrentCore, NodeIsOfTheCurrentCore, Within, None
<1>1. CASE UNCHANGED vars
  BY <1>1 DEF vars, context, calls, session, process, closer
<1>2. ASSUME NEW p \in Callers, Call(p) PROVE Parts'
  BY <1>2, CallStep
<1>3. ASSUME NEW s \in Stoppers, StopNode(s) \/ StopLibrary(s) PROVE Parts'
  BY <1>3 DEF StopNode, StopLibrary, context, calls, process, closer
<1>4. CASE CancelCurrent
  BY <1>4 DEF CancelCurrent, calls, session, process, closer
<1>5. CASE CloseLooks \/ CloseNothingRuns
  BY <1>5 DEF CloseLooks, CloseNothingRuns, context, calls, session, process, closer
<1>6. CASE CloseNodeRuns \/ CloseAsks \/ CloseNo \/ CloseYes \/ ProcessEnds
  BY <1>6 DEF CloseNodeRuns, CloseAsks, CloseNo, CloseYes, ProcessEnds, context, calls,
              session, process
<1>7. CASE CloseStops
  BY <1>7 DEF CloseStops, calls, session, process, closer
<1> QED
  BY <1>1, <1>2, <1>3, <1>4, <1>5, <1>6, <1>7 DEF Next, Window

-----------------------------------------------------------------------------
(***************************************************************************)
(* Every variable keeps its type (AppOps!TypeOK).                          *)
(***************************************************************************)
THEOREM TypeCorrect == Spec => []TypeOK
<1>1. Init => TypeOK
  BY InitInv DEF IInv
<1> QED
  BY <1>1, TypeStep, PTL DEF Spec

(***************************************************************************)
(* The invariant that ties lock, cancel function, Core and library to the  *)
(* places the callers are at is inductive.                                 *)
(***************************************************************************)
THEOREM Invariance == Spec => []IInv
<1>1. IInv /\ [Next]_vars => IInv'
  BY TypeStep, PartsStep DEF IInv
<1> QED
  BY <1>1, InitInv, PTL DEF Spec

(***************************************************************************)
(* Cancel reaches the running operation and no other (run in ui/app.go).   *)
(***************************************************************************)
THEOREM CancelIsItsOwnHolds == Spec => []CancelIsItsOwn
<1>1. IInv => CancelIsItsOwn
  BY DEF IInv, Parts
<1> QED
  BY <1>1, Invariance, PTL

(***************************************************************************)
(* No operation goes on with a Core the settings have replaced (a.c).      *)
(***************************************************************************)
THEOREM WorksOnTheCurrentCoreHolds == Spec => []WorksOnTheCurrentCore
<1>1. IInv => WorksOnTheCurrentCore
  BY DEF IInv, Parts
<1> QED
  BY <1>1, Invariance, PTL

(***************************************************************************)
(* The settings never strand a node or a library (ApplySettings).          *)
(***************************************************************************)
THEOREM NodeIsOfTheCurrentCoreHolds == Spec => []NodeIsOfTheCurrentCore
<1>1. IInv => NodeIsOfTheCurrentCore
  BY DEF IInv, Parts
<1> QED
  BY <1>1, Invariance, PTL

-----------------------------------------------------------------------------
(* History: a list made after lnd's database was pruned is the list made   *)
(* before.                                                                 *)

\* lnd has each channel somewhere, and a sweep is of channels.
HistoryIInv ==
  /\ lnd \in [Chan -> {"open", "waiting", "force", "closed", "pruned"}]
  /\ \A t \in txs : t.what = "sweep" => t.of \subseteq Chan

LEMMA SpecHistoryIInv == HistorySpec => []HistoryIInv
<1>1. HistoryInit => HistoryIInv
  BY DEF HistoryInit, HistoryIInv
<1>2. HistoryIInv /\ [HistoryNext]_historyVars => HistoryIInv'
  <2> SUFFICES ASSUME HistoryIInv, [HistoryNext]_historyVars PROVE HistoryIInv'
    OBVIOUS
  <2> USE DEF HistoryIInv
  <2>1. ASSUME NEW c \in Chan, Closing(c) \/ ForceMined(c) \/ LndCloses(c) \/ Prune(c)
        PROVE  HistoryIInv'
    BY <2>1 DEF Closing, ForceMined, LndCloses, Prune
  <2>2. ASSUME UNCHANGED <<lnd, txs>> PROVE HistoryIInv'
    BY <2>2
  <2>3. ASSUME NEW t, NEW enough, WalletTx(t, enough), t.what = "sweep" => t.of \subseteq Chan
        PROVE  HistoryIInv'
    BY <2>3 DEF WalletTx
  <2>4. ASSUME NEW c \in Chan, AppRecordsClose(c) \/ CloseSeen(c) PROVE HistoryIInv'
    BY <2>4, <2>2, <2>3 DEF AppRecordsClose, CloseSeen, Coop, Tx
  <2>5. ASSUME NEW B \in SUBSET Chan, SweepSeen(B) PROVE HistoryIInv'
    BY <2>5, <2>3 DEF SweepSeen, SweepTx, Tx
  <2>6. ASSUME Plain \/ Pay PROVE HistoryIInv'
    BY <2>6, <2>2, <2>3 DEF Plain, Pay, Tx
  <2>7. ASSUME NEW d \in Swap, Fund(d) \/ Record(d) \/ Spend(d) PROVE HistoryIInv'
    BY <2>7, <2>2, <2>3 DEF Fund, Record, Spend, Tx
  <2> QED BY <2>1, <2>2, <2>4, <2>5, <2>6, <2>7 DEF HistoryNext, historyVars
<1> QED BY <1>1, <1>2, PTL DEF HistorySpec

-----------------------------------------------------------------------------
\* The app's record stands in: the same closes are listed, the same are pending.
LEMMA ClosesStay ==
  ASSUME HistoryIInv, NEW c \in Chan, Prune(c)
  PROVE  /\ UNCHANGED <<coop, txs, log, pay>> /\ Closed' = Closed /\ Pending' = Pending
         /\ \A d \in Chan : (lnd'[d] = "force") <=> (lnd[d] = "force")
<1>1. /\ lnd' = [lnd EXCEPT ![c] = "pruned"] /\ lnd[c] = "closed" /\ app[c] = "closed"
      /\ UNCHANGED <<coop, app, txs, log, pay>>
  BY DEF Prune
<1>2. \A d \in Chan : lnd'[d] = IF d = c THEN "pruned" ELSE lnd[d]
  BY <1>1 DEF HistoryIInv
<1>3. Closed' = Closed
  BY <1>1, <1>2 DEF Closed
<1>4. Pending' = Pending
  BY <1>1, <1>2 DEF Pending
<1> QED BY <1>1, <1>2, <1>3, <1>4

\* What an entry of a close has, and which transactions it explains.
LEMMA CloseEntriesStay ==
  ASSUME HistoryIInv, UNCHANGED txs, Closed' = Closed,
         \A d \in Chan : (lnd'[d] = "force") <=> (lnd[d] = "force")
  PROVE  /\ CloseEntries' = CloseEntries /\ OfCloses' = OfCloses /\ Uncollected' = Uncollected
<1>1. Collected' = Collected
  BY DEF Collected, SweepsOf, Direct
<1>2. \A t : CollectedFee(t)' = CollectedFee(t)
  BY DEF CollectedFee
<1>3. CloseEntries' = CloseEntries
  BY <1>1, <1>2 DEF CloseEntries
<1>4. Uncollected' = Uncollected
  BY DEF Uncollected, SweepsOf, Direct
<1>5. OfCloses' = OfCloses
  BY <1>1 DEF OfCloses, HistoryIInv
<1> QED BY <1>3, <1>4, <1>5

\* The other parts do not look at lnd's channels, but for what is explained.
LEMMA OtherEntriesStay ==
  ASSUME UNCHANGED <<txs, log, pay>>, Pending' = Pending, OfCloses' = OfCloses
  PROVE  /\ PendingEntries' = PendingEntries /\ PaymentEntries' = PaymentEntries
         /\ DepositEntries' = DepositEntries /\ OnchainEntries' = OnchainEntries
<1>1. PendingEntries' = PendingEntries
  BY DEF PendingEntries
<1>2. PaymentEntries' = PaymentEntries
  BY DEF PaymentEntries
<1>3. Paired' = Paired
  BY DEF Paired
<1>4. DepositEntries' = DepositEntries
  BY <1>3 DEF DepositEntries, OutputEntries, Own, Output, Unpaired, Recorded
<1>5. OnchainEntries' = OnchainEntries
  BY <1>3 DEF OnchainEntries, OfDeposits
<1> QED BY <1>1, <1>2, <1>4, <1>5

(***************************************************************************)
(* Core.History over a database the phone has pruned lists what it listed  *)
(* before, entry by entry, for any number of channels: the app's records   *)
(* of closed channels stand in for lnd's (addClosedChannels).              *)
(***************************************************************************)
THEOREM PruningSaysTheSame == HistorySpec => PruningChangesNothing
<1>1. ASSUME HistoryIInv, NEW c \in Chan, Prune(c)
      PROVE  Entries' = Entries /\ Uncollected' = Uncollected
  BY <1>1, ClosesStay, CloseEntriesStay, OtherEntriesStay DEF Entries
<1>2. HistoryIInv => [\A c \in Chan : Prune(c) => Entries' = Entries /\ Uncollected' = Uncollected]_historyVars
  BY <1>1
<1> QED BY <1>2, SpecHistoryIInv, PTL DEF PruningChangesNothing

-----------------------------------------------------------------------------
(* History: what the wallet and the books have.                            *)

Spends == {"claim", "refund", "back"}

\* A transaction is of channels as the wallet knows them, or of a deposit.
OfWallet(t) ==
  \/ \E c \in coop : t = Coop(c)
  \/ \E B \in SUBSET (Chan \ coop) : B # {} /\ t = SweepTx(B)
  \/ \E w \in {"in", "out", "self"} : t = Tx(w, {})
  \/ \E w \in {"fund", "own"} \cup Spends : \E d \in Swap : t = Tx(w, {d})

WalletInv ==
  /\ coop \subseteq Chan /\ IsFiniteSet(txs) /\ Onchain \in Nat
  /\ \A t \in txs : OfWallet(t)
  /\ \A t, u \in txs : t.what = "sweep" /\ u.what = "sweep" /\ t # u => t.of \cap u.of = {}

\* A deposit is funded once and spent once, claimed when it is recorded.
DepositInv ==
  /\ log \in Seq({"fund", "record"} \X Swap)
  /\ \A d \in Swap :
       /\ Output(d) => Funded(d)
       /\ ~(Tx("fund", {d}) \in txs /\ Tx("own", {d}) \in txs)
       /\ \A w \in Spends : Tx(w, {d}) \in txs =>
            /\ Output(d) /\ (w = "claim" <=> d \in Recorded)
            /\ \A v \in Spends : Tx(v, {d}) \in txs => v = w

BookInv ==
  /\ app \in [Chan -> {"no", "pending", "closed"}] /\ pay \in {"no", "lnd", "both"}
  /\ \A c \in Chan : (lnd[c] = "pruned" => app[c] = "closed") /\ (app[c] # "no" => lnd[c] # "open")

LedgerInv == HistoryIInv /\ WalletInv /\ DepositInv /\ BookInv

-----------------------------------------------------------------------------
\* The sums of the model.
LEMMA SumOfIs ==
  ASSUME NEW D, IsFiniteSet(D), NEW w, Weighs(w, D), \A t \in D : w[t] = Amount(t)
  PROVE  SumOf(D) = Sigma(D, w)
<1>1. PICK g : IsTotal(g, D, w) /\ \A A \in SUBSET D : Sigma(A, w) = g[A]
  BY SigmaIs
<1> DEFINE pick(s) == CHOOSE x \in s : TRUE
           sums(f) == f = [s \in SUBSET D |-> IF s = {} THEN 0 ELSE Amount(pick(s)) + f[s \ {pick(s)}]]
           f == CHOOSE x : sums(x)
<1>2. SumOf(D) = f[D]
  BY DEF SumOf, MapThenSumSet, MapThenFoldSet
<1>3. sums(f)
  <2> DEFINE q == [s \in SUBSET D |-> g[s]]
  <2>1. ASSUME NEW s \in SUBSET D, s # {} PROVE g[s] = Amount(pick(s)) + g[s \ {pick(s)}]
    <3>1. pick(s) \in s /\ w[pick(s)] = Amount(pick(s))
      BY <2>1
    <3> HIDE DEF pick
    <3> QED BY <1>1, <3>1 DEF IsTotal
  <2>2. g[{}] = 0
    BY <1>1 DEF IsTotal
  <2> HIDE DEF pick
  <2>3. sums(q)
    BY <2>1, <2>2
  <2> HIDE DEF sums, q
  <2> QED BY <2>3
<1>4. AddsOneByOne(f, D, w)
  <2>1. ASSUME NEW u \in SUBSET D, u # {} PROVE \E x \in u : f[u] = w[x] + f[u \ {x}]
    <3>1. pick(u) \in u /\ w[pick(u)] = Amount(pick(u))
      BY <2>1
    <3>2. f[u] = Amount(pick(u)) + f[u \ {pick(u)}]
      <4> HIDE DEF f, pick
      <4> QED BY <1>3, <2>1
    <3> HIDE DEF f, pick
    <3> QED BY <3>1, <3>2
  <2>2. f[{}] = 0
    <3> HIDE DEF f, pick
    <3> QED BY <1>3
  <2> HIDE DEF f
  <2> QED BY <2>1, <2>2 DEF AddsOneByOne
<1> HIDE DEF f
<1>5. f[D] = g[D]
  <2>1. D \in SUBSET D
    OBVIOUS
  <2> QED BY <1>1, <1>4, TotalIsUnique
<1> QED BY <1>1, <1>2, <1>5

\* One transaction more.
LEMMA OneMore ==
  ASSUME NEW T, IsFiniteSet(T), \A u \in T : Amount(u) \in Int, NEW t, t \notin T, Amount(t) \in Int
  PROVE  /\ IsFiniteSet(T \cup {t}) /\ SumOf(T) \in Int
         /\ SumOf(T \cup {t}) = SumOf(T) + Amount(t)
<1> DEFINE S == T \cup {t}
           w == [u \in S |-> Amount(u)]
<1>1. IsFiniteSet(S) /\ T \in SUBSET S /\ S \ {t} = T /\ t \in S
  BY FS_AddElement
<1>2. Weighs(w, S) /\ Weighs(w, T) /\ w[t] = Amount(t) /\ \A u \in S : w[u] = Amount(u)
  BY DEF Weighs
<1> HIDE DEF S, w
<1>3. SumOf(S) = Sigma(S, w) /\ SumOf(T) = Sigma(T, w)
  BY <1>1, <1>2, SumOfIs
<1>4. Sigma(S, w) = w[t] + Sigma(S \ {t}, w) /\ Sigma(T, w) \in Int
  BY <1>1, <1>2, SigmaFacts
<1>5. Sigma(S \ {t}, w) = Sigma(T, w)
  BY <1>1, Zenon
<1>6. S = T \cup {t}
  BY DEF S
<1> QED BY <1>1, <1>2, <1>3, <1>4, <1>5, <1>6

LEMMA AmountIs ==
  ASSUME coop \subseteq Chan, NEW t, OfWallet(t)
  PROVE  /\ Amount(t) \in Int
         /\ t.what \in {"coop", "sweep", "in", "fund"} => Amount(t) \in Nat
         /\ t.what = "sweep" => t.of \subseteq Chan \ coop /\ t.of # {} /\ t = SweepTx(t.of)
                                /\ Amount(t) = Bal * Cardinality(t.of) - Fee
<1>1. CASE \E c \in coop : t = Coop(c)
  BY <1>1, AmountsAssumption DEF Coop, Tx, Amount
<1>2. ASSUME NEW B \in SUBSET (Chan \ coop), B # {}, t = SweepTx(B)
      PROVE  /\ Amount(t) \in Nat /\ t.what = "sweep" /\ t.of = B
             /\ Amount(t) = Bal * Cardinality(B) - Fee
  <2>1. IsFiniteSet(B) /\ Cardinality(B) \in Nat /\ Cardinality(B) # 0
    <3>1. B \in SUBSET Chan
      OBVIOUS
    <3> QED BY <1>2, <3>1, AmountsAssumption, FS_Subset, FS_CardinalityType, FS_EmptySet
  <2>2. t.what = "sweep" /\ t.of = B /\ Amount(t) = Bal * Cardinality(B) - Fee
    BY <1>2 DEF SweepTx, Tx, Amount
  <2>3. \A n \in Nat : n # 0 => Bal * n >= Bal /\ Bal * n \in Nat
    BY AmountsAssumption
  <2> QED BY <2>1, <2>2, <2>3, AmountsAssumption
<1>3. CASE \E w \in {"in", "out", "self"} : t = Tx(w, {})
  BY <1>3, AmountsAssumption DEF Tx, Amount
<1>4. CASE \E w \in {"fund", "own"} \cup Spends : \E d \in Swap : t = Tx(w, {d})
  <2>1. PICK w \in {"fund", "own", "claim", "refund", "back"}, d \in Swap : t = Tx(w, {d})
    BY <1>4 DEF Spends
  <2>2. t.what = w
    BY <2>1 DEF Tx
  <2> QED BY <2>2, AmountsAssumption DEF Amount
<1>5. CASE \E B \in SUBSET (Chan \ coop) : B # {} /\ t = SweepTx(B)
  <2>1. PICK B \in SUBSET (Chan \ coop) : B # {} /\ t = SweepTx(B)
    BY <1>5
  <2>2. Amount(t) \in Nat /\ t.what = "sweep" /\ t.of = B /\ Amount(t) = Bal * Cardinality(B) - Fee
    BY <1>2, <2>1
  <2>3. t = SweepTx(t.of) /\ Cardinality(t.of) = Cardinality(B)
    BY <2>1, <2>2
  <2> QED BY <2>1, <2>2, <2>3
<1> QED BY <1>1, <1>3, <1>4, <1>5 DEF OfWallet

\* The wallet after a transaction it could pay for.
LEMMA WalletGrows ==
  ASSUME WalletInv, NEW t, t \notin txs, OfWallet(t), txs' = txs \cup {t}, coop' = coop,
         Onchain + Amount(t) >= 0,
         t.what = "sweep" => \A u \in txs : u.what = "sweep" => t.of \cap u.of = {}
  PROVE  WalletInv'
<1>1. \A u \in txs \cup {t} : OfWallet(u) /\ Amount(u) \in Int
  BY AmountIs DEF WalletInv
<1>2. IsFiniteSet(txs') /\ SumOf(txs') = SumOf(txs) + Amount(t) /\ SumOf(txs) \in Int
  BY <1>1, OneMore DEF WalletInv
<1>3. Onchain' \in Nat
  BY <1>1, <1>2 DEF Onchain
<1>4. \A u \in txs' : OfWallet(u)'
  BY <1>1 DEF OfWallet
<1>5. \A u, v \in txs' : u.what = "sweep" /\ v.what = "sweep" /\ u # v => u.of \cap v.of = {}
  BY DEF WalletInv
<1> QED BY <1>2, <1>3, <1>4, <1>5 DEF WalletInv

LEMMA WalletStays == ASSUME WalletInv, UNCHANGED <<coop, txs>> PROVE WalletInv'
<1>1. \A u : OfWallet(u)' <=> OfWallet(u)
  BY DEF OfWallet
<1> QED BY <1>1 DEF WalletInv, Onchain

-----------------------------------------------------------------------------
\* What of the wallet is on deposit addresses is there.
LEMMA HeldIs ==
  LET held == {d \in Swap : Output(d) /\ ~Spent(d)} IN
  /\ Cardinality(held) \in Nat /\ SwapAmt * Cardinality(held) \in Nat
  /\ held # {} => SwapAmt * Cardinality(held) >= SwapAmt
<1> DEFINE held == {d \in Swap : Output(d) /\ ~Spent(d)}
<1>1. held \in SUBSET Swap
  OBVIOUS
<1> HIDE DEF held
<1>2. IsFiniteSet(held) /\ Cardinality(held) \in Nat /\ (held # {} => Cardinality(held) # 0)
  BY <1>1, AmountsAssumption, FS_Subset, FS_CardinalityType, FS_EmptySet
<1>3. \A n \in Nat : SwapAmt * n \in Nat /\ (n # 0 => SwapAmt * n >= SwapAmt)
  BY AmountsAssumption
<1> QED BY <1>2, <1>3 DEF held

\* What the wallet spends it has.
LEMMA Affordable ==
  ASSUME WalletInv, NEW t, OfWallet(t), NEW enough \in Nat, Spendable >= enough,
         \/ t.what \in {"coop", "sweep", "in", "fund"}
         \/ Amount(t) + enough >= 0
         \/ Amount(t) + SwapAmt >= 0 /\ \E d \in Swap : Output(d) /\ ~Spent(d)
  PROVE  Onchain + Amount(t) >= 0
<1> DEFINE held == {d \in Swap : Output(d) /\ ~Spent(d)}
           n == SwapAmt * Cardinality(held)
<1>1. n \in Nat /\ (held # {} => n >= SwapAmt)
  BY HeldIs
<1>2. Onchain \in Nat /\ Amount(t) \in Int /\ Onchain - n >= enough
  BY AmountIs DEF WalletInv, Spendable
<1>3. CASE t.what \in {"coop", "sweep", "in", "fund"}
  BY <1>2, <1>3, AmountIs DEF WalletInv
<1> HIDE DEF n
<1>4. CASE Amount(t) + enough >= 0
  BY <1>1, <1>2, <1>4
<1>5. CASE Amount(t) + SwapAmt >= 0 /\ \E d \in Swap : Output(d) /\ ~Spent(d)
  BY <1>1, <1>2, <1>5, AmountsAssumption
<1> QED BY <1>3, <1>4, <1>5

LEMMA WalletPays ==
  ASSUME WalletInv, NEW t, NEW enough \in Nat, WalletTx(t, enough), OfWallet(t),
         \/ t.what \in {"coop", "sweep", "in", "fund"}
         \/ Amount(t) + enough >= 0
         \/ Amount(t) + SwapAmt >= 0 /\ \E d \in Swap : Output(d) /\ ~Spent(d),
         t.what = "sweep" => \A u \in txs : u.what = "sweep" => t.of \cap u.of = {}
  PROVE  WalletInv'
<1>1. t \notin txs /\ txs' = txs \cup {t} /\ coop' = coop /\ Spendable >= enough
  BY DEF WalletTx
<1>2. Onchain + Amount(t) >= 0
  BY <1>1, Affordable
<1> QED BY <1>1, <1>2, WalletGrows

\* Deposits are untouched by what is not of a deposit.
LEMMA DepositsStay ==
  ASSUME DepositInv, log' = log,
         \A d \in Swap : \A w \in {"fund", "own"} \cup Spends : Tx(w, {d}) \in txs' <=> Tx(w, {d}) \in txs
  PROVE  DepositInv'
<1>1. \A d \in Swap : /\ Tx("fund", {d}) \in txs' <=> Tx("fund", {d}) \in txs
                      /\ Tx("own", {d}) \in txs' <=> Tx("own", {d}) \in txs
                      /\ \A w \in Spends : Tx(w, {d}) \in txs' <=> Tx(w, {d}) \in txs
  OBVIOUS
<1>2. \A d \in Swap : Output(d)' <=> Output(d)
  BY <1>1 DEF Output, HasOutput
<1>3. Recorded' = Recorded /\ \A d \in Swap : Funded(d)' <=> Funded(d)
  BY DEF Recorded, RecordedIn, Funded
<1> QED BY <1>1, <1>2, <1>3 DEF DepositInv

LEMMA ShapesDiffer ==
  /\ \A w, v, X, Y : Tx(w, X) = Tx(v, Y) <=> w = v /\ X = Y
  /\ \A w, X : Tx(w, X).what = w /\ Tx(w, X).of = X
  /\ \A d, e : {d} = {e} <=> d = e
BY DEF Tx

LEMMA CloseStep ==
  ASSUME LedgerInv, \/ \E c \in Chan : CloseSeen(c)
                    \/ \E B \in SUBSET Chan : SweepSeen(B)
                    \/ Plain
  PROVE  WalletInv' /\ DepositInv'
<1>1. ASSUME NEW t, NEW enough, WalletTx(t, enough), log' = log, t.what \notin {"fund", "own"} \cup Spends
      PROVE  DepositInv'
  BY <1>1, ShapesDiffer, DepositsStay DEF WalletTx, LedgerInv
<1>2. ASSUME NEW c \in Chan, CloseSeen(c) PROVE WalletInv' /\ DepositInv'
  <2>1. Coop(c).what = "coop" /\ OfWallet(Coop(c)) /\ WalletTx(Coop(c), 0) /\ log' = log
    BY <1>2, ShapesDiffer DEF CloseSeen, Coop, OfWallet
  <2> QED BY <1>1, <2>1, WalletPays DEF Spends, LedgerInv
<1>3. ASSUME NEW B \in SUBSET Chan, SweepSeen(B) PROVE WalletInv' /\ DepositInv'
  <2>1. /\ SweepTx(B).what = "sweep" /\ SweepTx(B).of = B /\ WalletTx(SweepTx(B), 0) /\ log' = log
        /\ B # {} /\ B \cap (coop \cup Arrived) = {}
    BY <1>3, ShapesDiffer DEF SweepSeen, SweepTx
  <2>2. OfWallet(SweepTx(B))
    BY <2>1 DEF OfWallet
  <2>3. \A u \in txs : u.what = "sweep" => B \cap u.of = {}
    BY <2>1 DEF Arrived
  <2> QED BY <1>1, <2>1, <2>2, <2>3, WalletPays DEF Spends, LedgerInv
<1>4. CASE Plain
  <2>1. PICK w \in {"in", "out", "self"}, enough \in Nat :
          /\ WalletTx(Tx(w, {}), enough) /\ log' = log
          /\ w = "out" => enough = SwapFee + Fee
          /\ w = "self" => enough = Fee
    BY <1>4, AmountsAssumption DEF Plain
  <2>2. Tx(w, {}).what = w /\ OfWallet(Tx(w, {}))
    BY ShapesDiffer DEF OfWallet
  <2>3. w = "in" \/ Amount(Tx(w, {})) + enough >= 0
    BY <2>1, <2>2, AmountsAssumption DEF Amount
  <2> QED BY <1>1, <2>1, <2>2, <2>3, WalletPays DEF Spends, LedgerInv
<1> QED BY <1>2, <1>3, <1>4

\* The events of a log with one more at its end.
LEMMA LogGrows ==
  ASSUME DepositInv, NEW what \in {"fund", "record"}, NEW d \in Swap, log' = Append(log, <<what, d>>)
  PROVE  /\ log' \in Seq({"fund", "record"} \X Swap)
         /\ \A e \in Swap : /\ Funded(e)' <=> Funded(e) \/ (what = "fund" /\ e = d)
                            /\ e \in Recorded' <=> e \in Recorded \/ (what = "record" /\ e = d)
<1>1. log \in Seq({"fund", "record"} \X Swap) /\ <<what, d>> \in {"fund", "record"} \X Swap
  BY DEF DepositInv
<1>2. ToSet(log') = ToSet(log) \cup {<<what, d>>}
  BY <1>1, Appended
<1>3. log' \in Seq({"fund", "record"} \X Swap)
  BY <1>1, AppendProperties
<1> QED BY <1>2, <1>3 DEF Funded, Recorded, RecordedIn

LEMMA FundStep ==
  ASSUME LedgerInv, NEW d \in Swap, Fund(d)
  PROVE  WalletInv' /\ DepositInv'
<1> USE DEF LedgerInv
<1>1. /\ log' \in Seq({"fund", "record"} \X Swap) /\ Recorded' = Recorded /\ ~Funded(d)
      /\ \A e \in Swap : Funded(e)' <=> Funded(e) \/ e = d
  <2>1. \A e \in Recorded \cup Recorded' : e \in Swap
    BY DEF Recorded, RecordedIn
  <2> QED BY <2>1, LogGrows DEF Fund
<1>2. CASE UNCHANGED <<coop, lnd, app, txs, pay>>
  <2>1. \A e \in Swap : Output(e)' <=> Output(e)
    BY <1>2 DEF Output, HasOutput
  <2>2. DepositInv'
    BY <1>1, <1>2, <2>1 DEF DepositInv
  <2> QED BY <1>2, <2>2, WalletStays
<1>3. ASSUME NEW w \in {"fund", "own"}, txs' = txs \cup {Tx(w, {d})} PROVE DepositInv'
  <2>1. ASSUME NEW e \in Swap, NEW v
        PROVE  Tx(v, {e}) \in txs' <=> Tx(v, {e}) \in txs \/ (v = w /\ e = d)
    <3>1. Tx(v, {e}) = Tx(w, {d}) <=> v = w /\ {e} = {d}
      BY DEF Tx
    <3>2. {e} = {d} <=> e = d
      OBVIOUS
    <3> QED BY <1>3, <3>1, <3>2
  <2>2. ~Output(d)
    BY <1>1 DEF DepositInv
  <2>3. \A e \in Swap : Output(e)' <=> Output(e) \/ e = d
    BY <1>3, <2>1 DEF Output, HasOutput
  <2>4. \A e \in Swap : ~(Tx("fund", {e}) \in txs' /\ Tx("own", {e}) \in txs')
    <3>1. ASSUME NEW e \in Swap, e # d PROVE ~(Tx("fund", {e}) \in txs' /\ Tx("own", {e}) \in txs')
      BY <2>1, <3>1 DEF DepositInv
    <3>2. Tx("fund", {d}) \notin txs /\ Tx("own", {d}) \notin txs
      BY <2>2 DEF Output, HasOutput
    <3>3. ~(Tx("fund", {d}) \in txs' /\ Tx("own", {d}) \in txs')
      BY <2>1, <3>2
    <3> QED BY <3>1, <3>3
  <2>5. \A e \in Swap : \A v \in Spends : Tx(v, {e}) \in txs' <=> Tx(v, {e}) \in txs
    BY <2>1 DEF Spends
  <2> QED BY <1>1, <2>3, <2>4, <2>5 DEF DepositInv
<1>4. CASE WalletTx(Tx("fund", {d}), 0)
  <2>1. Tx("fund", {d}).what = "fund" /\ OfWallet(Tx("fund", {d}))
    BY ShapesDiffer DEF OfWallet
  <2> QED BY <1>3, <1>4, <2>1, WalletPays DEF WalletTx
<1>5. CASE WalletTx(Tx("own", {d}), SwapAmt + Fee)
  <2>1. Tx("own", {d}).what = "own" /\ OfWallet(Tx("own", {d})) /\ SwapAmt + Fee \in Nat
    <3>1. SwapAmt + Fee \in Nat
      BY AmountsAssumption
    <3> QED BY <3>1, ShapesDiffer, Zenon DEF OfWallet
  <2>2. Amount(Tx("own", {d})) + (SwapAmt + Fee) >= 0
    BY <2>1, AmountsAssumption DEF Amount
  <2> QED BY <1>3, <1>5, <2>1, <2>2, WalletPays DEF WalletTx
<1> QED BY <1>2, <1>4, <1>5 DEF Fund

LEMMA RecordStep ==
  ASSUME LedgerInv, NEW d \in Swap, Record(d)
  PROVE  WalletInv' /\ DepositInv'
<1> USE DEF LedgerInv
<1>1. /\ UNCHANGED <<coop, txs>> /\ ~Spent(d) /\ log' \in Seq({"fund", "record"} \X Swap)
      /\ \A e \in Swap : /\ Funded(e)' <=> Funded(e)
                         /\ e \in Recorded' <=> e \in Recorded \/ e = d
  BY LogGrows DEF Record
<1>2. \A v \in Spends : Tx(v, {d}) \notin txs
  BY <1>1, ShapesDiffer DEF Spent, Spends
<1>3. \A e \in Swap : Output(e)' <=> Output(e)
  BY <1>1 DEF Output, HasOutput
<1>4. DepositInv'
  BY <1>1, <1>2, <1>3 DEF DepositInv
<1> QED BY <1>1, <1>4, WalletStays

LEMMA SpendStep ==
  ASSUME LedgerInv, NEW d \in Swap, Spend(d)
  PROVE  WalletInv' /\ DepositInv'
<1> USE DEF LedgerInv
<1>1. PICK w \in Spends : /\ WalletTx(Tx(w, {d}), 0) /\ (w = "claim" <=> d \in Recorded)
                          /\ Output(d) /\ ~Spent(d) /\ log' = log
  BY DEF Spend, Spends
<1>2. Tx(w, {d}).what = w /\ OfWallet(Tx(w, {d}))
  BY ShapesDiffer DEF OfWallet
<1>3. Amount(Tx(w, {d})) + SwapAmt >= 0
  BY <1>2, AmountsAssumption DEF Amount, Spends
<1>4. WalletInv'
  <2>1. Tx(w, {d}).what # "sweep"
    BY <1>2 DEF Spends
  <2> QED BY <1>1, <1>2, <1>3, <2>1, WalletPays
<1>5. \A e \in Swap : \A v : Tx(v, {e}) \in txs' <=> Tx(v, {e}) \in txs \/ (v = w /\ e = d)
  BY <1>1 DEF WalletTx, Tx
<1>6. \A v \in Spends : Tx(v, {d}) \notin txs
  BY <1>1, ShapesDiffer DEF Spent, Spends
<1>7. \A e \in Swap : Output(e)' <=> Output(e)
  BY <1>5 DEF Output, HasOutput, Spends
<1>8. Recorded' = Recorded /\ \A e \in Swap : Funded(e)' <=> Funded(e)
  BY <1>1 DEF Recorded, RecordedIn, Funded
<1>9. DepositInv'
  <2>1. \A e \in Swap : Tx("fund", {e}) \in txs' <=> Tx("fund", {e}) \in txs
    BY <1>5 DEF Spends
  <2>2. \A e \in Swap : Tx("own", {e}) \in txs' <=> Tx("own", {e}) \in txs
    BY <1>5 DEF Spends
  <2>3. ASSUME NEW e \in Swap, NEW v \in Spends, Tx(v, {e}) \in txs'
        PROVE  /\ Output(e) /\ (v = "claim" <=> e \in Recorded)
               /\ \A x \in Spends : Tx(x, {e}) \in txs' => x = v
    <3>1. CASE e = d
      <4>1. v = w /\ \A x \in Spends : Tx(x, {e}) \in txs' => x = w
        BY <1>5, <1>6, <2>3, <3>1
      <4> QED BY <1>1, <3>1, <4>1
    <3>2. CASE e # d
      <4>1. \A x : Tx(x, {e}) \in txs' => Tx(x, {e}) \in txs
        BY <1>5, <3>2
      <4> QED BY <2>3, <4>1 DEF DepositInv
    <3> QED BY <3>1, <3>2
  <2>4. log' \in Seq({"fund", "record"} \X Swap)
    BY <1>1 DEF DepositInv
  <2>5. \A e \in Swap : Output(e)' => Funded(e)'
    BY <1>7, <1>8 DEF DepositInv
  <2>6. \A e \in Swap : ~(Tx("fund", {e}) \in txs' /\ Tx("own", {e}) \in txs')
    BY <2>1, <2>2 DEF DepositInv
  <2> QED BY <1>7, <1>8, <2>3, <2>4, <2>5, <2>6 DEF DepositInv
<1> QED BY <1>4, <1>9

LEMMA SpecLedgerInv == HistorySpec => []LedgerInv
<1>1. HistoryInit => LedgerInv
  <2> SUFFICES ASSUME HistoryInit PROVE LedgerInv
    OBVIOUS
  <2>1. IsFiniteSet({}) /\ SumOf({}) = 0
    <3>1. IsFiniteSet({})
      BY FS_EmptySet
    <3> DEFINE w == [t \in {} |-> 0]
    <3>2. Weighs(w, {})
      BY DEF Weighs
    <3>3. SumOf({}) = Sigma({}, w) /\ Sigma({}, w) = 0
      BY <3>1, <3>2, SumOfIs, SigmaFacts
    <3> QED BY <3>1, <3>3
  <2>2. WalletInv
    BY <2>1 DEF HistoryInit, WalletInv, Onchain
  <2>3. DepositInv
    BY DEF HistoryInit, DepositInv, Output, HasOutput
  <2> QED BY <2>2, <2>3 DEF HistoryInit, LedgerInv, HistoryIInv, BookInv
<1>2. LedgerInv /\ HistoryIInv' /\ [HistoryNext]_historyVars => LedgerInv'
  <2> SUFFICES ASSUME LedgerInv, HistoryIInv', [HistoryNext]_historyVars PROVE LedgerInv'
    OBVIOUS
  <2>1. BookInv'
    <3>1. ASSUME UNCHANGED <<lnd, app>>, pay' \in {"no", "lnd", "both"} PROVE BookInv'
      BY <3>1 DEF LedgerInv, BookInv
    <3>2. ASSUME NEW t, NEW enough, WalletTx(t, enough) PROVE BookInv'
      BY <3>1, <3>2 DEF WalletTx, LedgerInv, BookInv
    <3>3. ASSUME NEW c \in Chan, Closing(c) \/ ForceMined(c) \/ LndCloses(c) \/ AppRecordsClose(c) \/ Prune(c)
          PROVE  BookInv'
      BY <3>3 DEF Closing, ForceMined, LndCloses, AppRecordsClose, Prune, LedgerInv, BookInv, HistoryIInv
    <3>4. ASSUME NEW d \in Swap, Fund(d) \/ Record(d) \/ Spend(d) PROVE BookInv'
      BY <3>1, <3>2, <3>4 DEF Fund, Record, Spend, LedgerInv, BookInv
    <3> QED BY <3>1, <3>2, <3>3, <3>4
        DEF HistoryNext, historyVars, CloseSeen, SweepSeen, Plain, Pay, LedgerInv, BookInv
  <2>2. WalletInv' /\ DepositInv'
    <3>1. ASSUME UNCHANGED <<coop, txs, log>> PROVE WalletInv' /\ DepositInv'
      BY <3>1, WalletStays, DepositsStay DEF LedgerInv
    <3> QED BY <3>1, CloseStep, FundStep, RecordStep, SpendStep
        DEF HistoryNext, historyVars, Closing, ForceMined, LndCloses, AppRecordsClose, Prune, Pay
  <2> QED BY <2>1, <2>2 DEF LedgerInv
<1> QED BY <1>1, <1>2, SpecHistoryIInv, PTL DEF HistorySpec

-----------------------------------------------------------------------------
(* The ledger adds up.                                                     *)

\* Outputs of deposits with a record each, none with two.
PairingsOf(T, l) ==
  {m \in UNION {[D -> RecordedIn(l)] : D \in SUBSET {d \in Swap : HasOutput(T, d)}} :
     \A x, y \in DOMAIN m : m[x] = m[y] => x = y}

LEMMA NearestIs ==
  ASSUME NEW l \in Seq({"fund", "record"} \X Swap), NEW k \in DOMAIN l,
         NEW D \in SUBSET RecordedIn(l), D # {}
  PROVE  Nearest(l, l[k], D) \in D
<1> DEFINE away(r) == Away(l, l[k], r)
           S == {away(r) : r \in D}
<1>1. \A r \in D : away(r) \in Nat
  <2> SUFFICES ASSUME NEW r \in D PROVE away(r) \in Nat
    OBVIOUS
  <2>1. \E n \in DOMAIN l : l[n] = <<"record", r>>
    BY DEF RecordedIn, ToSet
  <2>2. TimeOf(l, <<"record", r>>) \in DOMAIN l /\ TimeOf(l, l[k]) \in DOMAIN l
    BY <2>1 DEF TimeOf
  <2>3. After(l, l[k], r) \in Int
    BY <2>2 DEF After
  <2> QED BY <2>3 DEF Away
<1>2. S \subseteq Nat /\ S # {}
  BY <1>1
<1>3. \E r \in D : \A s \in D : away(r) <= away(s)
  <2>1. Min(S) \in S /\ \A x \in S : Min(S) <= x
    <3> HIDE DEF S
    <3> QED BY <1>2, MinOf
  <2>2. PICK r \in D : Min(S) = away(r)
    BY <2>1
  <2> HIDE DEF away
  <2> QED BY <2>1, <2>2
<1> QED BY <1>3 DEF Nearest

LEMMA PairingIs ==
  ASSUME NEW T, NEW l \in Seq({"fund", "record"} \X Swap)
  PROVE  Pairing(T, l) \in PairingsOf(T, l)
<1> DEFINE n == Len(l)
           R == PairingsOf(T, l)
           none == [x \in {} |-> 0]
           pair(m, e) ==
             IF e[1] = "fund" /\ HasOutput(T, e[2]) /\ Free(l, e, m) # {}
             THEN [x \in DOMAIN m \cup {e[2]} |-> IF x = e[2] THEN Nearest(l, e, Free(l, e, m)) ELSE m[x]]
             ELSE m
           step(m, k) == pair(m, l[k])
           folds(f) == f = [u \in SUBSET (1..n) |-> IF u = {} THEN none ELSE step(f[u \ {Max(u)}], Max(u))]
           f == CHOOSE x : folds(x)
<1>1. n \in Nat /\ DOMAIN l = 1..n /\ \A k \in 1..n : l[k] \in {"fund", "record"} \X Swap
  OBVIOUS
<1>2. Pairing(T, l) = f[1..n]
  BY <1>1 DEF Pairing, FoldLeft, MapThenFoldSet
<1>3. none \in R
  <2>1. none \in [{} -> RecordedIn(l)]
    OBVIOUS
  <2> QED BY <2>1 DEF PairingsOf
<1>4. ASSUME NEW m \in R, NEW k \in 1..n, NEW e, e = l[k] PROVE pair(m, e) \in R
  <2>1. CASE e[1] = "fund" /\ HasOutput(T, e[2]) /\ Free(l, e, m) # {}
    <3> DEFINE r == Nearest(l, e, Free(l, e, m))
               D == DOMAIN m \cup {e[2]}
               q == [x \in D |-> IF x = e[2] THEN r ELSE m[x]]
    <3>1. pair(m, e) = q
      BY <2>1
    <3>2. r \in Free(l, e, m)
      <4>1. Free(l, e, m) \in SUBSET RecordedIn(l) /\ k \in DOMAIN l
        BY <1>1 DEF Free
      <4> QED BY <1>4, <2>1, <4>1, NearestIs
    <3>3. r \in RecordedIn(l) /\ \A x \in DOMAIN m : m[x] # r
      BY <3>2 DEF Free
    <3>4. D \in SUBSET {d \in Swap : HasOutput(T, d)} /\ \A x \in DOMAIN m : m[x] \in RecordedIn(l)
      BY <1>1, <1>4, <2>1 DEF PairingsOf
    <3> HIDE DEF r
    <3>5. q \in [D -> RecordedIn(l)]
      BY <3>3, <3>4
    <3>6. \A x, y \in DOMAIN q : q[x] = q[y] => x = y
      BY <3>3 DEF PairingsOf
    <3> HIDE DEF q, D, pair
    <3>7. q \in R
      BY <3>4, <3>5, <3>6 DEF PairingsOf
    <3> QED BY <3>1, <3>7
  <2>2. CASE ~(e[1] = "fund" /\ HasOutput(T, e[2]) /\ Free(l, e, m) # {})
    BY <2>2
  <2> QED BY <2>1, <2>2
<1>5. \A m \in R, k \in 1..n : step(m, k) \in R
  BY <1>1, <1>4
<1> HIDE DEF step, R, none
<1>6. folds(f)
  <2> DEFINE F == [p \in (1..n) \X R |-> step(p[2], p[1])]
  <2>1. F \in [(1..n) \X R -> R]
    BY <1>5
  <2>2. PICK g : FoldsTo(g, n, R, none, F)
    <3> HIDE DEF F, n
    <3> QED BY <1>1, <1>3, <2>1, FoldSolution
  <2>3. ASSUME NEW u \in SUBSET (1..n), u # {} PROVE g[u] = step(g[u \ {Max(u)}], Max(u))
    <3>1. Max(u) \in 1..n
      BY <1>1, <2>3, MaxOf
    <3>2. g[u \ {Max(u)}] \in R
      BY <2>2 DEF FoldsTo
    <3>3. F[<<Max(u), g[u \ {Max(u)}]>>] = step(g[u \ {Max(u)}], Max(u))
      BY <3>1, <3>2
    <3> QED BY <2>2, <2>3, <3>3 DEF FoldsTo
  <2>4. g[{}] = none /\ g \in [SUBSET (1..n) -> R]
    BY <2>2 DEF FoldsTo
  <2>5. folds(g)
    BY <2>3, <2>4
  <2> HIDE DEF folds
  <2> QED BY <2>5
<1> HIDE DEF f, n
<1> DEFINE S == {k \in Nat : f[1..k] \in R}
<1>7. 0 \in S
  BY <1>3, <1>6
<1>8. ASSUME NEW k \in 0..(n - 1), k \in S PROVE k + 1 \in S
  <2>1. k + 1 \in 1..n
    BY <1>1
  <2>2. f[1..(k + 1)] = step(f[1..k], k + 1)
    <3>1. /\ 1..(k + 1) # {} /\ 1..(k + 1) \in SUBSET (1..n) /\ Max(1..(k + 1)) = k + 1
          /\ (1..(k + 1)) \ {k + 1} = 1..k
      <4>1. (k + 1) - 1 = k
        OBVIOUS
      <4> QED BY <1>1, <2>1, <4>1, Prefix
    <3> QED BY <1>6, <3>1
  <2> QED BY <1>5, <1>8, <2>1, <2>2
<1>9. n \in S
  <2>1. \A k \in 0..(n - 1) : k \in S => k + 1 \in S
    BY <1>8
  <2>2. n \in 0..n
    BY <1>1
  <2> HIDE DEF S
  <2> QED BY <1>1, <1>7, <2>1, <2>2, UpTo
<1> QED BY <1>2, <1>9 DEF R

\* What a transaction of the wallet is of.
LEMMA KindsAre ==
  ASSUME NEW t, OfWallet(t)
  PROVE  /\ t = Tx(t.what, t.of)
         /\ t.what \in {"coop", "sweep", "in", "out", "self", "fund", "own", "claim", "refund", "back"}
         /\ t.what = "coop" => \E c \in coop : t.of = {c}
         /\ t.what = "sweep" => t.of \subseteq Chan \ coop /\ t.of # {}
         /\ t.what \in {"in", "out", "self"} => t.of = {}
         /\ t.what \in {"fund", "own", "claim", "refund", "back"} => \E d \in Swap : t.of = {d}
<1>1. \A w, X : Tx(w, X).what = w /\ Tx(w, X).of = X
  BY DEF Tx
<1>2. CASE \E c \in coop : t = Coop(c)
  BY <1>1, <1>2 DEF Coop
<1>3. CASE \E B \in SUBSET (Chan \ coop) : B # {} /\ t = SweepTx(B)
  BY <1>1, <1>3 DEF SweepTx
<1>4. CASE \E w \in {"in", "out", "self"} : t = Tx(w, {})
  BY <1>1, <1>4
<1>5. CASE \E w \in {"fund", "own"} \cup Spends : \E d \in Swap : t = Tx(w, {d})
  BY <1>1, <1>5 DEF Spends
<1> QED BY <1>2, <1>3, <1>4, <1>5 DEF OfWallet

\* Every close that came is listed, and no other money of a channel is in
\* two places.
LEMMA ClosesListed ==
  ASSUME LedgerInv, Settled
  PROVE  /\ Arrived \subseteq Closed /\ Closed \subseteq Chan
         /\ Collected = {t \in txs : t.what = "sweep"}
         /\ OfCloses = {t \in txs : t.what \in {"coop", "sweep"}}
         /\ {c \in Closed : ~Direct(c) /\ SweepsOf(c) = {}} = Closed \ Arrived
         /\ {c \in Chan \ Arrived : lnd[c] \in {"open", "waiting", "force"}} = Chan \ Closed
<1> USE DEF LedgerInv
<1>1. \A t \in txs : /\ t.what = "coop" => \E c \in coop : t = Coop(c) /\ t.of = {c}
                     /\ t.what = "sweep" => t.of \subseteq Chan \ coop /\ t.of # {}
  BY KindsAre DEF WalletInv, Coop
<1>2. \A c : Coop(c) \in txs => c \in coop /\ c \in Arrived
  <2>1. \A c : Coop(c).what = "coop" /\ Coop(c).of = {c}
    BY DEF Coop, Tx
  <2> QED BY <1>1, <2>1 DEF Arrived
<1>3. \A c \in Arrived : c \in Chan /\ lnd[c] \in {"closed", "pruned"}
  BY <1>1 DEF Settled, Arrived, WalletInv
<1>4. Arrived \subseteq Closed /\ Closed \subseteq Chan
  BY <1>3 DEF Closed, BookInv
<1>5. \A c : SweepsOf(c) = {t \in txs : t.what = "sweep" /\ c \in t.of}
  BY <1>1, <1>2 DEF SweepsOf, Direct
<1>6. \A t \in txs : t.what \in {"coop", "sweep"} => t.of \subseteq Closed
  BY <1>4 DEF Arrived
<1>7. Collected = {t \in txs : t.what = "sweep"}
  <2>1. \A t \in txs : t.what = "sweep" => \E c \in Closed : t \in SweepsOf(c)
    BY <1>1, <1>5, <1>6
  <2> QED BY <1>5, <2>1 DEF Collected
<1>8. OfCloses = {t \in txs : t.what \in {"coop", "sweep"}}
  BY <1>6, <1>7 DEF OfCloses
<1>9. {c \in Closed : ~Direct(c) /\ SweepsOf(c) = {}} = Closed \ Arrived
  <2>1. \A c \in Closed : ~Direct(c) /\ SweepsOf(c) = {} <=> c \notin Arrived
    BY <1>1, <1>2, <1>5 DEF Arrived, Direct
  <2> QED BY <2>1
<1>10. {c \in Chan \ Arrived : lnd[c] \in {"open", "waiting", "force"}} = Chan \ Closed
  <2>1. \A c \in Chan : lnd[c] \in {"open", "waiting", "force"} <=> c \notin Closed
    BY DEF Closed, BookInv, HistoryIInv, Settled, Pending
  <2> QED BY <1>3, <2>1
<1> QED BY <1>4, <1>7, <1>8, <1>9, <1>10

\* Nothing listed about the closes changes what is held but the fees of the
\* sweeps, and they are what is missing of the closes' money.
LEMMA ClosesSum ==
  ASSUME LedgerInv, Settled,
         NEW w, \A e \in CloseEntries \cup PendingEntries : w[e] = Counts(e),
         NEW a, \A t \in txs : a[t] = Amount(t)
  PROVE  LET S == CloseEntries \cup PendingEntries
         IN  /\ IsFiniteSet(S) /\ Weighs(w, S) /\ Sigma(S, w) \in Int
             /\ Sigma(OfCloses, a) = Bal * Cardinality(Arrived) + Sigma(S, w)
<1> DEFINE Sweeps == {t \in txs : t.what = "sweep"}
           Coops == {t \in txs : t.what = "coop"}
           C == {Entry("close", {c}, 0, 0, FALSE) : c \in Closed}
           P == {Entry("pending", {c}, 0, 0, FALSE) : c \in Pending}
           K == {Entry("collected", t.of, 0, CollectedFee(t), FALSE) : t \in Sweeps}
<1>1. /\ IsFiniteSet(txs) /\ IsFiniteSet(Sweeps) /\ IsFiniteSet(Coops)
      /\ IsFiniteSet(Closed) /\ IsFiniteSet(Pending)
  <2>1. Sweeps \subseteq txs /\ Coops \subseteq txs /\ Closed \subseteq Chan /\ Pending \subseteq Chan
    BY DEF Closed, Pending
  <2> HIDE DEF Sweeps, Coops
  <2> QED BY <2>1, AmountsAssumption, FS_Subset DEF LedgerInv, WalletInv
<1>2. /\ CloseEntries = C \cup K /\ PendingEntries = P /\ OfCloses = Coops \cup Sweeps
      /\ Coops \cap Sweeps = {} /\ Arrived \subseteq Closed
  BY ClosesListed DEF CloseEntries, PendingEntries
<1>3. /\ \A e \in C : w[e] = 0 /\ e.by = "close"
      /\ \A e \in P : w[e] = 0 /\ e.by = "pending"
      /\ \A e \in K : e.by = "collected"
  BY <1>2 DEF Counts, Entry
<1>4. ASSUME NEW t \in Sweeps
      PROVE  /\ t = Tx("sweep", t.of) /\ t.of \subseteq Closed /\ t.of # {}
             /\ Amount(t) \in Int /\ Amount(t) = Bal * Cardinality(t.of) - Fee
             /\ CollectedFee(t) = Fee
             /\ IsFiniteSet(t.of) /\ Cardinality(t.of) \in Nat
  <2>1. OfWallet(t) /\ t.what = "sweep" /\ coop \subseteq Chan
    BY DEF LedgerInv, WalletInv
  <2>2. t.of \subseteq Closed
    BY <1>2, <2>1 DEF Arrived
  <2>3. IsFiniteSet(t.of) /\ Cardinality(t.of) \in Nat
    BY <1>1, <2>2, FS_Subset, FS_CardinalityType
  <2>4. Amount(t) \in Int /\ Amount(t) = Bal * Cardinality(t.of) - Fee
    BY <2>1, AmountIs
  <2>5. Bal * Cardinality(t.of) \in Int
    BY <2>3, AmountsAssumption
  <2>6. CollectedFee(t) = Fee
    BY <2>2, <2>4, <2>5, AmountsAssumption DEF CollectedFee
  <2> QED BY <2>1, <2>2, <2>3, <2>4, <2>6, KindsAre
<1>5. ASSUME NEW t \in Coops
      PROVE  Amount(t) = Bal /\ IsFiniteSet(t.of) /\ Cardinality(t.of) = 1 /\ t.of \subseteq coop
  <2>1. t.what = "coop" /\ OfWallet(t)
    BY DEF LedgerInv, WalletInv
  <2>2. PICK c \in coop : t.of = {c}
    BY <2>1, KindsAre
  <2> QED BY <2>1, <2>2, FS_Singleton DEF Amount
<1> DEFINE fees == [t \in Sweeps |-> -CollectedFee(t)]
           rest == [t \in txs |-> IF t.what = "sweep" THEN -CollectedFee(t) ELSE 0]
           sets == [t \in txs |-> Bal * Cardinality(t.of)]
           flat == [c \in Arrived |-> Bal]
           parts == [t \in txs |-> t.of]
<1>6. IsFiniteSet(K) /\ Sigma(K, w) = Sigma(Sweeps, fees) /\ Weighs(w, K)
  <2> DEFINE h == [t \in Sweeps |-> Entry("collected", t.of, 0, CollectedFee(t), FALSE)]
  <2>1. \A s, t \in Sweeps : h[s] = h[t] => s = t
    <3> SUFFICES ASSUME NEW s \in Sweeps, NEW t \in Sweeps, h[s] = h[t] PROVE s = t
      OBVIOUS
    <3>1. s.of = t.of
      BY DEF Entry
    <3>2. s = Tx("sweep", s.of) /\ t = Tx("sweep", t.of)
      BY <1>4
    <3> QED BY <3>1, <3>2
  <2>2. \A t \in Sweeps : w[h[t]] = fees[t]
    <3> SUFFICES ASSUME NEW t \in Sweeps PROVE w[h[t]] = fees[t]
      OBVIOUS
    <3>1. h[t] \in CloseEntries
      BY <1>2
    <3>2. w[h[t]] = 0 - CollectedFee(t)
      BY <3>1 DEF Counts, Entry
    <3>3. CollectedFee(t) \in Int
      BY <1>4, AmountsAssumption
    <3> QED BY <3>2, <3>3
  <2>3. Weighs(fees, Sweeps)
    BY <1>4, AmountsAssumption DEF Weighs
  <2>4. K = {h[t] : t \in Sweeps}
    OBVIOUS
  <2> HIDE DEF h, fees, Sweeps, K
  <2>5. Carries(h, Sweeps, fees, w)
    BY <2>1, <2>2 DEF Carries
  <2>6. LET S == {h[t] : t \in Sweeps} IN IsFiniteSet(S) /\ Weighs(w, S) /\ Sigma(S, w) = Sigma(Sweeps, fees)
    BY <1>1, <2>3, <2>5, SigmaMaps
  <2> QED BY <2>4, <2>6, Zenon
<1>7. IsFiniteSet(C) /\ IsFiniteSet(P) /\ Sigma(C, w) = 0 /\ Sigma(P, w) = 0
  <2>1. IsFiniteSet(C)
    <3> DEFINE h == [c \in Closed |-> Entry("close", {c}, 0, 0, FALSE)]
    <3>1. h \in Surjection(Closed, C)
      BY DEF Surjection
    <3> HIDE DEF h, C
    <3> QED BY <1>1, <3>1, FS_Surjection
  <2>2. IsFiniteSet(P)
    <3> DEFINE h == [c \in Pending |-> Entry("pending", {c}, 0, 0, FALSE)]
    <3>1. h \in Surjection(Pending, P)
      BY DEF Surjection
    <3> HIDE DEF h, P
    <3> QED BY <1>1, <3>1, FS_Surjection
  <2> HIDE DEF C, P
  <2>3. Sigma(C, w) = 0 * Cardinality(C) /\ Sigma(P, w) = 0 * Cardinality(P)
    BY <1>3, <2>1, <2>2, SigmaCount
  <2>4. Cardinality(C) \in Nat /\ Cardinality(P) \in Nat
    BY <2>1, <2>2, FS_CardinalityType
  <2> QED BY <2>1, <2>2, <2>3, <2>4
<1>8. LET S == CloseEntries \cup PendingEntries
      IN  IsFiniteSet(S) /\ Weighs(w, S) /\ Sigma(S, w) = Sigma(Sweeps, fees) /\ Sigma(S, w) \in Int
  <2> HIDE DEF C, K, P
  <2>1. Weighs(w, C) /\ Weighs(w, P) /\ C \cap K = {} /\ (C \cup K) \cap P = {}
    BY <1>3 DEF Weighs
  <2>2. Weighs(w, C \cup K) /\ Weighs(w, (C \cup K) \cup P)
    BY <1>6, <2>1 DEF Weighs
  <2>3. IsFiniteSet(C \cup K) /\ IsFiniteSet((C \cup K) \cup P)
    BY <1>6, <1>7, FS_Union
  <2>4. Sigma(C \cup K, w) = Sigma(C, w) + Sigma(K, w) /\ Sigma(K, w) \in Int
    <3>1. IsFiniteSet(C) /\ IsFiniteSet(K) /\ C \cap K = {} /\ Weighs(w, C \cup K)
      BY <1>6, <1>7, <2>1, <2>2
    <3>2. Sigma(K, w) \in Int
      BY <3>1, SigmaUnion
    <3>3. Sigma(C \cup K, w) = Sigma(C, w) + Sigma(K, w)
      BY <3>1, SigmaUnion
    <3> QED BY <3>2, <3>3
  <2>5. Sigma((C \cup K) \cup P, w) = Sigma(C \cup K, w) + Sigma(P, w)
    BY <1>7, <2>1, <2>2, <2>3, SigmaUnion
  <2>6. CloseEntries \cup PendingEntries = (C \cup K) \cup P
    BY <1>2
  <2>7. /\ Sigma((C \cup K) \cup P, w) = Sigma(Sweeps, fees)
        /\ Sigma((C \cup K) \cup P, w) \in Int
    BY <1>6, <1>7, <2>4, <2>5
  <2> QED BY <2>2, <2>3, <2>6, <2>7, Zenon
<1> HIDE DEF C, K, P
<1>9. Sigma(OfCloses, sets) = Bal * Cardinality(Arrived)
  <2>1. \A s, t \in OfCloses : s # t => parts[s] \cap parts[t] = {}
    <3>1. \A s, t \in Coops : s # t => s.of \cap t.of = {}
      <4>1. \A t \in Coops : t.what = "coop" /\ t = Tx("coop", t.of) /\ \E c \in coop : t.of = {c}
        BY KindsAre DEF LedgerInv, WalletInv
      <4> QED BY <4>1
    <3>2. \A s \in Coops, t \in Sweeps : s.of \cap t.of = {}
      <4>1. \A t \in Sweeps : t.of \cap coop = {}
        BY KindsAre DEF LedgerInv, WalletInv
      <4> QED BY <1>5, <4>1
    <3>3. \A s, t \in Sweeps : s # t => s.of \cap t.of = {}
      BY DEF LedgerInv, WalletInv
    <3> QED BY <1>2, <3>1, <3>2, <3>3
  <2>2. \A t \in OfCloses : IsFiniteSet(parts[t]) /\ Cardinality(parts[t]) \in Nat
    BY <1>2, <1>4, <1>5
  <2>3. Arrived = UNION {parts[t] : t \in OfCloses}
    BY <1>2 DEF Arrived
  <2>4. \A t \in OfCloses : Weighs(flat, parts[t]) /\ \A c \in parts[t] : flat[c] = Bal
    <3>1. \A t \in OfCloses : \A c \in parts[t] : c \in Arrived
      BY <2>3
    <3>2. \A c \in Arrived : flat[c] = Bal /\ flat[c] \in Int
      BY AmountsAssumption
    <3> HIDE DEF flat, parts
    <3> QED BY <3>1, <3>2 DEF Weighs
  <2>5. \A t \in OfCloses : sets[t] = Sigma(parts[t], flat)
    <3> SUFFICES ASSUME NEW t \in OfCloses PROVE sets[t] = Sigma(parts[t], flat)
      OBVIOUS
    <3>1. sets[t] = Bal * Cardinality(parts[t]) /\ Bal \in Int
      BY <1>2, AmountsAssumption
    <3> HIDE DEF sets, parts, flat
    <3>2. Sigma(parts[t], flat) = Bal * Cardinality(parts[t])
      BY <2>2, <2>4, <3>1, SigmaCount
    <3> QED BY <3>1, <3>2
  <2>6. IsFiniteSet(OfCloses)
    BY <1>1, <1>2, FS_Union
  <2>7. \A c \in Arrived : flat[c] = Bal
    OBVIOUS
  <2> HIDE DEF sets, parts, flat
  <2>8. /\ IsFiniteSet(UNION {parts[t] : t \in OfCloses})
        /\ Sigma(UNION {parts[t] : t \in OfCloses}, flat) = Sigma(OfCloses, sets)
    <3>1. Grouped(parts, OfCloses, flat, sets)
      BY <2>1, <2>2, <2>4, <2>5 DEF Grouped
    <3>2. IsFiniteSet(UNION {parts[t] : t \in OfCloses})
      BY <2>6, <3>1, SigmaGroups
    <3>3. Sigma(UNION {parts[t] : t \in OfCloses}, flat) = Sigma(OfCloses, sets)
      BY <2>6, <3>1, SigmaGroups, ZenonT(30)
    <3> QED BY <3>2, <3>3
  <2>9. Sigma(Arrived, flat) = Sigma(OfCloses, sets) /\ IsFiniteSet(Arrived)
    BY <2>3, <2>8, Zenon
  <2>10. Sigma(Arrived, flat) = Bal * Cardinality(Arrived)
    BY <2>7, <2>9, AmountsAssumption, SigmaCount
  <2> QED BY <2>9, <2>10
<1>10. Sigma(OfCloses, rest) = Sigma(Sweeps, fees)
  <2>1. /\ \A t \in Coops : rest[t] = 0
        /\ \A t \in Sweeps : rest[t] = fees[t] /\ fees[t] \in Int
    BY <1>4, AmountsAssumption
  <2> HIDE DEF rest, fees, Coops, Sweeps
  <2>2. Weighs(rest, Coops \cup Sweeps) /\ Weighs(rest, Sweeps) /\ Weighs(fees, Sweeps)
    BY <2>1 DEF Weighs
  <2>3. Sigma(Coops \cup Sweeps, rest) = Sigma(Coops, rest) + Sigma(Sweeps, rest) /\ Sigma(Sweeps, rest) \in Int
    BY <1>1, <1>2, <2>2, SigmaUnion
  <2>4. Sigma(Coops, rest) = 0
    <3>1. Sigma(Coops, rest) = 0 * Cardinality(Coops)
      BY <1>1, <2>1, SigmaCount
    <3> QED BY <1>1, <3>1, FS_CardinalityType
  <2>5. Sigma(Sweeps, rest) = Sigma(Sweeps, fees)
    BY <1>1, <2>1, <2>2, SigmaSame
  <2>6. Sigma(OfCloses, rest) = Sigma(Coops \cup Sweeps, rest)
    BY <1>2, Zenon
  <2> QED BY <2>3, <2>4, <2>5, <2>6
<1>11. Sigma(OfCloses, a) = Sigma(OfCloses, sets) + Sigma(OfCloses, rest)
  <2>1. \A t \in OfCloses : sets[t] \in Int /\ rest[t] \in Int /\ a[t] = sets[t] + rest[t]
    <3>1. ASSUME NEW t \in Coops PROVE sets[t] \in Int /\ rest[t] \in Int /\ a[t] = sets[t] + rest[t]
      BY <1>5, AmountsAssumption
    <3>2. ASSUME NEW t \in Sweeps PROVE sets[t] \in Int /\ rest[t] \in Int /\ a[t] = sets[t] + rest[t]
      <4>1. sets[t] = Bal * Cardinality(t.of) /\ rest[t] = -Fee /\ a[t] = Bal * Cardinality(t.of) - Fee
        BY <1>4
      <4>2. Bal * Cardinality(t.of) \in Int
        BY <1>4, AmountsAssumption
      <4> QED BY <4>1, <4>2, AmountsAssumption
    <3> QED BY <1>2, <3>1, <3>2
  <2>2. IsFiniteSet(OfCloses)
    BY <1>1, <1>2, FS_Union
  <2> HIDE DEF sets, rest
  <2> QED BY <2>1, <2>2, SigmaPlus
<1> QED BY <1>8, <1>9, <1>10, <1>11

\* What an output and what came after it are worth.
MovedBy(d) == {t \in txs : t.what \in {"fund", "own", "claim", "refund"} /\ t.of = {d}}

LEMMA MovedSum ==
  ASSUME LedgerInv, NEW d \in Swap, Output(d), NEW a, \A t \in txs : a[t] = Amount(t)
  PROVE  LET gone == \E t \in txs : t.what \in {"refund", "claim"} /\ t.of = {d}
         IN  /\ IsFiniteSet(MovedBy(d)) /\ Weighs(a, MovedBy(d))
             /\ Sigma(MovedBy(d), a) = (IF Own(d) THEN -Fee ELSE SwapAmt) + (IF gone THEN -SwapAmt ELSE 0)
<1> DEFINE in == IF Own(d) THEN Tx("own", {d}) ELSE Tx("fund", {d})
           Gone == {t \in txs : t.what \in {"refund", "claim"} /\ t.of = {d}}
<1>0. \A w, X : Tx(w, X).what = w /\ Tx(w, X).of = X
  BY DEF Tx
<1>1. \A t \in txs : t = Tx(t.what, t.of)
  BY KindsAre DEF LedgerInv, WalletInv
<1>2. /\ in \in txs /\ in.what \in {"own", "fund"} /\ in.of = {d}
      /\ Amount(in) = IF Own(d) THEN -Fee ELSE SwapAmt
  BY <1>0 DEF Output, HasOutput, Own, Amount
<1>3. \A t \in txs : t.what \in {"own", "fund"} /\ t.of = {d} => t = in
  <2> SUFFICES ASSUME NEW t \in txs, t.what \in {"own", "fund"}, t.of = {d} PROVE t = in
    OBVIOUS
  <2>1. ~(Tx("fund", {d}) \in txs /\ Tx("own", {d}) \in txs)
    BY DEF LedgerInv, DepositInv
  <2>2. t = Tx("own", {d}) \/ t = Tx("fund", {d})
    BY <1>1
  <2> QED BY <2>1, <2>2 DEF Own
<1>4. \A s, t \in Gone : s = t
  <2> SUFFICES ASSUME NEW s \in Gone, NEW t \in Gone PROVE s = t
    OBVIOUS
  <2>1. s = Tx(s.what, {d}) /\ t = Tx(t.what, {d}) /\ s.what \in Spends /\ t.what \in Spends
    BY <1>1 DEF Spends
  <2>2. s.what = t.what
    BY <2>1 DEF LedgerInv, DepositInv
  <2> QED BY <2>1, <2>2
<1> HIDE DEF in
<1>5. MovedBy(d) = {in} \cup Gone /\ {in} \cap Gone = {}
  BY <1>2, <1>3 DEF MovedBy
<1>6. Amount(in) \in Int /\ \A t \in Gone : Amount(t) = -SwapAmt
  BY <1>2, AmountsAssumption DEF Amount
<1>7. a[in] = Amount(in) /\ a[in] \in Int /\ \A t \in Gone : a[t] = -SwapAmt /\ a[t] \in Int
  BY <1>2, <1>6, AmountsAssumption
<1>8. \/ Gone = {}
      \/ \E t \in Gone : Gone = {t}
  BY <1>4
<1>9. IsFiniteSet({in}) /\ IsFiniteSet(Gone) /\ IsFiniteSet({in} \cup Gone)
  <2> HIDE DEF Gone
  <2>1. IsFiniteSet(Gone)
    <3>1. IsFiniteSet({}) /\ \A t : IsFiniteSet({t})
      BY FS_EmptySet, FS_Singleton
    <3> QED BY <1>8, <3>1, Zenon
  <2> QED BY <2>1, FS_Singleton, FS_Union
<1> HIDE DEF Gone
<1>10. Weighs(a, {in} \cup Gone) /\ Weighs(a, Gone)
  BY <1>7 DEF Weighs
<1>11. Sigma({in} \cup Gone, a) = Sigma({in}, a) + Sigma(Gone, a)
  BY <1>5, <1>9, <1>10, SigmaUnion
<1>12. Sigma({in}, a) = Amount(in)
  BY <1>7, SigmaOne
<1>13. Sigma(Gone, a) = IF Gone # {} THEN -SwapAmt ELSE 0
  <2>1. CASE Gone = {}
    <3>1. Sigma({}, a) = 0
      BY <1>9, <1>10, SigmaFacts
    <3>2. Sigma(Gone, a) = Sigma({}, a)
      BY <2>1, Zenon
    <3> QED BY <2>1, <3>1, <3>2
  <2>2. ASSUME NEW t \in Gone, Gone = {t} PROVE Sigma(Gone, a) = -SwapAmt
    <3>1. Sigma({t}, a) = -SwapAmt
      BY <1>7, SigmaOne
    <3>2. Sigma(Gone, a) = Sigma({t}, a)
      BY <2>2, Zenon
    <3> QED BY <3>1, <3>2
  <2> QED BY <1>8, <2>1, <2>2
<1>14. Gone # {} <=> \E t \in txs : t.what \in {"refund", "claim"} /\ t.of = {d}
  BY DEF Gone
<1>15. Sigma({in} \cup Gone, a) = (IF Own(d) THEN -Fee ELSE SwapAmt) + (IF Gone # {} THEN -SwapAmt ELSE 0)
  BY <1>2, <1>11, <1>12, <1>13
<1>16. Sigma(MovedBy(d), a) = Sigma({in} \cup Gone, a) /\ IsFiniteSet(MovedBy(d)) /\ Weighs(a, MovedBy(d))
  BY <1>5, <1>9, <1>10, Zenon
<1> QED BY <1>14, <1>15, <1>16

\* The entries of an output say the same, and that what was swapped in is in
\* a channel.
LEMMA OutputSum ==
  ASSUME LedgerInv, Settled, NEW d \in Swap, Output(d), NEW a, \A t \in txs : a[t] = Amount(t),
         NEW w, \A e \in OutputEntries(d) : w[e] = Counts(e)
  PROVE  /\ IsFiniteSet(OutputEntries(d)) /\ Weighs(w, OutputEntries(d))
         /\ Sigma(OutputEntries(d), w) = Sigma(MovedBy(d), a) + (IF d \in DOMAIN Paired THEN Into ELSE 0)
<1> DEFINE Gone == {t \in txs : t.what \in {"refund", "claim"} /\ t.of = {d}}
           in == IF Own(d) THEN -Fee ELSE SwapAmt
           gone == IF Gone # {} THEN -SwapAmt ELSE 0
<1>1. Sigma(MovedBy(d), a) = in + gone
  BY MovedSum
<1>2. ASSUME d \in DOMAIN Paired PROVE Gone # {}
  <2>1. d \in Recorded /\ Spent(d)
    BY <1>2 DEF Settled
  <2>2. PICK t \in txs : t.what \in Spends /\ t.of = {d}
    BY <2>1 DEF Spent, Spends
  <2>3. t = Tx(t.what, {d})
    BY <2>2, KindsAre DEF LedgerInv, WalletInv
  <2>4. t.what = "claim"
    BY <2>1, <2>2, <2>3 DEF LedgerInv, DepositInv
  <2> QED BY <2>2, <2>4
<1>3. /\ Into \in Int /\ SwapAmt \in Int /\ Fee \in Nat /\ SwapAmt > 0 /\ Into = SwapAmt - SwapFee
      /\ SwapFee \in Int
  BY AmountsAssumption DEF Into
<1>4. CASE d \in DOMAIN Paired
  <2> DEFINE e == IF Own(d) THEN Entry("deposit", {d}, 0, SwapAmt - Into + Fee, FALSE)
                  ELSE Entry("deposit", {d}, Into, SwapFee, TRUE)
  <2>1. OutputEntries(d) = {e}
    BY <1>4 DEF OutputEntries
  <2>2. Counts(e) = in - SwapAmt + Into /\ Counts(e) \in Int
    BY <1>3 DEF Counts, Entry
  <2>3. w[e] = Counts(e)
    BY <2>1
  <2> HIDE DEF e
  <2>4. IsFiniteSet({e}) /\ Weighs(w, {e}) /\ Sigma({e}, w) = in - SwapAmt + Into
    BY <2>2, <2>3, FS_Singleton, SigmaOne DEF Weighs
  <2>5. /\ IsFiniteSet(OutputEntries(d)) /\ Weighs(w, OutputEntries(d))
        /\ Sigma(OutputEntries(d), w) = Sigma({e}, w)
    BY <2>1, <2>4, Zenon
  <2> QED BY <1>1, <1>2, <1>3, <1>4, <2>4, <2>5
<1>5. CASE d \notin DOMAIN Paired
  <2> DEFINE e == IF Own(d) THEN Entry("output", {d}, 0, Fee, FALSE)
                  ELSE Entry("output", {d}, SwapAmt, 0, FALSE)
             r == Entry("refund", {d}, -SwapAmt, Fee, FALSE)
             R == {x \in {r} : Gone # {}}
  <2>1. OutputEntries(d) = {e} \cup R
    BY <1>5 DEF OutputEntries
  <2>2. Counts(e) = in /\ Counts(e) \in Int /\ Counts(r) = -SwapAmt
    BY <1>3 DEF Counts, Entry
  <2>3. w[e] = Counts(e) /\ \A x \in R : w[x] = -SwapAmt
    BY <2>1, <2>2
  <2>4. e.by = "output" /\ r.by = "refund"
    BY DEF Entry
  <2>5. {e} \cap R = {}
    BY <2>4
  <2>6. IsFiniteSet({e}) /\ IsFiniteSet(R) /\ IsFiniteSet({e} \cup R)
    <3>1. IsFiniteSet({e}) /\ IsFiniteSet({r}) /\ R \subseteq {r}
      BY FS_Singleton
    <3> HIDE DEF e, r, R
    <3> QED BY <3>1, FS_Subset, FS_Union
  <2>7. Cardinality(R) = IF Gone # {} THEN 1 ELSE 0
    <3>1. Gone # {} => R = {r}
      OBVIOUS
    <3>2. Gone = {} => R = {}
      OBVIOUS
    <3> HIDE DEF R, r
    <3> QED BY <3>1, <3>2, FS_Singleton, FS_EmptySet
  <2> HIDE DEF e, r, R, in, Gone
  <2>8. Weighs(w, {e} \cup R) /\ w[e] \in Int /\ w[e] = in
    BY <1>3, <2>2, <2>3 DEF Weighs
  <2>9. Sigma({e} \cup R, w) = Sigma({e}, w) + Sigma(R, w)
    BY <2>5, <2>6, <2>8, SigmaUnion
  <2>10. Sigma({e}, w) = in
    BY <2>8, SigmaOne
  <2>11. Sigma(R, w) = (-SwapAmt) * Cardinality(R)
    BY <1>3, <2>3, <2>6, SigmaCount
  <2>12. Sigma(R, w) = gone
    BY <1>3, <2>7, <2>11
  <2>13. Sigma(OutputEntries(d), w) = Sigma({e} \cup R, w) /\ IsFiniteSet(OutputEntries(d)) /\ Weighs(w, OutputEntries(d))
    BY <2>1, <2>6, <2>8, Zenon
  <2>14. gone \in Int /\ in \in Int
    BY <1>3 DEF in
  <2> QED BY <1>1, <1>5, <2>9, <2>10, <2>12, <2>13, <2>14
<1> QED BY <1>4, <1>5

\* Every record but those of outputs, one each.
LEMMA RecordsLeft ==
  ASSUME LedgerInv
  PROVE  /\ DOMAIN Paired \subseteq {d \in Swap : Output(d)} /\ IsFiniteSet(Unpaired) /\ IsFiniteSet(Recorded)
         /\ IsFiniteSet(DOMAIN Paired)
         /\ Cardinality(Recorded) = Cardinality(Unpaired) + Cardinality(DOMAIN Paired)
<1> DEFINE Dom == DOMAIN Paired
           Img == {Paired[d] : d \in Dom}
<1>1. Paired \in PairingsOf(txs, log)
  BY PairingIs DEF LedgerInv, DepositInv, Paired
<1>2. /\ Paired \in [Dom -> Recorded] /\ Dom \subseteq {d \in Swap : Output(d)}
      /\ \A x, y \in Dom : Paired[x] = Paired[y] => x = y
  BY <1>1 DEF PairingsOf, Output, Recorded
<1>3. IsFiniteSet(Dom) /\ IsFiniteSet(Recorded)
  <2>1. Dom \subseteq Swap /\ Recorded \subseteq Swap
    BY <1>2 DEF Recorded, RecordedIn
  <2> HIDE DEF Dom
  <2> QED BY <2>1, AmountsAssumption, FS_Subset
<1> HIDE DEF Dom
<1>4. Img \subseteq Recorded /\ Unpaired = Recorded \ Img
  BY <1>2 DEF Unpaired, Dom
<1>5. Paired \in Surjection(Dom, Img) /\ Paired \in Injection(Dom, Img)
  <2>1. Paired \in [Dom -> Img]
    BY <1>2
  <2> QED BY <1>2, <2>1 DEF Surjection, Injection, IsInjective
<1> HIDE DEF Img
<1>6. Cardinality(Img) = Cardinality(Dom) /\ IsFiniteSet(Img)
  BY <1>3, <1>5, FS_Surjection
<1>7. IsFiniteSet(Unpaired)
  BY <1>3, <1>4, FS_Subset
<1>8. Cardinality(Unpaired \cup Img) = Cardinality(Unpaired) + Cardinality(Img)
  <2>1. Unpaired \cap Img = {}
    BY <1>4
  <2>2. /\ Cardinality(Unpaired \cup Img)
             = Cardinality(Unpaired) + Cardinality(Img) - Cardinality(Unpaired \cap Img)
        /\ Cardinality(Unpaired \cap Img) = 0
    <3>1. Cardinality(Unpaired \cap Img) = Cardinality({})
      BY <2>1, Zenon
    <3>2. Cardinality({}) = 0
      BY FS_EmptySet
    <3>3. Cardinality(Unpaired \cup Img)
            = Cardinality(Unpaired) + Cardinality(Img) - Cardinality(Unpaired \cap Img)
      BY <1>6, <1>7, FS_Union
    <3> QED BY <3>1, <3>2, <3>3
  <2>3. Cardinality(Unpaired) \in Nat /\ Cardinality(Img) \in Nat
    BY <1>6, <1>7, FS_CardinalityType
  <2> QED BY <2>2, <2>3
<1>9. Recorded = Unpaired \cup Img
  BY <1>4
<1>10. Cardinality(Recorded) = Cardinality(Unpaired \cup Img)
  BY <1>9, Zenon
<1> QED BY <1>2, <1>3, <1>6, <1>7, <1>8, <1>10 DEF Dom

\* The entries of the deposits explain their transactions and what the swaps
\* put in a channel.
LEMMA DepositsSum ==
  ASSUME LedgerInv, Settled,
         NEW w, \A e \in DepositEntries : w[e] = Counts(e),
         NEW a, \A t \in txs : a[t] = Amount(t)
  PROVE  /\ IsFiniteSet(DepositEntries) /\ Weighs(w, DepositEntries) /\ Sigma(DepositEntries, w) \in Int
         /\ Sigma(OfDeposits, a) + Into * Cardinality(Recorded) = Sigma(DepositEntries, w)
<1> DEFINE Outs == {d \in Swap : Output(d)}
           Dom == DOMAIN Paired
           moved == [d \in Swap |-> MovedBy(d)]
           listed == [d \in Swap |-> OutputEntries(d)]
           m == [d \in Swap |-> Sigma(MovedBy(d), a)]
           q == [d \in Swap |-> Sigma(OutputEntries(d), w)]
           into == [d \in Swap |-> IF d \in Dom THEN Into ELSE 0]
           U == UNION {listed[d] : d \in Outs}
           R == {Entry("record", {d}, Into, SwapFee, TRUE) : d \in Unpaired}
<1>1. /\ Dom \subseteq Outs /\ IsFiniteSet(Outs) /\ IsFiniteSet(Dom) /\ Outs \subseteq Swap
      /\ IsFiniteSet(Outs \ Dom)
  <2>1. Dom \subseteq Outs /\ IsFiniteSet(Dom)
    BY RecordsLeft
  <2>2. Outs \subseteq Swap /\ Outs \ Dom \subseteq Swap
    OBVIOUS
  <2> HIDE DEF Outs, Dom
  <2> QED BY <2>1, <2>2, AmountsAssumption, FS_Subset
<1>2. Into \in Int
  BY AmountsAssumption DEF Into
<1>3. DepositEntries = U \cup R
  BY DEF DepositEntries
<1>4. \A d \in Outs : /\ IsFiniteSet(moved[d]) /\ Weighs(a, moved[d]) /\ m[d] = Sigma(moved[d], a)
                      /\ IsFiniteSet(listed[d]) /\ Weighs(w, listed[d]) /\ q[d] = Sigma(listed[d], w)
                      /\ q[d] = m[d] + into[d]
  <2> SUFFICES ASSUME NEW d \in Outs
               PROVE  /\ IsFiniteSet(MovedBy(d)) /\ Weighs(a, MovedBy(d))
                      /\ IsFiniteSet(OutputEntries(d)) /\ Weighs(w, OutputEntries(d))
                      /\ Sigma(OutputEntries(d), w) = Sigma(MovedBy(d), a) + (IF d \in DOMAIN Paired THEN Into ELSE 0)
    OBVIOUS
  <2>1. \A e \in OutputEntries(d) : w[e] = Counts(e)
    BY DEF DepositEntries
  <2>2. IsFiniteSet(MovedBy(d)) /\ Weighs(a, MovedBy(d))
    BY MovedSum
  <2> QED BY <2>1, <2>2, OutputSum
<1>5. \A d \in Outs : m[d] \in Int /\ into[d] \in Int
  <2>1. \A d \in Outs : Sigma(moved[d], a) \in Int
    <3> HIDE DEF moved, m, q, into, listed
    <3> QED BY <1>4, SigmaFacts
  <2> QED BY <1>2, <1>4, <2>1
<1>6. /\ \A c, d \in Outs : c # d => moved[c] \cap moved[d] = {}
      /\ \A c, d \in Outs : c # d => listed[c] \cap listed[d] = {}
  <2>1. \A d \in Swap : \A t \in MovedBy(d) : t.of = {d}
    BY DEF MovedBy
  <2>2. \A d \in Swap : \A e \in OutputEntries(d) : e.of = {d}
    BY DEF OutputEntries, Entry
  <2> QED BY <2>1, <2>2
<1>7. UNION {moved[d] : d \in Outs} = OfDeposits
  <2>1. \A t \in txs : t.what \in {"fund", "own", "claim", "refund", "back"} =>
          \E d \in Swap : t.of = {d} /\ t = Tx(t.what, {d}) /\ Output(d)
    <3> SUFFICES ASSUME NEW t \in txs, t.what \in {"fund", "own", "claim", "refund", "back"}
                 PROVE  \E d \in Swap : t.of = {d} /\ t = Tx(t.what, {d}) /\ Output(d)
      OBVIOUS
    <3>1. PICK d \in Swap : t.of = {d} /\ t = Tx(t.what, {d})
      BY KindsAre DEF LedgerInv, WalletInv
    <3>2. CASE t.what \in {"fund", "own"}
      BY <3>1, <3>2 DEF Output, HasOutput
    <3>3. CASE t.what \in Spends
      <4>1. Tx(t.what, {d}) \in txs
        BY <3>1
      <4>2. Output(d)
        BY <3>3, <4>1 DEF LedgerInv, DepositInv
      <4> QED BY <3>1, <4>2
    <3> QED BY <3>1, <3>2, <3>3 DEF Spends
  <2>2. \A t \in txs : t.what = "back" => ~(t.of \subseteq Dom)
    <3> SUFFICES ASSUME NEW t \in txs, t.what = "back", t.of \subseteq Dom PROVE FALSE
      OBVIOUS
    <3>1. PICK d \in Swap : t.of = {d} /\ t = Tx("back", {d})
      BY <2>1
    <3>2. d \in Recorded
      BY <3>1 DEF Settled
    <3> QED BY <3>1, <3>2 DEF LedgerInv, DepositInv, Spends
  <2>3. OfDeposits = {t \in txs : t.what \in {"fund", "own", "claim", "refund"}}
    BY <2>2 DEF OfDeposits
  <2>4. ASSUME NEW t PROVE t \in OfDeposits <=> \E d \in Outs : t \in MovedBy(d)
    BY <2>1, <2>3 DEF MovedBy
  <2>5. \A d \in Outs : moved[d] = MovedBy(d)
    OBVIOUS
  <2> HIDE DEF moved, Outs
  <2> QED BY <2>4, <2>5
<1> HIDE DEF moved, listed, m, q, Dom, Outs
<1>8. /\ IsFiniteSet(OfDeposits) /\ Sigma(OfDeposits, a) = Sigma(Outs, m)
  <2>1. Grouped(moved, Outs, a, m)
    BY <1>4, <1>6 DEF Grouped
  <2>2. IsFiniteSet(OfDeposits)
    <3>1. OfDeposits \subseteq txs
      BY DEF OfDeposits
    <3> QED BY <3>1, FS_Subset DEF LedgerInv, WalletInv
  <2>3. Sigma(UNION {moved[d] : d \in Outs}, a) = Sigma(Outs, m)
    BY <1>1, <2>1, SigmaGroups, ZenonT(30)
  <2> QED BY <1>7, <2>2, <2>3, Zenon
<1>9. IsFiniteSet(U) /\ Weighs(w, U) /\ Sigma(U, w) = Sigma(Outs, q)
  <2>1. Grouped(listed, Outs, w, q)
    BY <1>4, <1>6 DEF Grouped
  <2>2. IsFiniteSet(UNION {listed[d] : d \in Outs}) /\ Weighs(w, UNION {listed[d] : d \in Outs})
    BY <1>1, <2>1, SigmaGroups
  <2>3. Sigma(UNION {listed[d] : d \in Outs}, w) = Sigma(Outs, q)
    BY <1>1, <2>1, SigmaGroups, ZenonT(30)
  <2> QED BY <2>2, <2>3, Zenon
<1>10. Sigma(Outs, q) = Sigma(Outs, m) + Sigma(Outs, into)
  <2> HIDE DEF into
  <2> QED BY <1>1, <1>4, <1>5, SigmaPlus
<1>11. Sigma(Outs, into) = Into * Cardinality(Dom)
  <2> DEFINE Rest == Outs \ Dom
  <2>1. (\A d \in Dom : into[d] = Into) /\ (\A d \in Rest : into[d] = 0) /\ Outs = Dom \cup Rest
    BY <1>1
  <2>2. IsFiniteSet(Rest) /\ Dom \cap Rest = {} /\ Weighs(into, Dom \cup Rest)
    BY <1>1, <1>5, <2>1 DEF Weighs
  <2> HIDE DEF into, Rest
  <2>3. Sigma(Dom, into) = Into * Cardinality(Dom)
    BY <1>1, <1>2, <2>1, SigmaCount
  <2>4. Sigma(Rest, into) = 0 * Cardinality(Rest) /\ Cardinality(Rest) \in Nat
    BY <2>1, <2>2, SigmaCount, FS_CardinalityType
  <2>5. Sigma(Dom \cup Rest, into) = Sigma(Dom, into) + Sigma(Rest, into)
    BY <1>1, <2>2, SigmaUnion
  <2>6. Sigma(Outs, into) = Sigma(Dom \cup Rest, into)
    BY <2>1, Zenon
  <2>7. Into * Cardinality(Dom) \in Int
    BY <1>1, <1>2, FS_CardinalityType
  <2> QED BY <2>3, <2>4, <2>5, <2>6, <2>7
<1>12. IsFiniteSet(R) /\ Weighs(w, R) /\ Sigma(R, w) = Into * Cardinality(Unpaired) /\ U \cap R = {}
  <2> DEFINE h == [d \in Unpaired |-> Entry("record", {d}, Into, SwapFee, TRUE)]
             k == [d \in Unpaired |-> Into]
  <2>1. \A d \in Unpaired : h[d].of = {d} /\ h[d].by = "record" /\ Counts(h[d]) = Into
    BY DEF Entry, Counts
  <2>2. R = {h[d] : d \in Unpaired} /\ \A d \in Unpaired : h[d] \in DepositEntries
    <3>1. R = {h[d] : d \in Unpaired}
      OBVIOUS
    <3> HIDE DEF R, U, h
    <3> QED BY <1>3, <3>1
  <2>3. U \cap R = {}
    <3>1. \A e \in R : e.by = "record"
      BY DEF Entry
    <3>2. \A d : \A e \in OutputEntries(d) : e.by # "record"
      BY DEF OutputEntries, Entry
    <3>3. \A e \in U : \E d \in Swap : e \in OutputEntries(d)
      BY <1>1 DEF listed
    <3> HIDE DEF R, U
    <3> QED BY <3>1, <3>2, <3>3
  <2>4. \A d \in Unpaired : k[d] = Into
    OBVIOUS
  <2> HIDE DEF R, h, k, U
  <2>5. Carries(h, Unpaired, k, w)
    <3>1. \A d \in Unpaired : w[h[d]] = k[d]
      BY <2>1, <2>2, <2>4
    <3>2. \A c, d \in Unpaired : h[c] = h[d] => c = d
      <4> SUFFICES ASSUME NEW c \in Unpaired, NEW d \in Unpaired, h[c] = h[d] PROVE c = d
        OBVIOUS
      <4>1. {c} = {d}
        BY <2>1
      <4> QED BY <4>1
    <3> QED BY <3>1, <3>2 DEF Carries
  <2>6. IsFiniteSet(Unpaired) /\ Weighs(k, Unpaired)
    BY <1>2, <2>4, RecordsLeft DEF Weighs
  <2>7. LET S == {h[d] : d \in Unpaired} IN IsFiniteSet(S) /\ Weighs(w, S) /\ Sigma(S, w) = Sigma(Unpaired, k)
    BY <2>5, <2>6, SigmaMaps
  <2>8. Sigma(Unpaired, k) = Into * Cardinality(Unpaired)
    BY <1>2, <2>4, <2>6, SigmaCount
  <2>9. IsFiniteSet(R) /\ Weighs(w, R) /\ Sigma(R, w) = Sigma(Unpaired, k)
    BY <2>2, <2>7, Zenon
  <2> QED BY <2>3, <2>8, <2>9
<1> HIDE DEF R, U
<1>13. IsFiniteSet(U \cup R) /\ Weighs(w, U \cup R)
  BY <1>9, <1>12, FS_Union DEF Weighs
<1>14. Sigma(U \cup R, w) = Sigma(U, w) + Sigma(R, w)
  BY <1>9, <1>12, <1>13, SigmaUnion
<1>15. Sigma(U \cup R, w) \in Int
  BY <1>13, SigmaFacts
<1>16. IsFiniteSet(DepositEntries) /\ Weighs(w, DepositEntries) /\ Sigma(DepositEntries, w) = Sigma(U \cup R, w)
  BY <1>3, <1>13, Zenon
<1>17. Into * Cardinality(Recorded) = Into * Cardinality(Unpaired) + Into * Cardinality(Dom)
  <2>1. Cardinality(Recorded) = Cardinality(Unpaired) + Cardinality(Dom)
    BY RecordsLeft DEF Dom
  <2>2. Cardinality(Unpaired) \in Nat /\ Cardinality(Dom) \in Nat
    BY <1>1, RecordsLeft, FS_CardinalityType
  <2>3. \A i, j \in Nat : Into * (i + j) = Into * i + Into * j
    BY <1>2
  <2> QED BY <2>1, <2>2, <2>3
<1>18. /\ Sigma(Outs, m) \in Int /\ Into * Cardinality(Unpaired) \in Int /\ Into * Cardinality(Dom) \in Int
  <2>1. Sigma(Outs, m) \in Int
    <3>1. Weighs(m, Outs)
      BY <1>5 DEF Weighs
    <3> QED BY <1>1, <3>1, SigmaFacts
  <2> QED BY <1>1, <1>2, <2>1, RecordsLeft, FS_CardinalityType
<1> QED BY <1>8, <1>9, <1>10, <1>11, <1>12, <1>14, <1>15, <1>16, <1>17, <1>18

\* What is listed on its own is worth what it moved.
LEMMA OnchainSum ==
  ASSUME LedgerInv, Settled,
         NEW w, \A e \in OnchainEntries : w[e] = Counts(e),
         NEW a, \A t \in txs : a[t] = Amount(t)
  PROVE  /\ \A e \in OnchainEntries : e.by \in {"in", "out", "self", "back"}
         /\ IsFiniteSet(OnchainEntries) /\ Weighs(w, OnchainEntries)
         /\ Sigma(OnchainEntries, w) = Sigma(txs \ (OfCloses \cup OfDeposits), a)
<1> DEFINE L == txs \ (OfCloses \cup OfDeposits)
           h == [t \in L |-> OnchainEntry(t)]
<1>1. \A t \in L : /\ t \in txs /\ OfWallet(t) /\ t = Tx(t.what, t.of) /\ t.what \in {"in", "out", "self", "back"}
  <2> SUFFICES ASSUME NEW t \in L PROVE t.what \in {"in", "out", "self", "back"} /\ OfWallet(t) /\ t = Tx(t.what, t.of)
    OBVIOUS
  <2>1. OfWallet(t) /\ t \in txs
    BY DEF LedgerInv, WalletInv
  <2>2. t.what \notin {"coop", "sweep"}
    BY <2>1, ClosesListed
  <2>3. t.what \notin {"fund", "own", "claim", "refund"}
    BY <2>1 DEF OfDeposits
  <2> QED BY <2>1, <2>2, <2>3, KindsAre
<1>2. IsFiniteSet(L)
  <2>1. L \subseteq txs
    OBVIOUS
  <2> HIDE DEF L
  <2> QED BY <2>1, FS_Subset DEF LedgerInv, WalletInv
<1>3. ASSUME NEW t \in L PROVE Counts(OnchainEntry(t)) = Amount(t) /\ Amount(t) \in Int
  <2>1. t.what \in {"in", "out", "self", "back"}
    BY <1>1
  <2>2. CASE t.what = "in"
    BY <2>2, AmountsAssumption DEF OnchainEntry, Counts, Entry, Amount
  <2>3. CASE t.what = "out"
    BY <2>3, AmountsAssumption DEF OnchainEntry, Counts, Entry, Amount
  <2>4. CASE t.what \in {"self", "back"}
    BY <2>4, AmountsAssumption DEF OnchainEntry, Counts, Entry, Amount
  <2> QED BY <2>1, <2>2, <2>3, <2>4
<1>4. \A t \in L : OnchainEntry(t).by = t.what /\ OnchainEntry(t).of = t.of
  BY DEF OnchainEntry, Entry
<1>5. \A t \in L : h[t] = OnchainEntry(t)
  OBVIOUS
<1>6. OnchainEntries = {h[t] : t \in L}
  BY DEF OnchainEntries
<1>7. \A t \in L : a[t] = Amount(t)
  BY <1>1
<1> HIDE DEF h, L
<1>8. Carries(h, L, a, w) /\ Weighs(a, L)
  <2>1. \A t \in L : w[h[t]] = a[t]
    BY <1>3, <1>5, <1>6, <1>7
  <2>2. ASSUME NEW s \in L, NEW t \in L, h[s] = h[t] PROVE s = t
    <3>1. s.what = t.what /\ s.of = t.of
      BY <1>4, <1>5, <2>2
    <3>2. s = Tx(s.what, s.of) /\ t = Tx(t.what, t.of)
      BY <1>1
    <3> QED BY <3>1, <3>2
  <2>3. Weighs(a, L)
    BY <1>3, <1>7 DEF Weighs
  <2> QED BY <2>1, <2>2, <2>3 DEF Carries
<1>9. LET S == {h[t] : t \in L} IN IsFiniteSet(S) /\ Weighs(w, S) /\ Sigma(S, w) = Sigma(L, a)
  BY <1>2, <1>8, SigmaMaps
<1>10. IsFiniteSet(OnchainEntries) /\ Weighs(w, OnchainEntries) /\ Sigma(OnchainEntries, w) = Sigma(L, a)
  BY <1>6, <1>9, Zenon
<1>11. \A e \in OnchainEntries : e.by \in {"in", "out", "self", "back"}
  BY <1>1, <1>4, <1>5, <1>6
<1> QED BY <1>10, <1>11 DEF L

\* What there was, and the payment.
LEMMA PaymentsSum ==
  ASSUME BookInv, NEW w, \A e \in PaymentEntries : w[e] = Counts(e)
  PROVE  /\ \A e \in PaymentEntries : e.by \in {"start", "payment"}
         /\ IsFiniteSet(PaymentEntries) /\ Weighs(w, PaymentEntries)
         /\ Sigma(PaymentEntries, w) = Start + Bal * Cardinality(Chan) - (IF pay = "no" THEN 0 ELSE Sent + Fee)
<1> DEFINE b == Bal * Cardinality(Chan)
           s == Entry("start", {}, Start + b, 0, FALSE)
           p == Entry("payment", {}, -(Sent + Fee), Fee, FALSE)
<1>1. b \in Nat
  BY AmountsAssumption, FS_CardinalityType
<1> HIDE DEF b
<1>2. Sent \in Nat /\ Start \in Nat /\ Fee \in Nat
  BY AmountsAssumption DEF Sent, Start
<1>3. Counts(s) = Start + b /\ Counts(p) = -(Sent + Fee)
  BY <1>1, <1>2 DEF Counts, Entry
<1>4. s.by = "start" /\ p.by = "payment"
  BY DEF Entry
<1>5. PaymentEntries = {s} \cup {p : x \in {pay} \ {"no"}}
  BY DEF PaymentEntries, b
<1> HIDE DEF s, p
<1>6. w[s] = Start + b /\ w[s] \in Int
  BY <1>1, <1>2, <1>3, <1>5
<1>7. IsFiniteSet({s}) /\ Weighs(w, {s}) /\ Sigma({s}, w) = Start + b
  BY <1>6, FS_Singleton, SigmaOne DEF Weighs
<1>8. CASE pay = "no"
  <2>1. PaymentEntries = {s}
    BY <1>5, <1>8
  <2>2. IsFiniteSet(PaymentEntries) /\ Weighs(w, PaymentEntries) /\ Sigma(PaymentEntries, w) = Sigma({s}, w)
    BY <1>7, <2>1, Zenon
  <2> QED BY <1>1, <1>2, <1>4, <1>7, <1>8, <2>1, <2>2 DEF b
<1>9. CASE pay # "no"
  <2>1. PaymentEntries = {s} \cup {p}
    BY <1>5, <1>9
  <2>2. w[p] = -(Sent + Fee) /\ w[p] \in Int
    BY <1>2, <1>3, <2>1
  <2>3. IsFiniteSet({p}) /\ Sigma({p}, w) = -(Sent + Fee)
    BY <2>2, FS_Singleton, SigmaOne
  <2>4. Weighs(w, {s} \cup {p}) /\ {s} \cap {p} = {} /\ IsFiniteSet({s} \cup {p})
    <3>1. IsFiniteSet({s} \cup {p})
      BY <1>7, <2>3, FS_Union
    <3> QED BY <1>4, <1>6, <2>2, <3>1 DEF Weighs
  <2>5. Sigma({s} \cup {p}, w) = Sigma({s}, w) + Sigma({p}, w)
    <3> DEFINE A == {s}
               B == {p}
    <3> HIDE DEF A, B
    <3>1. IsFiniteSet(A) /\ IsFiniteSet(B) /\ A \cap B = {} /\ Weighs(w, A \cup B)
      BY <1>7, <2>3, <2>4 DEF A, B
    <3>2. Sigma(A \cup B, w) = Sigma(A, w) + Sigma(B, w)
      BY <3>1, SigmaUnion
    <3> QED BY <3>2, Zenon DEF A, B
  <2>6. /\ IsFiniteSet(PaymentEntries) /\ Weighs(w, PaymentEntries)
        /\ Sigma(PaymentEntries, w) = Sigma({s} \cup {p}, w)
    BY <2>1, <2>4, Zenon
  <2>7. Sigma(PaymentEntries, w) = Start + b - (Sent + Fee)
    BY <1>1, <1>2, <1>7, <2>3, <2>5, <2>6
  <2>8. \A e \in PaymentEntries : e.by \in {"start", "payment"}
    BY <1>4, <2>1
  <2> QED BY <1>9, <2>6, <2>7, <2>8 DEF b
<1> QED BY <1>8, <1>9

\* The channels, each in one place.
LEMMA ChannelsSum ==
  ASSUME LedgerInv, Settled
  PROVE  LET held == Bal * Cardinality({c \in Chan \ Arrived : lnd[c] \in {"open", "waiting", "force"}})
         IN  /\ held \in Int /\ Uncollected \in Int /\ Bal * Cardinality(Arrived) \in Int
             /\ Bal * Cardinality(Chan) \in Int
             /\ held + Uncollected + Bal * Cardinality(Arrived) = Bal * Cardinality(Chan)
<1> DEFINE A == Arrived
           C == Closed
<1>1. A \subseteq C /\ C \subseteq Chan
  BY ClosesListed
<1>2. IsFiniteSet(Chan) /\ IsFiniteSet(A) /\ IsFiniteSet(C)
  <2>1. IsFiniteSet(Chan)
    BY AmountsAssumption
  <2>2. IsFiniteSet(C)
    BY <1>1, <2>1, FS_Subset
  <2> QED BY <1>1, <2>1, <2>2, FS_Subset
<1>3. Uncollected = Bal * Cardinality(C \ A)
  <2>1. Cardinality({c \in Closed : ~Direct(c) /\ SweepsOf(c) = {}}) = Cardinality(C \ A)
    BY ClosesListed, Zenon
  <2> QED BY <2>1 DEF Uncollected
<1>4. Cardinality({c \in Chan \ Arrived : lnd[c] \in {"open", "waiting", "force"}}) = Cardinality(Chan \ C)
  BY ClosesListed, Zenon
<1> HIDE DEF A, C
<1>5. ASSUME NEW S, NEW T, IsFiniteSet(T), S \subseteq T
      PROVE  /\ Cardinality(T \ S) \in Nat /\ Cardinality(S) \in Nat /\ Cardinality(T) \in Nat
             /\ Cardinality(T \ S) = Cardinality(T) - Cardinality(S)
  <2>1. IsFiniteSet(S) /\ IsFiniteSet(T \ S)
    BY <1>5, FS_Subset, FS_Difference
  <2>2. T \cap S = S
    BY <1>5
  <2>3. Cardinality(T \cap S) = Cardinality(S)
    BY <2>2, Zenon
  <2>4. Cardinality(T \ S) = Cardinality(T) - Cardinality(T \cap S)
    BY <1>5, <2>1, FS_Difference
  <2> QED BY <1>5, <2>1, <2>3, <2>4, FS_CardinalityType
<1>6. /\ Cardinality(C \ A) = Cardinality(C) - Cardinality(A)
      /\ Cardinality(Chan \ C) = Cardinality(Chan) - Cardinality(C)
      /\ Cardinality(A) \in Nat /\ Cardinality(C) \in Nat /\ Cardinality(Chan) \in Nat
  BY <1>1, <1>2, <1>5
<1>7. \A i, j, k \in Nat : /\ Bal * (k - j) + Bal * (j - i) + Bal * i = Bal * k
                           /\ Bal * (k - j) \in Int /\ Bal * i \in Int
  BY AmountsAssumption
<1> QED BY <1>3, <1>4, <1>6, <1>7 DEF A, C

LEMMA CountsSum ==
  ASSUME NEW D, IsFiniteSet(D), NEW w, Weighs(w, D), \A e \in D : w[e] = Counts(e)
  PROVE  MapThenSumSet(Counts, D) = Sigma(D, w)
<1>1. PICK g : IsTotal(g, D, w) /\ \A A \in SUBSET D : Sigma(A, w) = g[A]
  BY SigmaIs
<1> DEFINE pick(s) == CHOOSE x \in s : TRUE
           sums(f) == f = [s \in SUBSET D |-> IF s = {} THEN 0 ELSE Counts(pick(s)) + f[s \ {pick(s)}]]
           f == CHOOSE x : sums(x)
<1>2. MapThenSumSet(Counts, D) = f[D]
  BY DEF MapThenSumSet, MapThenFoldSet
<1>3. sums(f)
  <2> DEFINE q == [s \in SUBSET D |-> g[s]]
  <2>1. ASSUME NEW s \in SUBSET D, s # {} PROVE g[s] = Counts(pick(s)) + g[s \ {pick(s)}]
    <3>1. pick(s) \in s /\ w[pick(s)] = Counts(pick(s))
      BY <2>1
    <3> HIDE DEF pick
    <3> QED BY <1>1, <3>1 DEF IsTotal
  <2>2. g[{}] = 0
    BY <1>1 DEF IsTotal
  <2> HIDE DEF pick
  <2>3. sums(q)
    BY <2>1, <2>2
  <2> HIDE DEF sums, q
  <2> QED BY <2>3
<1>4. AddsOneByOne(f, D, w)
  <2>1. ASSUME NEW u \in SUBSET D, u # {} PROVE \E x \in u : f[u] = w[x] + f[u \ {x}]
    <3>1. pick(u) \in u /\ w[pick(u)] = Counts(pick(u))
      BY <2>1
    <3>2. f[u] = Counts(pick(u)) + f[u \ {pick(u)}]
      <4> HIDE DEF f, pick
      <4> QED BY <1>3, <2>1
    <3> HIDE DEF f, pick
    <3> QED BY <3>1, <3>2
  <2>2. f[{}] = 0
    <3> HIDE DEF f, pick
    <3> QED BY <1>3
  <2> HIDE DEF f
  <2> QED BY <2>1, <2>2 DEF AddsOneByOne
<1> HIDE DEF f
<1>5. f[D] = g[D]
  <2>1. D \in SUBSET D
    OBVIOUS
  <2> QED BY <1>1, <1>4, <2>1, TotalIsUnique
<1> QED BY <1>1, <1>2, <1>5

\* The ledger of a settled wallet, whatever happened on the way.
LEMMA LedgerAddsUp == ASSUME LedgerInv PROVE AddsUp
<1> SUFFICES ASSUME Settled PROVE Unexplained = 0
  BY DEF AddsUp
<1> DEFINE S1 == CloseEntries \cup PendingEntries
           S2 == PaymentEntries
           S3 == DepositEntries
           S4 == OnchainEntries
           w == [e \in Entries |-> Counts(e)]
           a == [t \in txs |-> Amount(t)]
           L == txs \ (OfCloses \cup OfDeposits)
           held == Bal * Cardinality({c \in Chan \ Arrived : lnd[c] \in {"open", "waiting", "force"}})
           paid == IF pay = "no" THEN 0 ELSE Sent + Fee
           swapped == Into * Cardinality(Recorded)
           arrived == Bal * Cardinality(Arrived)
           all == Bal * Cardinality(Chan)
<1>1. Entries = ((S1 \cup S2) \cup S3) \cup S4
  BY DEF Entries
<1>2. /\ \A e \in S1 \cup S2 \cup S3 \cup S4 : w[e] = Counts(e)
      /\ \A t \in txs : a[t] = Amount(t)
  BY <1>1
<1> HIDE DEF w, a
<1>3. /\ IsFiniteSet(S1) /\ Weighs(w, S1) /\ Sigma(S1, w) \in Int
      /\ Sigma(OfCloses, a) = arrived + Sigma(S1, w)
  BY <1>2, ClosesSum
<1>4. /\ IsFiniteSet(S2) /\ Weighs(w, S2) /\ Sigma(S2, w) = Start + all - paid
      /\ \A e \in S2 : e.by \in {"start", "payment"}
  BY <1>2, PaymentsSum DEF LedgerInv
<1>5. /\ IsFiniteSet(S3) /\ Weighs(w, S3) /\ Sigma(S3, w) \in Int
      /\ Sigma(OfDeposits, a) + swapped = Sigma(S3, w)
  BY <1>2, DepositsSum
<1>6. /\ IsFiniteSet(S4) /\ Weighs(w, S4) /\ Sigma(S4, w) = Sigma(L, a)
      /\ \A e \in S4 : e.by \in {"in", "out", "self", "back"}
  BY <1>2, OnchainSum
<1>7. /\ \A e \in S1 : e.by \in {"close", "collected", "pending"}
      /\ \A e \in S3 : e.by \in {"deposit", "output", "refund", "record"}
  BY DEF CloseEntries, PendingEntries, DepositEntries, OutputEntries, Entry
<1> HIDE DEF S1, S2, S3, S4, L, held, paid, swapped, arrived, all
<1>8. S1 \cap S2 = {} /\ (S1 \cup S2) \cap S3 = {} /\ ((S1 \cup S2) \cup S3) \cap S4 = {}
  BY <1>4, <1>6, <1>7
<1>9. /\ Weighs(w, S1 \cup S2) /\ Weighs(w, (S1 \cup S2) \cup S3)
      /\ Weighs(w, ((S1 \cup S2) \cup S3) \cup S4)
  BY <1>3, <1>4, <1>5, <1>6 DEF Weighs
<1>10. /\ IsFiniteSet(S1 \cup S2) /\ IsFiniteSet((S1 \cup S2) \cup S3)
       /\ IsFiniteSet(((S1 \cup S2) \cup S3) \cup S4)
  BY <1>3, <1>4, <1>5, <1>6, FS_Union
<1>11. Sigma(S1 \cup S2, w) = Sigma(S1, w) + Sigma(S2, w)
  BY <1>3, <1>4, <1>8, <1>9, SigmaUnion
<1>12. Sigma((S1 \cup S2) \cup S3, w) = Sigma(S1 \cup S2, w) + Sigma(S3, w)
  BY <1>5, <1>8, <1>9, <1>10, SigmaUnion
<1>13. Sigma(((S1 \cup S2) \cup S3) \cup S4, w) = Sigma((S1 \cup S2) \cup S3, w) + Sigma(S4, w)
  BY <1>6, <1>8, <1>9, <1>10, SigmaUnion
<1>14. Expected = Sigma(((S1 \cup S2) \cup S3) \cup S4, w)
  <2> DEFINE E == ((S1 \cup S2) \cup S3) \cup S4
  <2>1. IsFiniteSet(E) /\ Weighs(w, E) /\ \A e \in E : w[e] = Counts(e)
    BY <1>2, <1>9, <1>10
  <2> HIDE DEF E
  <2>2. MapThenSumSet(Counts, E) = Sigma(E, w)
    BY <2>1, CountsSum
  <2>3. Entries = E
    BY <1>1 DEF E
  <2>4. Expected = MapThenSumSet(Counts, E)
    BY <2>3, Zenon DEF Expected
  <2> QED BY <2>2, <2>4 DEF E
<1>15. /\ Onchain = Sigma(OfCloses, a) + Sigma(OfDeposits, a) + Sigma(L, a)
       /\ Sigma(OfDeposits, a) \in Int /\ Sigma(L, a) \in Int
  <2>1. IsFiniteSet(txs) /\ Weighs(a, txs)
    BY <1>2, AmountIs DEF LedgerInv, WalletInv, Weighs
  <2>2. OfCloses \subseteq txs /\ OfDeposits \subseteq txs /\ L \subseteq txs /\ OfCloses \cap OfDeposits = {}
    BY ClosesListed DEF OfDeposits, L
  <2>3. txs = (OfCloses \cup OfDeposits) \cup L /\ (OfCloses \cup OfDeposits) \cap L = {}
    BY <2>2 DEF L
  <2>4. /\ IsFiniteSet(OfCloses) /\ IsFiniteSet(OfDeposits) /\ IsFiniteSet(L)
        /\ IsFiniteSet(OfCloses \cup OfDeposits)
    BY <2>1, <2>2, FS_Subset, FS_Union
  <2>5. Weighs(a, OfCloses \cup OfDeposits) /\ Weighs(a, (OfCloses \cup OfDeposits) \cup L) /\ Weighs(a, OfDeposits) /\ Weighs(a, L)
    BY <2>1, <2>2 DEF Weighs
  <2>6. Sigma(OfCloses \cup OfDeposits, a) = Sigma(OfCloses, a) + Sigma(OfDeposits, a)
    BY <2>2, <2>4, <2>5, SigmaUnion
  <2>7. Sigma((OfCloses \cup OfDeposits) \cup L, a) = Sigma(OfCloses \cup OfDeposits, a) + Sigma(L, a)
    BY <2>3, <2>4, <2>5, SigmaUnion
  <2>8. SumOf(txs) = Sigma(txs, a)
    BY <1>2, <2>1, SumOfIs
  <2>9. Sigma(txs, a) = Sigma((OfCloses \cup OfDeposits) \cup L, a)
    BY <2>3, Zenon
  <2>10. Sigma(OfDeposits, a) \in Int /\ Sigma(L, a) \in Int
    BY <2>4, <2>5, SigmaFacts
  <2> QED BY <2>6, <2>7, <2>8, <2>9, <2>10 DEF Onchain
<1>16. /\ held \in Int /\ Uncollected \in Int /\ arrived \in Int /\ all \in Int
       /\ held + Uncollected + arrived = all
  BY ChannelsSum DEF held, arrived, all
<1>17. Start \in Int /\ paid \in Int /\ swapped \in Int
  <2>1. Into \in Int /\ Cardinality(Recorded) \in Nat
    BY RecordsLeft, AmountsAssumption, FS_CardinalityType DEF Into
  <2> QED BY <2>1, AmountsAssumption DEF Start, Sent, paid, swapped
<1>18. MoneyHeld = Onchain + Start + swapped - paid + held
  BY DEF MoneyHeld, swapped, paid, held
<1>19. Expected = Sigma(S1, w) + (Start + all - paid) + (Sigma(OfDeposits, a) + swapped) + Sigma(L, a)
  BY <1>4, <1>5, <1>6, <1>11, <1>12, <1>13, <1>14
<1>20. MoneyHeld = (arrived + Sigma(S1, w)) + Sigma(OfDeposits, a) + Sigma(L, a) + Start + swapped - paid + held
  BY <1>3, <1>15, <1>18
<1>21. Unexplained = MoneyHeld + Uncollected - Expected
  BY DEF Unexplained
<1> QED BY <1>3, <1>15, <1>16, <1>17, <1>19, <1>20, <1>21

\* Amounts are amounts, and no fee is negative.
LEMMA LedgerTypes == ASSUME LedgerInv PROVE HistoryTypeOK
<1> USE DEF LedgerInv
<1>1. \A t \in txs : Amount(t) \in Int
  BY AmountIs DEF WalletInv
<1>2. Uncollected \in Nat
  <2> DEFINE U == {c \in Closed : ~Direct(c) /\ SweepsOf(c) = {}}
  <2>1. U \subseteq Chan
    BY DEF Closed
  <2> HIDE DEF U
  <2>2. Cardinality(U) \in Nat
    BY <2>1, AmountsAssumption, FS_Subset, FS_CardinalityType
  <2>3. \A n \in Nat : Bal * n \in Nat
    BY AmountsAssumption
  <2> QED BY <2>2, <2>3 DEF Uncollected, U
<1>3. ASSUME NEW e \in CloseEntries PROVE e.delta \in Int /\ e.fee \in Nat
  <2>1. ASSUME NEW t \in Collected PROVE CollectedFee(t) \in Nat
    <3>1. t \in txs /\ t.what = "sweep"
      BY DEF Collected, SweepsOf
    <3>2. OfWallet(t) /\ coop \subseteq Chan
      BY <3>1 DEF WalletInv
    <3>3. t.of \subseteq Chan /\ Amount(t) = Bal * Cardinality(t.of) - Fee
      BY <3>1, <3>2, AmountIs
    <3>4. Cardinality(t.of) \in Nat
      BY <3>3, AmountsAssumption, FS_Subset, FS_CardinalityType
    <3>5. Bal * Cardinality(t.of) \in Int
      BY <3>4, AmountsAssumption
    <3> QED BY <3>3, <3>5, AmountsAssumption DEF CollectedFee
  <2>2. CASE \E c \in Closed : e = Entry("close", {c}, 0, 0, FALSE)
    BY <2>2 DEF Entry
  <2>3. CASE \E t \in Collected : e = Entry("collected", t.of, 0, CollectedFee(t), FALSE)
    BY <2>1, <2>3 DEF Entry
  <2> QED BY <2>2, <2>3 DEF CloseEntries
<1>4. \A e \in PendingEntries : e.delta \in Int /\ e.fee \in Nat
  BY DEF PendingEntries, Entry
<1>5. \A e \in PaymentEntries : e.delta \in Int /\ e.fee \in Nat
  <2>1. Bal * Cardinality(Chan) \in Nat
    BY AmountsAssumption, FS_CardinalityType
  <2>2. Start \in Nat /\ Sent \in Nat /\ Fee \in Nat
    BY AmountsAssumption DEF Start, Sent
  <2> QED BY <2>1, <2>2 DEF PaymentEntries, Entry
<1>6. \A e \in DepositEntries : e.delta \in Int /\ e.fee \in Nat
  <2>1. \A d : \A e \in OutputEntries(d) : e.delta \in Int /\ e.fee \in Nat
    BY AmountsAssumption DEF OutputEntries, Entry, Into
  <2>2. \A d : LET e == Entry("record", {d}, Into, SwapFee, TRUE) IN e.delta \in Int /\ e.fee \in Nat
    BY AmountsAssumption DEF Entry, Into
  <2>3. \A e \in DepositEntries : \/ \E d \in Swap : e \in OutputEntries(d)
                                  \/ \E d \in Unpaired : e = Entry("record", {d}, Into, SwapFee, TRUE)
    BY DEF DepositEntries
  <2> QED BY <2>1, <2>2, <2>3
<1>7. \A e \in OnchainEntries : e.delta \in Int /\ e.fee \in Nat
  BY <1>1, AmountsAssumption DEF OnchainEntries, OnchainEntry, Entry
<1>8. \A e \in Entries : e.delta \in Int /\ e.fee \in Nat
  BY <1>3, <1>4, <1>5, <1>6, <1>7 DEF Entries
<1> QED BY <1>1, <1>2, <1>8 DEF HistoryTypeOK, HistoryIInv, WalletInv, DepositInv, BookInv

-----------------------------------------------------------------------------
(***************************************************************************)
(* What Core.History makes its list of has its type, the wallet never      *)
(* spends what it does not have, and no entry has a negative fee.          *)
(***************************************************************************)
THEOREM SpecHistoryTypeOK == HistorySpec => []HistoryTypeOK
BY SpecLedgerInv, LedgerTypes, PTL

(***************************************************************************)
(* Core.History, for any channels, deposits and amounts and whatever       *)
(* happened on the way: when nothing is between two books, what came in    *)
(* less what went out and the fees is what is held and what is left to     *)
(* collect (In, Out, Fees and Uncollected of core/history.go).             *)
(***************************************************************************)
THEOREM SpecAddsUp == HistorySpec => []AddsUp
BY SpecLedgerInv, LedgerAddsUp, PTL

-----------------------------------------------------------------------------
(* Sweep: what is published can be, and where it goes.                     *)

\* What is prepared, and what is being prepared, spends coins that are there.
CoinInv ==
  /\ PlanIsStillGood
  /\ op.what = "prepare" => \A t \in DOMAIN op.txs : op.txs[t] # {} /\ op.txs[t] \subseteq coins

\* As long as the field was not changed, every plan on its way is for it.
FieldInv ==
  /\ ~edited =>
       /\ op.what = "prepare" => op.addr = field
       /\ \A i \in DOMAIN answers : answers[i] # Nil => answers[i].addr = field
       /\ shown # Nil \/ (\E i \in DOMAIN answers : answers[i] # Nil)
          => sweep = Nil \/ sweep.addr = field
  /\ op.what = "send" /\ ~op.edited => sweep = Nil \/ sweep.addr = op.field

SweepIInv == SweepTypeOK /\ CoinInv /\ FieldInv /\ SentWhereAsked

-----------------------------------------------------------------------------
\* The fastest of some targets is one of them.
LEMMA FastestIsOne == ASSUME NEW T, T \subseteq Targets, T # {} PROVE Fastest(T) \in T
<1>1. T \subseteq Nat
  BY SweepAssumption
<1>2. PICK t \in T : \A u \in T : <<u, t>> \notin OpToRel(<, Nat)
  BY <1>1, WFMin, NatLessThanWellFounded
<1>3. ASSUME NEW u \in T, u < t PROVE FALSE
  <2>1. <<u, t>> \in Nat \X Nat /\ <<u, t>>[1] < <<u, t>>[2]
    BY <1>1, <1>3
  <2>2. <<u, t>> \in OpToRel(<, Nat)
    BY <2>1 DEF OpToRel
  <2> QED BY <1>2, <2>2
<1>4. \A u \in T : t <= u
  BY <1>1, <1>3
<1> QED BY <1>4 DEF Fastest

\* What a sequence holds after Append and Tail.
LEMMA Answers ==
  ASSUME NEW S, NEW s \in Seq(S)
  PROVE  /\ \A e \in S : /\ Append(s, e) \in Seq(S)
                         /\ \A i \in DOMAIN Append(s, e) :
                              Append(s, e)[i] = e \/ (i \in DOMAIN s /\ Append(s, e)[i] = s[i])
         /\ s # <<>> => /\ Head(s) \in S /\ Tail(s) \in Seq(S)
                        /\ 1 \in DOMAIN s /\ Head(s) = s[1]
                        /\ \A i \in DOMAIN Tail(s) : i + 1 \in DOMAIN s /\ Tail(s)[i] = s[i + 1]
<1>1. DOMAIN s = 1..Len(s) /\ Len(s) \in Nat
  BY LenProperties
<1>2. ASSUME NEW e \in S
      PROVE  /\ Append(s, e) \in Seq(S)
             /\ \A i \in DOMAIN Append(s, e) :
                  Append(s, e)[i] = e \/ (i \in DOMAIN s /\ Append(s, e)[i] = s[i])
  <2>1. /\ Append(s, e) \in Seq(S) /\ Len(Append(s, e)) = Len(s) + 1
        /\ \A i \in 1..Len(s) : Append(s, e)[i] = s[i]
        /\ Append(s, e)[Len(s) + 1] = e
    BY AppendProperties
  <2>2. DOMAIN Append(s, e) = 1..(Len(s) + 1)
    BY <2>1, LenProperties
  <2> QED BY <1>1, <2>1, <2>2
<1>3. ASSUME s # <<>>
      PROVE  /\ Head(s) \in S /\ Tail(s) \in Seq(S)
             /\ 1 \in DOMAIN s /\ Head(s) = s[1]
             /\ \A i \in DOMAIN Tail(s) : i + 1 \in DOMAIN s /\ Tail(s)[i] = s[i + 1]
  <2>1. /\ Head(s) \in S /\ Tail(s) \in Seq(S) /\ Len(Tail(s)) = Len(s) - 1
        /\ \A i \in 1..Len(Tail(s)) : Tail(s)[i] = s[i + 1]
    BY <1>3, HeadTailProperties
  <2>2. DOMAIN Tail(s) = 1..(Len(s) - 1)
    BY <2>1, LenProperties
  <2>3. Head(s) = s[1] /\ Len(s) >= 1
    BY <1>1, <1>3
  <2> QED BY <1>1, <2>1, <2>2, <2>3
<1> QED BY <1>2, <1>3

\* A prepared plan, and the first target chosen of it.
LEMMA PlanFacts ==
  ASSUME NEW p \in Plans
  PROVE  /\ DOMAIN p.txs \subseteq Targets /\ First(p) \in DOMAIN p.txs
         /\ \A t \in DOMAIN p.txs : p.txs[t] \subseteq Coin
<1>1. PICK D \in (SUBSET Targets) \ {{}} : p.txs \in [D -> SUBSET Coin]
  BY DEF Plans, TxsFor
<1>2. First(p) \in D
  BY <1>1, FastestIsOne DEF First
<1> QED BY <1>1, <1>2

\* What is known of an operation that runs.
LEMMA OpFacts ==
  ASSUME SweepTypeOK
  PROVE  /\ op.what = "prepare" =>
              /\ op \in [what: {"prepare"}, addr: Addr, amount: SUBSET Coin, left: SUBSET Targets,
                         txs: TxsFor(SUBSET Targets), step: {"balance", "fee", "dry"}]
              /\ DOMAIN op.txs \subseteq Targets
              /\ \A t \in DOMAIN op.txs : op.txs[t] \subseteq Coin
         /\ op.what = "send" =>
              op \in [what: {"send"}, target: Targets, field: Addr \cup {Nil}, edited: BOOLEAN]
BY DEF SweepTypeOK, Ops, Idle, TxsFor

-----------------------------------------------------------------------------
LEMMA InitSweepIInv == SweepInit => SweepIInv
<1> SUFFICES ASSUME SweepInit PROVE SweepIInv
  OBVIOUS
<1>1. SweepTypeOK
  <2>1. \A S : <<>> \in Seq(S)
    OBVIOUS
  <2>2. op \in Ops
    BY DEF SweepInit, Ops
  <2>3. answers \in Seq(Plans \cup {Nil})
    BY <2>1 DEF SweepInit
  <2> QED BY <2>2, <2>3, SweepAssumption DEF SweepInit, SweepTypeOK
<1>2. op.what = "none" /\ answers = <<>> /\ shown = Nil /\ sweep = Nil /\ sent = {}
  BY DEF SweepInit, Idle
<1>3. \A i \in DOMAIN answers : FALSE
  BY <1>2
<1> QED BY <1>1, <1>2, <1>3 DEF SweepIInv, CoinInv, FieldInv, SentWhereAsked, PlanIsStillGood

\* The steps of the page that start nothing and get no answer.
LEMMA PageKeepsIInv ==
  ASSUME SweepIInv, GoSweep \/ Back \/ (\E a \in Addr : Edit(a)) \/ (\E t \in Targets : Choose(t))
  PROVE  SweepIInv'
<1> USE DEF SweepIInv, SweepTypeOK, CoinInv, FieldInv, SentWhereAsked, PlanIsStillGood, behind
<1>1. CASE GoSweep
  BY <1>1 DEF GoSweep
<1>2. CASE Back
  BY <1>2 DEF Back
<1>3. ASSUME NEW a \in Addr, Edit(a) PROVE SweepIInv'
  <2>1. ~edited' => op.what # "prepare" /\ answers = <<>> /\ shown = Nil
    BY <1>3 DEF Edit, Preparing
  <2> QED BY <1>3, <2>1 DEF Edit
<1>4. ASSUME NEW t \in Targets, Choose(t) PROVE SweepIInv'
  BY <1>4 DEF Choose
<1> QED BY <1>1, <1>2, <1>3, <1>4

LEMMA PrepareClickedKeepsIInv == ASSUME SweepIInv, PrepareClicked PROVE SweepIInv'
<1> USE DEF SweepIInv
<1>1. op'.what = "prepare" /\ op'.addr = field /\ DOMAIN op'.txs = {} /\ op' \in Ops
  <2>1. [t \in {} |-> {}] \in TxsFor(SUBSET Targets)
    BY DEF TxsFor
  <2> QED BY <2>1 DEF PrepareClicked, PrepareOp, Ops, SweepTypeOK
<1>2. SweepTypeOK'
  BY <1>1 DEF PrepareClicked, SweepTypeOK
<1>3. CoinInv'
  BY <1>1 DEF PrepareClicked, CoinInv, PlanIsStillGood
<1>4. FieldInv'
  <2>1. answers = <<>> => \A i \in DOMAIN answers : FALSE
    OBVIOUS
  <2> QED BY <1>1, <2>1 DEF PrepareClicked, FieldInv
<1> QED BY <1>2, <1>3, <1>4 DEF PrepareClicked, SentWhereAsked

LEMMA PlanArrivesKeepsIInv == ASSUME SweepIInv, PlanArrives PROVE SweepIInv'
<1> USE DEF SweepIInv
<1>1. /\ Head(answers) \in Plans /\ answers' \in Seq(Plans \cup {Nil})
      /\ 1 \in DOMAIN answers /\ Head(answers) = answers[1] /\ answers[1] # Nil
      /\ \A i \in DOMAIN answers' : i + 1 \in DOMAIN answers /\ answers'[i] = answers[i + 1]
  BY Answers DEF PlanArrives, SweepTypeOK
<1>2. SweepTypeOK'
  BY <1>1, PlanFacts DEF PlanArrives, SweepTypeOK
<1>3. FieldInv'
  BY <1>1 DEF PlanArrives, FieldInv
<1> QED BY <1>2, <1>3 DEF PlanArrives, CoinInv, PlanIsStillGood, SentWhereAsked

LEMMA SendClickedKeepsIInv == ASSUME SweepIInv, SendClicked PROVE SweepIInv'
<1> USE DEF SweepIInv
<1>1. /\ op'.what = "send" /\ op'.field = field /\ op'.edited = edited /\ op' \in Ops
  BY DEF SendClicked, Ops, SweepTypeOK
<1> QED BY <1>1 DEF SendClicked, SweepTypeOK, CoinInv, PlanIsStillGood, FieldInv, SentWhereAsked, form

LEMMA SentArrivesKeepsIInv == ASSUME SweepIInv, SentArrives PROVE SweepIInv'
<1> USE DEF SweepIInv
<1>1. answers' \in Seq(Plans \cup {Nil})
  BY Answers DEF SentArrives, SweepTypeOK
<1> QED BY <1>1 DEF SentArrives, SweepTypeOK, CoinInv, PlanIsStillGood, FieldInv, SentWhereAsked

\* The steps of PrepareSweep before it is done, and an operation that fails.
LEMMA PreparingKeepsIInv ==
  ASSUME SweepIInv, Fails \/ ReadBalance \/ FeeSourceAnswers \/ DryRun PROVE SweepIInv'
<1> USE DEF SweepIInv
<1>1. UNCHANGED <<coins, sent, sweep, answers, form>>
  BY DEF Fails, ReadBalance, FeeSourceAnswers, DryRun
<1>2. SUFFICES /\ op' \in Ops /\ op'.what # "send"
               /\ op'.what = "prepare" => /\ op.what = "prepare" /\ op'.addr = op.addr
                                          /\ \A t \in DOMAIN op'.txs :
                                               \/ op'.txs[t] = coins /\ coins # {}
                                               \/ t \in DOMAIN op.txs /\ op'.txs[t] = op.txs[t]
  BY <1>1 DEF SweepTypeOK, CoinInv, PlanIsStillGood, FieldInv, SentWhereAsked, form
<1>3. CASE Fails
  BY <1>3 DEF Fails, Ops, Idle
<1>4. CASE ReadBalance
  BY <1>4, OpFacts DEF ReadBalance, Ops, SweepTypeOK
<1>5. CASE FeeSourceAnswers
  BY <1>5, OpFacts DEF FeeSourceAnswers, Ops, SweepTypeOK
<1>6. CASE DryRun
  <2> DEFINE t == Fastest(op.left)
  <2>1. t \in op.left /\ op.what = "prepare" /\ op.left \subseteq Targets
    BY <1>6, FastestIsOne, OpFacts DEF DryRun
  <2>2. CASE op' = [op EXCEPT !.left = op.left \ {t}]
    BY <2>1, <2>2, OpFacts DEF Ops, SweepTypeOK
  <2>3. CASE /\ coins # {}
             /\ op' = [op EXCEPT !.left = op.left \ {t},
                                 !.txs = [u \in DOMAIN op.txs \cup {t} |-> IF u = t THEN coins ELSE op.txs[u]]]
    <3> DEFINE made == [u \in DOMAIN op.txs \cup {t} |-> IF u = t THEN coins ELSE op.txs[u]]
    <3>1. made \in [DOMAIN op.txs \cup {t} -> SUBSET Coin] /\ DOMAIN op.txs \cup {t} \in SUBSET Targets
      BY <2>1, OpFacts DEF SweepTypeOK
    <3>2. made \in TxsFor(SUBSET Targets)
      BY <3>1 DEF TxsFor
    <3> HIDE DEF made
    <3>3. op' \in Ops /\ op'.what = "prepare" /\ op'.addr = op.addr /\ op'.txs = made
      BY <2>1, <2>3, <3>2, OpFacts DEF Ops, made
    <3> QED BY <2>1, <2>3, <3>3 DEF made
  <2> QED BY <1>6, <2>2, <2>3 DEF DryRun
<1> QED BY <1>3, <1>4, <1>5, <1>6

LEMMA PreparedKeepsIInv == ASSUME SweepIInv, Prepared PROVE SweepIInv'
<1> USE DEF SweepIInv
<1>1. /\ sweep' = Plan(op.addr, op.amount, op.txs) /\ sweep' \in Plans /\ op.what = "prepare"
  <2>1. PICK D \in SUBSET Targets : op.txs \in [D -> SUBSET Coin]
    BY OpFacts DEF Prepared, TxsFor
  <2>2. op.txs \in TxsFor((SUBSET Targets) \ {{}})
    BY <2>1 DEF Prepared, TxsFor
  <2> QED BY <2>2, OpFacts DEF Prepared, Plan, Plans
<1>2. sweep'.txs = op.txs /\ sweep'.addr = op.addr
  BY <1>1 DEF Plan
<1>3. /\ answers' \in Seq(Plans \cup {Nil})
      /\ \A i \in DOMAIN answers' : answers'[i] = sweep' \/ (i \in DOMAIN answers /\ answers'[i] = answers[i])
  BY <1>1, Answers DEF Prepared, SweepTypeOK
<1>4. SweepTypeOK'
  BY <1>1, <1>3 DEF Prepared, SweepTypeOK, Ops, form
<1>5. CoinInv'
  BY <1>1, <1>2 DEF Prepared, CoinInv, PlanIsStillGood, Idle
<1>6. FieldInv'
  BY <1>1, <1>2, <1>3 DEF Prepared, FieldInv, Idle, form
<1> QED BY <1>4, <1>5, <1>6 DEF Prepared, SentWhereAsked

LEMMA PublishKeepsIInv == ASSUME SweepIInv, Publish PROVE SweepIInv'
<1> USE DEF SweepIInv
<1>1. /\ op.what = "send" /\ sweep \in Plans /\ op.target \in DOMAIN sweep.txs
      /\ op \in [what: {"send"}, target: Targets, field: Addr \cup {Nil}, edited: BOOLEAN]
  BY OpFacts DEF Publish, SweepTypeOK
<1>2. Published \in [to: Addr, spends: SUBSET Coin, field: Addr \cup {Nil}, edited: BOOLEAN]
  BY <1>1, PlanFacts DEF Published, Plans
<1>3. Published.to = Published.field \/ Published.edited
  BY <1>1 DEF Published, FieldInv, Publish
<1>4. /\ answers' \in Seq(Plans \cup {Nil})
      /\ \A i \in DOMAIN answers' : answers'[i] = Nil \/ (i \in DOMAIN answers /\ answers'[i] = answers[i])
  BY Answers DEF Publish, SweepTypeOK
<1>5. SweepTypeOK'
  BY <1>2, <1>4 DEF Publish, SweepTypeOK, Ops, form
<1>6. CoinInv'
  BY DEF Publish, CoinInv, PlanIsStillGood, Idle
<1>7. FieldInv'
  BY <1>4 DEF Publish, FieldInv, Idle, form
<1> QED BY <1>3, <1>5, <1>6, <1>7 DEF Publish, SentWhereAsked

LEMMA CoinArrivesKeepsIInv == ASSUME SweepIInv, NEW k \in Coin, CoinArrives(k) PROVE SweepIInv'
BY DEF SweepIInv, CoinArrives, SweepTypeOK, CoinInv, PlanIsStillGood, FieldInv, SentWhereAsked, form

LEMMA StutterKeepsIInv == ASSUME SweepIInv, UNCHANGED sweepVars PROVE SweepIInv'
BY DEF SweepIInv, sweepVars, behind, form, SweepTypeOK, CoinInv, PlanIsStillGood, FieldInv, SentWhereAsked

LEMMA SpecSweepIInv == SweepSpec => []SweepIInv
<1>1. SweepIInv /\ [SweepNext]_sweepVars => SweepIInv'
  BY PageKeepsIInv, PrepareClickedKeepsIInv, PlanArrivesKeepsIInv, SendClickedKeepsIInv,
     SentArrivesKeepsIInv, PreparingKeepsIInv, PreparedKeepsIInv, PublishKeepsIInv,
     CoinArrivesKeepsIInv, StutterKeepsIInv DEF SweepNext
<1> QED BY InitSweepIInv, <1>1, PTL DEF SweepSpec

-----------------------------------------------------------------------------
(***************************************************************************)
(* Every variable has its type: the page never shows a plan without an     *)
(* option, nor chooses a target no plan has.                               *)
(***************************************************************************)
THEOREM SpecSweepTypeOK == SweepSpec => []SweepTypeOK
<1>1. SweepIInv => SweepTypeOK
  BY DEF SweepIInv
<1> QED BY SpecSweepIInv, <1>1, PTL

(***************************************************************************)
(* What BroadcastSweep (core/core.go:1055-1077) publishes spends coins     *)
(* that nothing published before has spent.                                *)
(***************************************************************************)
THEOREM PreparedCoinsAreThere == SweepSpec => []PlanIsStillGood
<1>1. SweepIInv => PlanIsStillGood
  BY DEF SweepIInv, CoinInv
<1> QED BY SpecSweepIInv, <1>1, PTL

(***************************************************************************)
(* The money goes where the page says, unless the address was changed      *)
(* between Continue and its answer.                                        *)
(***************************************************************************)
THEOREM MoneyGoesWhereAsked == SweepSpec => []SentWhereAsked
<1>1. SweepIInv => SentWhereAsked
  BY DEF SweepIInv
<1> QED BY SpecSweepIInv, <1>1, PTL
=============================================================================
