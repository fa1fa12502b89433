----------------------- MODULE SyncLifecycle_proofs -----------------------
(***************************************************************************)
(* What SyncLifecycle promises, proved for every set of payments, every    *)
(* wallet counter and chain, and any number of kills and failures.         *)
(*                                                                         *)
(* NothingFoundIsLost says nothing of the steps before the sync ends, so   *)
(* it is proved with the invariant IInv below: what is true of a payment   *)
(* at each stage between the walk that saw it and the wallet that shows it.*)
(***************************************************************************)
EXTENDS SyncLifecycle, TLAPS

\* Operations of the program in which the node answers.
NodeStages == {"first", "wait", "walk", "none", "propose", "finds", "advance",
               "sync", "verify", "tried"}

\* Stages of a search that has not been marked as done.
SearchStages == {"wait", "walk", "none", "finds", "advance"}

\* Stages after the walk, while its results are held in memory.
ResultStages == {"none", "propose", "finds", "advance"}

Reached == {p \in paid : Block[p] <= searched}

CountersInv ==
  /\ StartCounter <= counter
  /\ own = -1 \/ (StartCounter <= own /\ own <= counter)
  /\ pc = "advance" => next <= counter
  /\ searched <= tip
  /\ \A p \in blind : Address[p] >= StartCounter
  /\ \A p \in shown : Address[p] < counter

StagesInv ==
  /\ pc \in NodeStages => node
  /\ pc \in SearchStages => ~searchDone
  /\ pc \in {"propose", "sync", "verify", "tried"} => searchDone
  /\ pc = "verify" => scanned >= searched
  /\ pc = "unmark" => scanned = 0 /\ shown = {} /\ ~lnd

ResultsInv ==
  pc \in ResultStages =>
    /\ walkEnd = searched
    /\ hits \subseteq expFinds /\ ownTxs \subseteq expOwn
    /\ pc \in {"none", "propose"} => hits = {}
    /\ \A p \in blind : Address[p] >= own
    /\ own # -1 => Reached \subseteq hits \cup ownTxs \cup blind
    /\ own = -1 => \A p \in Reached : p \in hits \cup blind \/ Address[p] < StartCounter
    /\ \A p \in ownTxs : Address[p] < counter

\* A shortcut is only ever ordered when the search saw nothing at all.
ShortcutInv ==
  (knownOrder > 0 \/ pc = "apply") =>
    /\ searchDone /\ Searched = {}
    /\ knownOrder <= searched
    /\ pc = "apply" => order <= searched

WayBackInv ==
  searchDone => \A p \in Searched :
    /\ Address[p] < counter
    /\ p \in shown \cup noted \/ scanned < Block[p] \/ p \in expFinds \cup expOwn

EndInv ==
  outcome = "synced" =>
    /\ node /\ searchDone
    /\ pc \in {"idle", "first", "sync", "verify", "tried", "exit"}
    /\ Searched \subseteq shown \cup noted


FindsInv ==
  /\ CountersInv /\ StagesInv /\ ResultsInv /\ ShortcutInv
  /\ WayBackInv /\ EndInv /\ BackupPaymentsShown

IInv == TypeOK /\ FindsInv

-----------------------------------------------------------------------------
(* Type correctness.                                                       *)

LEMMA InitTypeOK == Init => TypeOK
  <1> SUFFICES ASSUME Init PROVE TypeOK
    OBVIOUS
  <1>1. -1 \in Nat \cup {-1}
    OBVIOUS
  <1> QED
    BY <1>1, ParametersAssumption DEF Init, TypeOK, PCs

LEMMA NextTypeOK == TypeOK /\ [Next]_vars => TypeOK'
  <1> SUFFICES ASSUME TypeOK, [Next]_vars PROVE TypeOK'
    OBVIOUS
  <1> USE DEF TypeOK, PCs, chainVars, markers, expected, wallet, library, session,
            search, seen, history, bounds
  <1>1. CASE Open
    BY <1>1 DEF Open, Goto
  <1>2. CASE StartNode
    BY <1>2 DEF StartNode
  <1>3. CASE TakeKnownOrder
    BY <1>3 DEF TakeKnownOrder
  <1>4. CASE ApplyKnownHistory
    <2>1. stuck' \in BOOLEAN
      BY <1>4, ParametersAssumption DEF ApplyKnownHistory
    <2> QED
      BY <1>4, <2>1 DEF ApplyKnownHistory, Goto
  <1>5. CASE KnownHistoryNotApplied
    BY <1>5 DEF KnownHistoryNotApplied, Goto
  <1>6. CASE KnownHistoryFails
    <2>1. stuck' \in BOOLEAN
      BY <1>6, ParametersAssumption DEF KnownHistoryFails
    <2>2. scanned' \in Nat
      BY <1>6 DEF KnownHistoryFails
    <2>3. pc' \in PCs /\ recheck' \in BOOLEAN
      BY <1>6 DEF KnownHistoryFails, Goto
    <2>4. UNCHANGED <<chainVars, chainReady, searchDone, tried, knownOrder, expected,
                      counter, shown, library, session, search, seen, history, bounds>>
      BY <1>6 DEF KnownHistoryFails
    <2> QED
      BY <2>1, <2>2, <2>3, <2>4
  <1>7. CASE NoRecheckOrdered
    BY <1>7 DEF NoRecheckOrdered, Goto
  <1>8. CASE DropHistory
    <2>1. rechecked' \in BOOLEAN
      BY <1>8 DEF DropHistory
    <2> QED
      BY <1>8, <2>1 DEF DropHistory, Goto
  <1>9. CASE RemoveRecheckOrder
    <2>1. pc' \in PCs /\ recheck' \in BOOLEAN
      BY <1>9 DEF RemoveRecheckOrder, Goto
    <2> QED
      BY <1>9, <2>1 DEF RemoveRecheckOrder
  <1>10. CASE ReadOwnScripts
    BY <1>10 DEF ReadOwnScripts, Goto
  <1>11. CASE LaunchLnd
    BY <1>11 DEF LaunchLnd, Goto
  <1>12. CASE FirstStart
    BY <1>12 DEF FirstStart, Goto
  <1>13. CASE NotFirstStart
    BY <1>13 DEF NotFirstStart
  <1>14. CASE BeginSearch
    BY <1>14 DEF BeginSearch, Goto
  <1>15. CASE WalkEnds
    BY <1>15 DEF WalkEnds, OnChain, HitsAt, OwnPaidAt
  <1>16. CASE MarkNoneFound
    BY <1>16 DEF MarkNoneFound, Goto
  <1>17. CASE ProposeKnownHistory
    <2>1. knownOrder' \in Nat
      BY <1>17, ParametersAssumption DEF ProposeKnownHistory, NothingToFind
    <2> QED
      BY <1>17, <2>1 DEF ProposeKnownHistory, Goto
  <1>18. CASE CheckInFull
    BY <1>18 DEF CheckInFull, Goto, SearchGone
  <1>19. CASE AllFindsKnown
    BY <1>19 DEF AllFindsKnown, Goto, SearchGone
  <1>20. CASE OrderCheckForFinds
    BY <1>20 DEF OrderCheckForFinds, Goto
  <1>21. CASE NextAddr
    BY <1>21 DEF NextAddr, PaidBelow
  <1>22. CASE AdvanceDone
    BY <1>22 DEF AdvanceDone, Goto, PaidBelow
  <1>23. CASE AdvanceMismatch
    BY <1>23 DEF AdvanceMismatch, Goto, SearchGone
  <1>24. CASE WalletSyncFailed
    BY <1>24 DEF WalletSyncFailed, Goto
  <1>25. CASE Synced
    BY <1>25 DEF Synced, Goto
  <1>26. CASE AllShown
    BY <1>26 DEF AllShown, Goto, Missing
  <1>27. CASE MarkTried
    BY <1>27 DEF MarkTried, Goto
  <1>28. CASE OrderFullCheck
    BY <1>28 DEF OrderFullCheck, Goto
  <1>29. CASE ReportMissing
    BY <1>29 DEF ReportMissing, Goto, Missing
  <1>30. CASE Exit
    BY <1>30 DEF Exit, ProcessEnds, SearchGone
  <1>31. CASE Kill
    <2>1. -1 \in Nat \cup {-1}
      OBVIOUS
    <2>2. kills' \in Nat /\ errors' \in Nat
      BY <1>31 DEF Kill
    <2> QED
      BY <1>31, <2>1, <2>2 DEF Kill, ProcessEnds, SearchGone
  <1>32. CASE OperationFails
    BY <1>32 DEF OperationFails, SearchGone, Fallible
  <1>33. CASE LaunchFails
    BY <1>33 DEF LaunchFails, Goto
  <1>34. CASE NewBlock
    BY <1>34 DEF NewBlock
  <1>35. CASE LndStartsCheck
    BY <1>35 DEF LndStartsCheck
  <1>36. CASE LndChecksBlock
    BY <1>36 DEF LndChecksBlock
  <1>37. CASE LndHandsOutAddress
    BY <1>37 DEF LndHandsOutAddress
  <1>38. CASE LndLogsSyncFailure
    BY <1>38 DEF LndLogsSyncFailure
  <1>39. CASE UNCHANGED vars
    BY <1>39 DEF vars
  <1> QED
    BY <1>1, <1>2, <1>3, <1>4, <1>5, <1>6, <1>7, <1>8, <1>9, <1>10, <1>11,
       <1>12, <1>13, <1>14, <1>15, <1>16, <1>17, <1>18, <1>19, <1>20, <1>21,
       <1>22, <1>23, <1>24, <1>25, <1>26, <1>27, <1>28, <1>29, <1>30, <1>31,
       <1>32, <1>33, <1>34, <1>35, <1>36, <1>37, <1>38, <1>39
       DEF Next, Program, Disturbance, Environment, StartSteps, SearchSteps,
           VerifySteps

(***************************************************************************)
(* TypeOK holds in every reachable state: every file, wallet and process    *)
(* variable of the life of a backup folder keeps the values the code gives  *)
(* it.                                                                     *)
(***************************************************************************)
THEOREM TypeCorrect == Spec => []TypeOK
  <1>1. Init => TypeOK
    BY InitTypeOK
  <1>2. TypeOK /\ [Next]_vars => TypeOK'
    BY NextTypeOK
  <1> QED
    BY <1>1, <1>2, PTL DEF Spec

-----------------------------------------------------------------------------
(* The invariant, one lemma for each part of the next-state relation.      *)

LEMMA InitFindsInv == Init => FindsInv
  BY ParametersAssumption
     DEF Init, FindsInv, CountersInv, StagesInv, ResultsInv, ShortcutInv,
         WayBackInv, EndInv, BackupPaymentsShown, NodeStages, SearchStages,
         ResultStages

\* StartNode: what every step of a start leaves true.
LEMMA StartPreserve ==
  ASSUME IInv, TypeOK', StartSteps
  PROVE  FindsInv'
  <1> USE ParametersAssumption
      DEF IInv, TypeOK, FindsInv, CountersInv, StagesInv, ResultsInv, ShortcutInv,
          WayBackInv, EndInv, BackupPaymentsShown, NodeStages, SearchStages,
          ResultStages, Searched, Reached, chainVars, markers, expected, wallet, library, session,
          search, seen, history, bounds
  <1>1. CASE Open
    BY <1>1 DEF Open, Goto
  <1>2. CASE StartNode
    BY <1>2 DEF StartNode
  <1>3. CASE TakeKnownOrder
    BY <1>3 DEF TakeKnownOrder
  <1>4. CASE ApplyKnownHistory
    BY <1>4 DEF ApplyKnownHistory, Goto
  <1>5. CASE KnownHistoryNotApplied
    BY <1>5 DEF KnownHistoryNotApplied, Goto
  <1>6. CASE KnownHistoryFails
    <2>1. /\ pc = "apply" /\ pc' = "order" /\ recheck' = TRUE
          /\ UNCHANGED <<chainVars, chainReady, searchDone, tried, knownOrder, expected,
                         counter, shown, library, session, search, seen, history, bounds>>
      BY <1>6 DEF KnownHistoryFails, Goto
    <2>2. scanned' = scanned \/ scanned' = order
      BY <1>6 DEF KnownHistoryFails
    <2>3. searchDone /\ Searched = {} /\ order <= searched
      BY <2>1
    <2>4. BackupPaymentsShown'
      <3> SUFFICES ASSUME NEW p \in paid, Address[p] < StartCounter,
                          Block[p] <= scanned', scanned' = order
                   PROVE  p \in shown
        BY <2>1, <2>2
      <3>1. p \in Searched
        BY <2>3
      <3> QED
        BY <2>3, <3>1
    <2>5. Searched' = {}
      BY <2>1, <2>3
    <2>6. (/\ CountersInv /\ StagesInv /\ ResultsInv)'
      BY <2>1
    <2>7. (/\ ShortcutInv /\ WayBackInv /\ EndInv)'
      BY <2>1, <2>3, <2>5
    <2> QED
      BY <2>4, <2>6, <2>7
  <1>7. CASE NoRecheckOrdered
    BY <1>7 DEF NoRecheckOrdered, Goto
  <1>8. CASE DropHistory
    BY <1>8 DEF DropHistory, Goto
  <1>9. CASE RemoveRecheckOrder
    BY <1>9 DEF RemoveRecheckOrder, Goto
  <1>10. CASE ReadOwnScripts
    BY <1>10 DEF ReadOwnScripts, Goto
  <1>11. CASE LaunchLnd
    BY <1>11 DEF LaunchLnd, Goto
  <1>12. CASE FirstStart
    BY <1>12 DEF FirstStart, Goto
  <1>13. CASE NotFirstStart
    BY <1>13 DEF NotFirstStart
  <1> QED
    BY <1>1, <1>2, <1>3, <1>4, <1>5, <1>6, <1>7, <1>8, <1>9, <1>10, <1>11,
       <1>12, <1>13 DEF StartSteps

\* findLaterFunds: from reading the counters to the mark that ends the search.
LEMMA SearchPreserve ==
  ASSUME IInv, TypeOK', SearchSteps
  PROVE  FindsInv'
  <1> USE ParametersAssumption
      DEF IInv, TypeOK, FindsInv, CountersInv, StagesInv, ResultsInv, ShortcutInv,
          WayBackInv, EndInv, BackupPaymentsShown, NodeStages, SearchStages,
          ResultStages, Searched, Reached, chainVars, markers, expected, wallet, library, session,
          search, seen, history, bounds
  <1>1. CASE BeginSearch
    BY <1>1 DEF BeginSearch, Goto
  <1>2. CASE WalkEnds
    BY <1>2 DEF WalkEnds, OnChain, HitsAt, OwnPaidAt
  <1>3. CASE MarkNoneFound
    BY <1>3 DEF MarkNoneFound, Goto
  <1>4. CASE ProposeKnownHistory
    BY <1>4 DEF ProposeKnownHistory, Goto, NothingToFind
  <1>5. CASE CheckInFull
    BY <1>5 DEF CheckInFull, Goto, SearchGone
  <1>6. CASE AllFindsKnown
    BY <1>6 DEF AllFindsKnown, Goto, SearchGone
  <1>7. CASE OrderCheckForFinds
    BY <1>7 DEF OrderCheckForFinds, Goto
  <1>8. CASE NextAddr
    BY <1>8 DEF NextAddr, PaidBelow
  <1>9. CASE AdvanceDone
    BY <1>9 DEF AdvanceDone, Goto, PaidBelow
  <1>10. CASE AdvanceMismatch
    BY <1>10 DEF AdvanceMismatch, Goto, SearchGone
  <1> QED
    BY <1>1, <1>2, <1>3, <1>4, <1>5, <1>6, <1>7, <1>8, <1>9, <1>10 DEF SearchSteps

\* The end of WaitSynced, and the exit that a restart asks for.
LEMMA EndPreserve ==
  ASSUME IInv, TypeOK', VerifySteps
  PROVE  FindsInv'
  <1> USE ParametersAssumption
      DEF IInv, TypeOK, FindsInv, CountersInv, StagesInv, ResultsInv, ShortcutInv,
          WayBackInv, EndInv, BackupPaymentsShown, NodeStages, SearchStages,
          ResultStages, Searched, Reached, chainVars, markers, expected, wallet, library, session,
          search, seen, history, bounds
  <1>1. CASE WalletSyncFailed
    BY <1>1 DEF WalletSyncFailed, Goto
  <1>2. CASE Synced
    BY <1>2 DEF Synced, Goto
  <1>3. CASE AllShown
    BY <1>3 DEF AllShown, Goto, Missing
  <1>4. CASE MarkTried
    BY <1>4 DEF MarkTried, Goto
  <1>5. CASE OrderFullCheck
    BY <1>5 DEF OrderFullCheck, Goto
  <1>6. CASE ReportMissing
    BY <1>6 DEF ReportMissing, Goto, Missing
  <1>7. CASE Exit
    BY <1>7 DEF Exit, ProcessEnds, SearchGone
  <1> QED
    BY <1>1, <1>2, <1>3, <1>4, <1>5, <1>6, <1>7 DEF VerifySteps

\* A kill loses the process; a failed operation loses the search.
LEMMA DisturbancePreserve ==
  ASSUME IInv, TypeOK', Disturbance
  PROVE  FindsInv'
  <1> USE ParametersAssumption
      DEF IInv, TypeOK, FindsInv, CountersInv, StagesInv, ResultsInv, ShortcutInv,
          WayBackInv, EndInv, BackupPaymentsShown, NodeStages, SearchStages,
          ResultStages, Searched, Reached, chainVars, markers, expected, wallet, library, session,
          search, seen, history, bounds
  <1>1. CASE Kill
    BY <1>1 DEF Kill, ProcessEnds, SearchGone
  <1>2. CASE OperationFails
    BY <1>2 DEF OperationFails, SearchGone, Fallible
  <1>3. CASE LaunchFails
    BY <1>3 DEF LaunchFails, Goto
  <1> QED
    BY <1>1, <1>2, <1>3 DEF Disturbance

\* The chain grows, lnd checks blocks and hands out addresses.
LEMMA EnvironmentPreserve ==
  ASSUME IInv, TypeOK', Environment
  PROVE  FindsInv'
  <1> USE ParametersAssumption
      DEF IInv, TypeOK, FindsInv, CountersInv, StagesInv, ResultsInv, ShortcutInv,
          WayBackInv, EndInv, BackupPaymentsShown, NodeStages, SearchStages,
          ResultStages, Searched, Reached, chainVars, markers, expected, wallet, library, session,
          search, seen, history, bounds
  <1>1. CASE NewBlock
    BY <1>1 DEF NewBlock
  <1>2. CASE LndStartsCheck
    BY <1>2 DEF LndStartsCheck
  <1>3. CASE LndChecksBlock
    BY <1>3 DEF LndChecksBlock
  <1>4. CASE LndHandsOutAddress
    BY <1>4 DEF LndHandsOutAddress
  <1>5. CASE LndLogsSyncFailure
    BY <1>5 DEF LndLogsSyncFailure
  <1> QED
    BY <1>1, <1>2, <1>3, <1>4, <1>5 DEF Environment

LEMMA NextFindsInv == IInv /\ TypeOK' /\ [Next]_vars => FindsInv'
  <1> SUFFICES ASSUME IInv, TypeOK', [Next]_vars PROVE FindsInv'
    OBVIOUS
  <1>1. CASE Program
    BY <1>1, StartPreserve, SearchPreserve, EndPreserve DEF Program
  <1>2. CASE Disturbance
    BY <1>2, DisturbancePreserve
  <1>3. CASE Environment
    BY <1>3, EnvironmentPreserve
  <1>4. CASE UNCHANGED vars
    BY <1>4 DEF vars, IInv, FindsInv, CountersInv, StagesInv, ResultsInv,
         ShortcutInv, WayBackInv, EndInv, BackupPaymentsShown, Searched, Reached,
         chainVars, markers, expected, wallet, library, session, search, seen,
         history, bounds
  <1> QED
    BY <1>1, <1>2, <1>3, <1>4 DEF Next

THEOREM Invariance == Spec => []IInv
  <1>1. Init => IInv
    BY InitTypeOK, InitFindsInv DEF IInv
  <1>2. IInv /\ [Next]_vars => IInv'
    BY NextTypeOK, NextFindsInv DEF IInv
  <1> QED
    BY <1>1, <1>2, PTL DEF Spec

-----------------------------------------------------------------------------
(***************************************************************************)
(* An order for a full history check is withdrawn only after the drop of   *)
(* the wallet's history (StartNode).                                       *)
(***************************************************************************)
THEOREM OrderStandsUntilDroppedHolds == Spec => OrderStandsUntilDropped
  <1>1. ASSUME IInv, [Next]_vars, recheck, ~recheck'
        PROVE  scanned' = 0 /\ shown' = {} /\ ~lnd'
    <2>1. RemoveRecheckOrder
      BY <1>1 DEF Next, Program, Disturbance, Environment, StartSteps, SearchSteps,
        VerifySteps, Open, StartNode, TakeKnownOrder, ApplyKnownHistory,
        KnownHistoryNotApplied, KnownHistoryFails, NoRecheckOrdered, DropHistory,
        ReadOwnScripts, LaunchLnd, FirstStart, NotFirstStart, BeginSearch, WalkEnds,
        MarkNoneFound, ProposeKnownHistory, CheckInFull, AllFindsKnown,
        OrderCheckForFinds, NextAddr, AdvanceDone, AdvanceMismatch,
        WalletSyncFailed, Synced, AllShown, MarkTried, OrderFullCheck,
        ReportMissing, Exit, Kill, ProcessEnds, OperationFails, LaunchFails,
        NewBlock, LndStartsCheck, LndChecksBlock, LndHandsOutAddress,
        LndLogsSyncFailure, vars, markers
    <2> QED
      BY <1>1, <2>1 DEF RemoveRecheckOrder, Goto, IInv, FindsInv, StagesInv, wallet,
        library
  <1>2. IInv /\ [Next]_vars
          => [recheck /\ ~recheck' => scanned' = 0 /\ shown' = {} /\ ~lnd']_vars
    BY <1>1
  <1> QED
    BY <1>2, Invariance, PTL DEF Spec, OrderStandsUntilDropped

(***************************************************************************)
(* The shortcut skips no payment to an address lnd's own check covers      *)
(* (proposeKnownHistory), whatever lnd handed out since the scripts of the *)
(* wallet were read.                                                       *)
(***************************************************************************)
THEOREM NothingCoveredIsSkippedHolds == Spec => NothingCoveredIsSkipped
  <1>1. ASSUME IInv, [Next]_vars, knownOrder' > knownOrder, NEW p \in paid,
               Block[p] <= knownOrder'
        PROVE  Address[p] >= covered
    <2>1. ProposeKnownHistory
      <3>1. knownOrder' # knownOrder /\ knownOrder' # 0
        BY <1>1 DEF IInv, TypeOK
      <3>2. ~StartSteps
        BY <3>1 DEF StartSteps, Open, StartNode, TakeKnownOrder, ApplyKnownHistory,
          KnownHistoryNotApplied, KnownHistoryFails, NoRecheckOrdered, DropHistory,
          RemoveRecheckOrder, ReadOwnScripts, LaunchLnd, FirstStart, NotFirstStart,
          markers
      <3>3. ~VerifySteps
        BY <3>1 DEF VerifySteps, WalletSyncFailed, Synced, AllShown, MarkTried,
          OrderFullCheck, ReportMissing, Exit, ProcessEnds, markers
      <3>4. ~Disturbance /\ ~Environment /\ vars' # vars
        BY <3>1 DEF Disturbance, Environment, Kill, ProcessEnds, OperationFails,
          LaunchFails, NewBlock, LndStartsCheck, LndChecksBlock,
          LndHandsOutAddress, LndLogsSyncFailure, vars, markers
      <3>5. SearchSteps => ProposeKnownHistory
        BY <3>1 DEF SearchSteps, BeginSearch, WalkEnds, MarkNoneFound, CheckInFull,
          AllFindsKnown, OrderCheckForFinds, NextAddr, AdvanceDone,
          AdvanceMismatch, markers
      <3> QED
        BY <1>1, <3>2, <3>3, <3>4, <3>5 DEF Next, Program
    <2>2. /\ pc = "propose" /\ knownOrder' = walkEnd - Margin
          /\ own # -1 /\ ownTxs = {} /\ covered = own
      BY <2>1 DEF ProposeKnownHistory, NothingToFind, Goto
    <2>3. p \in Reached
      BY <1>1, <2>2, ParametersAssumption
         DEF IInv, TypeOK, FindsInv, ResultsInv, ResultStages, Reached
    <2>4. /\ hits = {} /\ p \in hits \cup ownTxs \cup blind
          /\ \A q \in blind : Address[q] >= own
      <3>1. ResultsInv
        BY <1>1 DEF IInv, FindsInv
      <3>2. pc \in ResultStages /\ pc \in {"none", "propose"}
        BY <2>2 DEF ResultStages
      <3>3. /\ hits = {} /\ Reached \subseteq hits \cup ownTxs \cup blind
            /\ \A q \in blind : Address[q] >= own
        BY <2>2, <3>1, <3>2 DEF ResultsInv
      <3> QED
        BY <2>3, <3>3
    <2>5. p \in blind
      BY <2>2, <2>4
    <2> QED
      BY <2>2, <2>4, <2>5
  <1>2. IInv /\ [Next]_vars
          => [knownOrder' > knownOrder =>
                \A p \in paid : Block[p] <= knownOrder' => Address[p] >= covered]_vars
    BY <1>1
  <1> QED
    BY <1>2, Invariance, PTL DEF Spec, NothingCoveredIsSkipped

-----------------------------------------------------------------------------
(***************************************************************************)
(* A sync that ends well shows, or has told the user about, every payment  *)
(* the search could see (WaitSynced with findLaterFunds and verifyFound).  *)
(***************************************************************************)
THEOREM NothingFoundIsLostHolds == Spec => []NothingFoundIsLost
  <1>1. IInv => NothingFoundIsLost
    BY DEF IInv, FindsInv, EndInv, NothingFoundIsLost
  <1> QED
    BY <1>1, Invariance, PTL

(***************************************************************************)
(* The history shortcut never makes the wallet pass a block with a payment *)
(* to an address of the backup (proposeKnownHistory, applyKnownHistory).   *)
(***************************************************************************)
THEOREM BackupPaymentsShownHolds == Spec => []BackupPaymentsShown
  <1>1. IInv => BackupPaymentsShown
    BY DEF IInv, FindsInv
  <1> QED
    BY <1>1, Invariance, PTL

(***************************************************************************)
(* Once the search counts as done every address found paid is derived      *)
(* (findLaterFunds, advanceTo).                                            *)
(***************************************************************************)
THEOREM FindsAreDerivedHolds == Spec => []FindsAreDerived
  <1>1. IInv => FindsAreDerived
    BY DEF IInv, FindsInv, WayBackInv, FindsAreDerived
  <1> QED
    BY <1>1, Invariance, PTL

(***************************************************************************)
(* ... and each such payment is shown, still ahead of the history check,   *)
(* or on file for verifyFound.                                             *)
(***************************************************************************)
THEOREM EveryFindHasAWayBackHolds == Spec => []EveryFindHasAWayBack
  <1>1. IInv => EveryFindHasAWayBack
    BY DEF IInv, FindsInv, WayBackInv, EveryFindHasAWayBack
  <1> QED
    BY <1>1, Invariance, PTL
=============================================================================
