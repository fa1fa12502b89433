--------------------------- MODULE SyncLifecycle ---------------------------
(***************************************************************************)
(* The life of one restored backup folder, over as many program starts as  *)
(* it takes: StartNode, firstStart, WaitSynced, findLaterFunds, verifyFound *)
(* (core/core.go, core/addrscan.go) and the history shortcut               *)
(* (core/syncskip.go).  The program talks to its next start only through   *)
(* marker files; it can be killed between any two of them.                 *)
(*                                                                         *)
(* Simplifications.  One address branch stands for the wallet's branches   *)
(* (each is searched and advanced by itself).  The walk over the chain is  *)
(* one step here: what it recognises is the subject of ChainWalk.          *)
(* Files are written atomically (writeFileAtomic, core.go:697) and disk    *)
(* errors are not modelled.  The chain only grows.                         *)
(*                                                                         *)
(* lnd and its wallet are external: a history check that passes one block  *)
(* at a time and shows the payments to the addresses derived so far, and   *)
(* that may hand out an address of its own at any time.                    *)
(***************************************************************************)
EXTENDS Integers

CONSTANTS
  Payments,      \* payments to addresses of this wallet that may be on chain
  Address,       \* the address index each one pays
  Block,         \* the block each one is in
  StartCounter,  \* the wallet's address counter in the backup
  StartTip,      \* the chain tip when the backup is restored
  MaxTip,        \* bound: blocks found while the program runs
  MaxCounter,    \* bound: addresses lnd hands out for itself
  Margin,        \* knownBelowTip: how far below the walk's end the shortcut stands
  MaxKills,      \* bound: kills and power losses
  MaxErrors,     \* bound: operations ended by an error, a timeout or Cancel
  Unsyncable     \* may the wallet refuse the sync state the shortcut wrote?

ASSUME ParametersAssumption ==
  /\ Address \in [Payments -> Nat]
  /\ Block \in [Payments -> Nat \ {0}]
  /\ StartCounter \in Nat /\ StartTip \in Nat /\ Margin \in Nat
  /\ MaxTip \in Nat /\ MaxCounter \in Nat
  /\ MaxKills \in Nat /\ MaxErrors \in Nat
  /\ Unsyncable \in BOOLEAN

VARIABLES
  paid,          \* the chain: which of the payments are really made
  tip,           \* the chain: its height
  (* the backup's folder *)
  chainReady,    \* file chain-ready
  searchDone,    \* file addresses-extended
  recheck,       \* file history-recheck: a full history check is ordered
  tried,         \* file history-recheck-tried
  knownOrder,    \* file history-known.json: the block to skip to, 0 without it
  expFinds,      \* file found-funds.json: finds past the wallet's counter
  expOwn,        \* file found-funds.json: payments to addresses it had
  counter,       \* wallet.db: addresses derived
  scanned,       \* wallet.db: block the history check has reached
  shown,         \* wallet.db: payments the wallet shows
  stuck,         \* wallet.db: a sync state btcwallet cannot start from
  (* the process *)
  pc,            \* what the program is doing
  lnd,           \* lnd runs in this process
  node,          \* c.node # nil
  own,           \* len(c.ownScripts), -1 for nil
  skippedTo,     \* c.skippedTo, then n.wroteSyncState
  covered,       \* rescan.addresses, -1 until lnd starts its check
  failLine,      \* rescan.walletSyncFailed
  order,         \* the shortcut order being carried out
  next,          \* b.next of the search's branch
  hits,          \* watch.hits
  ownTxs,        \* watch.ownTxs
  walkEnd,       \* walk.next - 1
  lastIndex,     \* the address the wallet derived last for advanceTo
  (* the user's view and history *)
  outcome,       \* how the last StartAndSync ended
  noted,         \* payments the log told the user about
  searched,      \* history: the tip the completed search reached, 0 before
  blind,         \* history: payments that search could not recognise
  rechecked,     \* history: a drop was carried out after history-recheck-tried
  kills, errors  \* how often it was killed, how often an operation failed

chainVars  == <<paid, tip>>
markers    == <<chainReady, searchDone, recheck, tried, knownOrder>>
expected   == <<expFinds, expOwn>>
wallet     == <<counter, scanned, shown, stuck>>
library    == <<lnd, node, covered, failLine>>
session    == <<own, skippedTo, order>>
search     == <<next, hits, ownTxs, walkEnd, lastIndex>>
seen       == <<outcome, noted>>
history    == <<searched, blind, rechecked>>
bounds     == <<kills, errors>>

vars == <<chainVars, markers, expected, wallet, pc, library, session, search,
          seen, history, bounds>>

PCs == {"off", "idle", "carry", "apply", "order", "unmark", "init", "launch",
        "first", "wait", "walk", "none", "propose", "finds", "advance",
        "sync", "verify", "tried", "exit"}

OnChain == {p \in paid : Block[p] <= tip}

(***************************************************************************)
(* What the walk recognises once it has reached the tip: finds at or past  *)
(* the counter it read (newAddressWatch), and payments to the scripts read *)
(* before lnd started.                                                     *)
(***************************************************************************)
HitsAt(n) == {p \in OnChain : Address[p] >= n}
OwnPaidAt(n) == {p \in OnChain : Address[p] < n}

\* b.paidTo <= n: no find lies at or past index n.
PaidBelow(n) == \A p \in hits : Address[p] < n

-----------------------------------------------------------------------------
Init ==
  /\ paid \in SUBSET Payments
  /\ tip = StartTip
  /\ chainReady = FALSE /\ searchDone = FALSE
  /\ recheck = FALSE /\ tried = FALSE /\ knownOrder = 0
  /\ expFinds = {} /\ expOwn = {}
  /\ counter = StartCounter /\ scanned = 0 /\ shown = {} /\ stuck = FALSE
  /\ pc = "off"
  /\ lnd = FALSE /\ node = FALSE /\ covered = -1 /\ failLine = FALSE
  /\ own = -1 /\ skippedTo = 0 /\ order = 0
  /\ next = 0 /\ hits = {} /\ ownTxs = {} /\ walkEnd = 0 /\ lastIndex = -1
  /\ outcome = "none" /\ noted = {}
  /\ searched = 0 /\ blind = {} /\ rechecked = FALSE
  /\ kills = 0 /\ errors = 0

Goto(from, to) == pc = from /\ pc' = to

-----------------------------------------------------------------------------
(* Program start and end.                                                  *)

Open ==
  /\ Goto("off", "idle")
  /\ UNCHANGED <<chainVars, markers, expected, wallet, library, session,
                 search, seen, history, bounds>>

\* The locals of findLaterFunds.
SearchGone ==
  /\ next' = 0 /\ hits' = {} /\ ownTxs' = {} /\ walkEnd' = 0 /\ lastIndex' = -1

\* Everything a process holds is gone when it ends.
ProcessEnds ==
  /\ pc' = "off"
  /\ lnd' = FALSE /\ node' = FALSE /\ covered' = -1 /\ failLine' = FALSE
  /\ own' = -1 /\ skippedTo' = 0 /\ order' = 0
  /\ SearchGone
  /\ outcome' = "none"
  /\ UNCHANGED <<chainVars, markers, expected, wallet, noted, history>>

\* ErrRestartRequired: the app starts its next copy and exits.
Exit ==
  /\ pc = "exit"
  /\ ProcessEnds
  /\ UNCHANGED bounds

Kill ==
  /\ pc # "off" /\ kills < MaxKills
  /\ ProcessEnds
  /\ kills' = kills + 1
  /\ UNCHANGED errors

(* An error, a timeout or Cancel ends the operation; the process and a     *)
(* node that runs stay.                                                    *)
Fallible == {"order", "init", "launch", "first", "wait", "walk", "propose",
             "finds", "advance", "sync", "verify"}

OperationFails ==
  /\ pc \in Fallible /\ errors < MaxErrors
  /\ pc' = "idle"
  /\ outcome' = "error"
  /\ errors' = errors + 1
  /\ SearchGone
  /\ UNCHANGED <<chainVars, markers, expected, wallet, library, session,
                 noted, history, kills>>

-----------------------------------------------------------------------------
(* StartNode.                                                              *)

StartNode ==
  /\ pc = "idle"
  /\ pc' = IF node THEN "first" ELSE "carry"
  /\ UNCHANGED <<chainVars, markers, expected, wallet, library, session,
                 search, seen, history, bounds>>

\* carryOutKnownHistory: the order is removed before anything is done.
TakeKnownOrder ==
  /\ pc = "carry"
  /\ pc' = IF knownOrder = 0 THEN "order" ELSE "apply"
  /\ order' = knownOrder
  /\ knownOrder' = 0
  /\ UNCHANGED <<chainVars, chainReady, searchDone, recheck, tried, expected,
                 wallet, library, own, skippedTo, search, seen, history, bounds>>

\* The wallet takes the sync state; it may turn out to be one it cannot use.
ApplyKnownHistory ==
  /\ Goto("apply", "order") /\ ~lnd
  /\ scanned' = order
  /\ skippedTo' = order
  /\ stuck' \in {FALSE, Unsyncable}
  /\ UNCHANGED <<chainVars, markers, expected, counter, shown, library, own,
                 order, search, seen, history, bounds>>

\* No verified birthday block below the blocks to write.
KnownHistoryNotApplied ==
  /\ Goto("apply", "order") /\ ~lnd
  /\ UNCHANGED <<chainVars, markers, expected, wallet, library, session,
                 search, seen, history, bounds>>

\* Before or after the write: the history is checked from the start.
KnownHistoryFails ==
  /\ Goto("apply", "order")
  /\ recheck' = TRUE
  /\ \/ UNCHANGED <<scanned, stuck>>
     \/ ~lnd /\ scanned' = order /\ stuck' \in {FALSE, Unsyncable}
  /\ UNCHANGED <<chainVars, chainReady, searchDone, tried, knownOrder, expected,
                 counter, shown, library, session, search, seen, history, bounds>>

NoRecheckOrdered ==
  /\ Goto("order", "init") /\ ~recheck
  /\ UNCHANGED <<chainVars, markers, expected, wallet, library, session,
                 search, seen, history, bounds>>

\* Mutant: a drop that failed is passed over.
DropHistoryOrNot ==
  /\ Goto("order", "unmark") /\ recheck /\ ~lnd
  /\ \/ UNCHANGED <<scanned, shown, stuck, rechecked>>
     \/ scanned' = 0 /\ shown' = {} /\ stuck' = FALSE /\ rechecked' = (rechecked \/ tried)
  /\ UNCHANGED <<chainVars, markers, expected, counter, library, session,
                 search, seen, searched, blind, bounds>>

\* dropwtx.Drop: the transaction store goes, the sync state is the birthday's.
DropHistory ==
  /\ Goto("order", "unmark") /\ recheck /\ ~lnd
  /\ scanned' = 0 /\ shown' = {} /\ stuck' = FALSE
  /\ rechecked' = (rechecked \/ tried)
  /\ UNCHANGED <<chainVars, markers, expected, counter, library, session,
                 search, seen, searched, blind, bounds>>

RemoveRecheckOrder ==
  /\ Goto("unmark", "init")
  /\ recheck' = FALSE
  /\ UNCHANGED <<chainVars, chainReady, searchDone, tried, knownOrder, expected,
                 wallet, library, session, search, seen, history, bounds>>

\* walletScripts; a failure, and a file lnd holds, only leaves c.ownScripts be.
ReadOwnScripts ==
  /\ Goto("init", "launch")
  /\ own' \in {own} \cup (IF searchDone \/ lnd THEN {} ELSE {counter})
  /\ UNCHANGED <<chainVars, markers, expected, wallet, library, skippedTo,
                 order, search, seen, history, bounds>>

LaunchLnd ==
  /\ Goto("launch", "first")
  /\ lnd' = TRUE /\ node' = TRUE
  /\ UNCHANGED <<chainVars, markers, expected, wallet, covered, failLine,
                 session, search, seen, history, bounds>>

\* bindings.Start was called, then the wait for the RPC ended without it.
LaunchFails ==
  /\ Goto("launch", "idle") /\ errors < MaxErrors
  /\ lnd' = TRUE
  /\ errors' = errors + 1 /\ outcome' = "error"
  /\ UNCHANGED <<chainVars, markers, expected, wallet, node, covered, failLine,
                 session, search, noted, history, kills>>

\* Mutant: the mark that makes the next start the one that counts is forgotten.
FirstStartUnmarked ==
  /\ Goto("first", "exit") /\ ~searchDone /\ ~chainReady
  /\ UNCHANGED <<chainVars, markers, expected,
                 wallet, library, session, search, seen, history, bounds>>

\* firstStart once the headers are in: the start that counts is the next one.
FirstStart ==
  /\ Goto("first", "exit") /\ ~searchDone /\ ~chainReady
  /\ chainReady' = TRUE
  /\ UNCHANGED <<chainVars, searchDone, recheck, tried, knownOrder, expected,
                 wallet, library, session, search, seen, history, bounds>>

NotFirstStart ==
  /\ pc = "first" /\ (searchDone \/ chainReady)
  /\ pc' = IF searchDone THEN "sync" ELSE "wait"
  /\ UNCHANGED <<chainVars, markers, expected, wallet, library, session,
                 search, seen, history, bounds>>

-----------------------------------------------------------------------------
(* findLaterFunds, from WaitSynced.                                        *)

\* The stage "rescan" is reached and the headers are in: read the branches.
BeginSearch ==
  /\ Goto("wait", "walk")
  /\ next' = counter
  /\ UNCHANGED <<chainVars, markers, expected, wallet, library, session,
                 hits, ownTxs, walkEnd, lastIndex, seen, history, bounds>>

\* Mutant: only the finds past the counter are put on file.
WalkEndsFindsOnly ==
  /\ pc = "walk"
  /\ hits' = HitsAt(next) /\ ownTxs' = OwnPaidAt(own) /\ walkEnd' = tip
  /\ pc' = IF hits' = {} THEN "none" ELSE "finds"
  /\ IF hits' = {} THEN UNCHANGED expected ELSE expFinds' = hits' /\ expOwn' = {}
  /\ searched' = tip
  /\ blind' = {p \in OnChain : Address[p] < next /\ Address[p] >= own
                                /\ Address[p] >= StartCounter}
  /\ UNCHANGED <<chainVars, markers, wallet, library, session, next, lastIndex,
                 seen, rechecked, bounds>>

\* The walk reaches the tip; the finds file is written unless it is empty.
WalkEnds ==
  /\ pc = "walk"
  /\ hits' = HitsAt(next) /\ ownTxs' = OwnPaidAt(own) /\ walkEnd' = tip
  /\ pc' = IF hits' = {} THEN "none" ELSE "finds"
  /\ IF hits' \cup ownTxs' = {}
     THEN UNCHANGED expected
     ELSE expFinds' = hits' /\ expOwn' = ownTxs'
  /\ searched' = tip
  /\ blind' = {p \in OnChain : Address[p] < next /\ Address[p] >= own
                                /\ Address[p] >= StartCounter}
  /\ UNCHANGED <<chainVars, markers, wallet, library, session, next, lastIndex,
                 seen, rechecked, bounds>>

MarkNoneFound ==
  /\ Goto("none", "propose")
  /\ searchDone' = TRUE
  /\ UNCHANGED <<chainVars, chainReady, recheck, tried, knownOrder, expected,
                 wallet, library, session, search, seen, history, bounds>>

\* Mutant: payments to the addresses the wallet has are not looked at.
NothingToFindPastCounter ==
  /\ own # -1 /\ covered > 0 /\ covered = own
  /\ walkEnd >= Margin + 2

\* Mutant: how many addresses lnd's check covers is not compared.
NothingToFindUncounted ==
  /\ own # -1 /\ ownTxs = {} /\ shown = {}
  /\ covered > 0
  /\ walkEnd >= Margin + 2

(* proposeKnownHistory: the walk also proved that the wallet's own check   *)
(* has nothing to find up to a block below the walk's end.                 *)
NothingToFind ==
  /\ own # -1 /\ ownTxs = {} /\ shown = {}
  /\ covered > 0 /\ covered = own
  /\ walkEnd >= Margin + 2

ProposeKnownHistory ==
  /\ Goto("propose", "exit") /\ NothingToFind
  /\ knownOrder' = walkEnd - Margin
  /\ UNCHANGED <<chainVars, chainReady, searchDone, recheck, tried, expected,
                 wallet, library, session, search, seen, history, bounds>>

CheckInFull ==
  /\ Goto("propose", "sync") /\ ~NothingToFind
  /\ SearchGone
  /\ UNCHANGED <<chainVars, markers, expected, wallet, library, session, seen,
                 history, bounds>>

\* lnd handed the addresses out itself and its check passed the payments.
AllFindsKnown ==
  /\ Goto("finds", "sync") /\ hits \subseteq shown
  /\ searchDone' = TRUE
  /\ SearchGone
  /\ UNCHANGED <<chainVars, chainReady, recheck, tried, knownOrder, expected,
                 wallet, library, session, seen, history, bounds>>

\* Ordered before the wallet is touched; then the counters are read again.
OrderCheckForFinds ==
  /\ Goto("finds", "advance") /\ ~(hits \subseteq shown)
  /\ recheck' = TRUE
  /\ next' = counter
  /\ UNCHANGED <<chainVars, chainReady, searchDone, tried, knownOrder, expected,
                 wallet, library, session, hits, ownTxs, walkEnd, lastIndex,
                 seen, history, bounds>>

\* advanceTo: one NextAddr at a time, never run again.
NextAddr ==
  /\ pc = "advance" /\ ~PaidBelow(next)
  /\ counter' = counter + 1 /\ lastIndex' = counter
  /\ next' = next + 1
  /\ UNCHANGED <<chainVars, markers, expected, scanned, shown, stuck, pc,
                 library, session, hits, ownTxs, walkEnd, seen, history, bounds>>

\* The wallet arrived where the search expects it, or needed no advance.
Arrived == lastIndex \in {-1, next - 1}

\* Mutant: done as soon as the advance has begun.
AdvanceDoneEarly ==
  /\ Goto("advance", "exit") /\ Arrived
  /\ searchDone' = TRUE
  /\ UNCHANGED <<chainVars, chainReady, recheck, tried, knownOrder, expected,
                 wallet, library, session, search, seen, history, bounds>>

AdvanceDone ==
  /\ Goto("advance", "exit") /\ PaidBelow(next) /\ Arrived
  /\ searchDone' = TRUE
  /\ UNCHANGED <<chainVars, chainReady, recheck, tried, knownOrder, expected,
                 wallet, library, session, search, seen, history, bounds>>

\* lnd took an address in between: an error, and the search runs again.
AdvanceMismatch ==
  /\ Goto("advance", "idle") /\ PaidBelow(next) /\ ~Arrived
  /\ outcome' = "error"
  /\ SearchGone
  /\ UNCHANGED <<chainVars, markers, expected, wallet, library, session, noted,
                 history, bounds>>

-----------------------------------------------------------------------------
(* The rest of WaitSynced.                                                 *)

\* Mutant: treated like any other failure of the sync, to be tried again.
WalletSyncFailedAgain ==
  /\ Goto("sync", "idle") /\ failLine /\ skippedTo > 0
  /\ UNCHANGED <<chainVars, markers, expected,
                 wallet, library, session, search, seen, history, bounds>>

\* errWalletSync: only a start that wrote the sync state itself acts on it.
WalletSyncFailed ==
  /\ Goto("sync", "exit") /\ failLine /\ skippedTo > 0
  /\ recheck' = TRUE
  /\ UNCHANGED <<chainVars, chainReady, searchDone, tried, knownOrder, expected,
                 wallet, library, session, search, seen, history, bounds>>

Synced ==
  /\ Goto("sync", "verify") /\ lnd /\ covered >= 0 /\ ~stuck /\ scanned >= tip
  /\ UNCHANGED <<chainVars, markers, expected, wallet, library, session,
                 search, seen, history, bounds>>

Missing == (expFinds \cup expOwn) \ shown

\* Mutant: the finds alone are looked for in the wallet.
AllShownFindsOnly ==
  /\ Goto("verify", "idle") /\ expFinds \subseteq shown
  /\ expFinds' = {} /\ expOwn' = {}
  /\ outcome' = "synced"
  /\ UNCHANGED <<chainVars, markers, wallet, library, session, search, noted,
                 history, bounds>>

\* verifyFound: the wallet shows every payment on file, or there is no file.
AllShown ==
  /\ Goto("verify", "idle") /\ Missing = {}
  /\ expFinds' = {} /\ expOwn' = {}
  /\ outcome' = "synced"
  /\ UNCHANGED <<chainVars, markers, wallet, library, session, search, noted,
                 history, bounds>>

MarkTried ==
  /\ Goto("verify", "tried") /\ Missing # {} /\ ~tried
  /\ tried' = TRUE
  /\ UNCHANGED <<chainVars, chainReady, searchDone, recheck, knownOrder, expected,
                 wallet, library, session, search, seen, history, bounds>>

OrderFullCheck ==
  /\ Goto("tried", "exit")
  /\ recheck' = TRUE
  /\ UNCHANGED <<chainVars, chainReady, searchDone, tried, knownOrder, expected,
                 wallet, library, session, search, seen, history, bounds>>

\* Still missing: an error for a find, a note in the log for the others.
ReportMissing ==
  /\ Goto("verify", "idle") /\ Missing # {} /\ tried
  /\ noted' = noted \cup Missing
  /\ IF expFinds \subseteq shown
     THEN expFinds' = {} /\ expOwn' = {} /\ outcome' = "synced"
     ELSE UNCHANGED expected /\ outcome' = "missing"
  /\ UNCHANGED <<chainVars, markers, wallet, library, session, search, history,
                 bounds>>

-----------------------------------------------------------------------------
(* The chain, and lnd while it runs.                                       *)

NewBlock ==
  /\ tip < MaxTip
  /\ tip' = tip + 1
  /\ UNCHANGED <<paid, markers, expected, wallet, pc, library, session, search,
                 seen, history, bounds>>

\* "Started rescan ... for N addresses".
LndStartsCheck ==
  /\ lnd /\ covered = -1 /\ ~stuck
  /\ covered' = counter
  /\ UNCHANGED <<chainVars, markers, expected, wallet, pc, lnd, node, failLine,
                 session, search, seen, history, bounds>>

LndChecksBlock ==
  /\ lnd /\ covered >= 0 /\ ~stuck /\ scanned < tip
  /\ scanned' = scanned + 1
  /\ shown' = shown \cup {p \in paid : Block[p] = scanned + 1 /\ Address[p] < counter}
  /\ UNCHANGED <<chainVars, markers, expected, counter, stuck, pc, library,
                 session, search, seen, history, bounds>>

\* For a sweep of its own; not looked for in the blocks already passed.
LndHandsOutAddress ==
  /\ lnd /\ counter < MaxCounter
  /\ counter' = counter + 1
  /\ UNCHANGED <<chainVars, markers, expected, scanned, shown, stuck, pc,
                 library, session, search, seen, history, bounds>>

\* "Unable to synchronize wallet to chain": stuck, or a passing trouble.
LndLogsSyncFailure ==
  /\ lnd /\ ~failLine
  /\ failLine' = TRUE
  /\ UNCHANGED <<chainVars, markers, expected, wallet, pc, lnd, node, covered,
                 session, search, seen, history, bounds>>

-----------------------------------------------------------------------------
StartSteps ==
  \/ Open \/ StartNode \/ TakeKnownOrder
  \/ ApplyKnownHistory \/ KnownHistoryNotApplied \/ KnownHistoryFails
  \/ NoRecheckOrdered \/ DropHistory \/ RemoveRecheckOrder
  \/ ReadOwnScripts \/ LaunchLnd \/ FirstStart \/ NotFirstStart

SearchSteps ==
  \/ BeginSearch \/ WalkEnds \/ MarkNoneFound
  \/ ProposeKnownHistory \/ CheckInFull
  \/ AllFindsKnown \/ OrderCheckForFinds
  \/ NextAddr \/ AdvanceDone \/ AdvanceMismatch

VerifySteps ==
  \/ WalletSyncFailed \/ Synced
  \/ AllShown \/ MarkTried \/ OrderFullCheck \/ ReportMissing \/ Exit

Program == StartSteps \/ SearchSteps \/ VerifySteps

Disturbance == Kill \/ OperationFails \/ LaunchFails

Environment ==
  \/ NewBlock \/ LndStartsCheck \/ LndChecksBlock
  \/ LndHandsOutAddress \/ LndLogsSyncFailure

Next == Program \/ Disturbance \/ Environment

(***************************************************************************)
(* The program goes on by itself, a restart it asks for is made, and the   *)
(* user starts again what ended in an error (the app offers nothing else). *)
(* lnd starts and continues its check, and btcwallet repeats its complaint *)
(* for as long as it cannot synchronise (node.go:118-120).                 *)
(***************************************************************************)
Fairness ==
  /\ WF_vars(Program)
  /\ WF_vars(LndStartsCheck) /\ WF_vars(LndChecksBlock)
  /\ WF_vars(stuck /\ LndLogsSyncFailure)

Spec == Init /\ [][Next]_vars

-----------------------------------------------------------------------------
TypeOK ==
  /\ paid \in SUBSET Payments /\ tip \in Nat
  /\ chainReady \in BOOLEAN /\ searchDone \in BOOLEAN
  /\ recheck \in BOOLEAN /\ tried \in BOOLEAN /\ knownOrder \in Nat
  /\ expFinds \in SUBSET Payments /\ expOwn \in SUBSET Payments
  /\ counter \in Nat /\ scanned \in Nat /\ shown \in SUBSET Payments
  /\ stuck \in BOOLEAN
  /\ pc \in PCs /\ lnd \in BOOLEAN /\ node \in BOOLEAN
  /\ own \in Nat \cup {-1} /\ skippedTo \in Nat
  /\ covered \in Nat \cup {-1} /\ failLine \in BOOLEAN /\ order \in Nat
  /\ next \in Nat /\ hits \in SUBSET Payments /\ ownTxs \in SUBSET Payments
  /\ walkEnd \in Nat /\ lastIndex \in Nat \cup {-1}
  /\ outcome \in {"none", "error", "synced", "missing"}
  /\ noted \in SUBSET Payments
  /\ searched \in Nat /\ blind \in SUBSET Payments /\ rechecked \in BOOLEAN
  /\ kills \in Nat /\ errors \in Nat

\* The payments the completed search answers for.
Searched == {p \in paid : Block[p] <= searched /\ p \notin blind}

(***************************************************************************)
(* A sync that ends well shows every payment the search could see, or has  *)
(* told the user about it (WaitSynced, findLaterFunds and verifyFound       *)
(* together): however often the program was killed or an operation failed, *)
(* and whatever addresses lnd took in between, none ends as a silent 0 sat. *)
(***************************************************************************)
NothingFoundIsLost ==
  outcome = "synced" => Searched \subseteq shown \cup noted

(***************************************************************************)
(* Whatever the history shortcut writes, the wallet shows every payment to *)
(* an address of the backup in the blocks its check counts as passed       *)
(* (proposeKnownHistory and applyKnownHistory).                            *)
(***************************************************************************)
BackupPaymentsShown ==
  \A p \in paid :
    (Address[p] < StartCounter /\ Block[p] <= scanned) => p \in shown

(***************************************************************************)
(* A block the shortcut would skip has no payment that lnd's check, which  *)
(* the shortcut replaces, would have found: none to an address that check  *)
(* covers, also when lnd handed it out between the reading of the wallet's *)
(* scripts and the beginning of the check (proposeKnownHistory, "lnd's     *)
(* check covers %d addresses, the walk watched %d").                       *)
(***************************************************************************)
NothingCoveredIsSkipped ==
  [][knownOrder' > knownOrder =>
       \A p \in paid : Block[p] <= knownOrder' => Address[p] >= covered]_vars

(***************************************************************************)
(* Once the search counts as done, the wallet has derived every address it *)
(* found paid, so a history check from the start must show the payment     *)
(* (the order of the marks in findLaterFunds and advanceTo).               *)
(***************************************************************************)
FindsAreDerived ==
  searchDone => \A p \in Searched : Address[p] < counter

(***************************************************************************)
(* An order for a full history check is withdrawn only when the wallet's   *)
(* history really was dropped (StartNode: the order stands until the drop  *)
(* has succeeded).                                                         *)
(***************************************************************************)
OrderStandsUntilDropped ==
  [][recheck /\ ~recheck' => scanned' = 0 /\ shown' = {} /\ ~lnd']_vars

(***************************************************************************)
(* The search is never taken for done while an address was derived for a   *)
(* find and no history check covers it: the wallet shows the find, is yet  *)
(* to pass its block, has the order, or has the find on file.              *)
(***************************************************************************)
EveryFindHasAWayBack ==
  searchDone => \A p \in Searched :
    \/ p \in shown \cup noted
    \/ scanned < Block[p]
    \/ p \in expFinds \cup expOwn

(***************************************************************************)
(* However the starts go, the user gets an answer: the sync ends well or   *)
(* names the payments that are missing; no restart loop.                   *)
(***************************************************************************)
SyncEnds == <>(outcome \in {"synced", "missing"})

(***************************************************************************)
(* Stated by core/syncskip.go:20-40 and addrscan.go:878-891: nothing on    *)
(* chain is missing silently, whatever address it pays.                    *)
(***************************************************************************)
NothingIsLost ==
  outcome = "synced" =>
    {p \in paid : Block[p] <= searched} \subseteq shown \cup noted

(***************************************************************************)
(* Stated by addrscan.go:888-891: a payment is reported missing "after a   *)
(* full history check" only when that check was carried out.               *)
(***************************************************************************)
ReportedOnlyAfterFullCheck == noted # {} => rechecked

(***************************************************************************)
(* Stated by docs/2026-09-21-skip-history-check-study.md item 4: when      *)
(* btcwallet logs that it cannot synchronise from the state the shortcut   *)
(* wrote, the full history check is ordered.                               *)
(***************************************************************************)
UnusableStateIsReplaced == (stuck /\ failLine) ~> ~stuck
=============================================================================
