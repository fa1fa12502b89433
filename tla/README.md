# Breez mobile recovery in TLA+

This directory holds the formal model of the recovery program in `core/`, `ui/` and
`main.go`: a desktop app and a command line that restore the backup of a Breez mobile
wallet on a computer, start lnd in the same process, let it catch up with the chain, and
show and sweep the money. Paths below are relative to the source repository.

The program has few threads and a lot of time: a recovery runs for hours or days, over
many program starts, talks to its next start only through marker files, and shares its
wallet with lnd, which acts by itself. What can be lost there is money that nobody
notices is missing. That is what the models are about.

## 1. The system

| component | state it keeps | operations | what is hard |
|---|---|---|---|
| **Sync lifecycle** `core/core.go`, `core/addrscan.go`, `core/node.go` | marker files `chain-ready`, `addresses-extended`, `history-recheck`, `history-recheck-tried`, `found-funds.json` in the backup's folder; the wallet's counters and sync state; `c.node`, `c.ownScripts`, `c.skippedTo` in memory | `StartNode`, `firstStart`, `WaitSynced`, `findLaterFunds`, `advanceTo`, `verifyFound` | kills and failures between any two marks, restarts the program asks for, lnd handing out addresses meanwhile |
| **History shortcut** `core/syncskip.go` | `history-known.json`, what the log tracker read | `proposeKnownHistory`, `carryOutKnownHistory`, `applyKnownHistory` | a decision on stale facts skips a payment for good; a sync state the wallet cannot use |
| **Address search** `core/addrscan.go` | per branch `next`, `knownTo`, `watchedTo`, `paidTo`; match list, hits, followed outputs | `newAddressWatch`, `extendKnown`, `extendMatch`, `applyBlock`, `rest`, `searchRest` | the set that is searched for grows while it is searched for |
| **Chain walk** `core/chaincheck.go` | `fundingState` per channel, `next`, the address watch | `run`, `open`, `applyBlock`, `verdict`, `CheckChannelsOnChain` | carried on over days and failures; the target moves |
| **Saved walk** `core/walkstate.go` | `chain-walk.json` | `save`, `loadWalk`, `savedFundings` | reorganisations, a file of another network or backup |
| **Restoring a backup** `core/restore.go`, `core/core.go` | the backup's folder, `.restoring`, `.replaced-<time>`, the cloud's mark | `GoogleRestore`, `ICloudRestore`, `ZipRestore`, `placeBackupFiles`, `checkRestoreTarget` | any step fails, the program dies, a restore over an earlier one |
| **Work folder layout** `core/dirs.go` | `current`, `backups/`, the old release's layout | `loadLayout`, `selectBackup`, `UseBackup`, `migrateLegacyNode` | a move of several entries that is cut short |
| **Instance lock** `core/lock.go` | `instance.lock`, held for as long as a process lives | `lockWorkDir`, a restart the app asks for | the next copy starts before this one ends |
| **App operations** `ui/app.go` | `opMu`, `cancel`, the current `Core`, the library of the process | `run`, `Cancel`, `beforeClose`, `ApplySettings`, `relaunch` | calls from a window the user can click at any time; the library starts once per process |
| **Node log tracker** `core/node.go` | `rescan` facts read from lnd's log | `trackRescan` and the regular expressions | facts arrive when lnd logs them |
| **Money shown** `core/node.go`, `core/core.go`, `core/chaincheck.go`, `main.go` | `c.checks`; the five answers of lnd while a `Status` is put together | `Status`, `notOnItsWay`, `sweptBy`, `sweptCloses`, `collecting` | one amount must not count twice and none may be missing; the answers are of different moments |
| **Sweep** `ui/frontend/dist/app.js`, `ui/app.go`, `core/core.go` | `c.sweep`; the address field, the plan on screen and the fee choice | `PrepareSweep`, `BroadcastSweep`, the sweep page | what is on screen, what was prepared and what is in the wallet are three things |
| **History** `core/history.go`, `core/csv.go` | the ledger while it is built | `History`, `ExportCSV`, `LndTotals` | joining three databases, each of which has part of a story, and one of which was pruned |
| **Cloud sources** `core/drive.go`, `core/icloud.go`, `core/gauth.go` | tokens, sessions | sign-in, list, download, mark | services outside the repository |
| **Command line** `main.go` | none | one operation of `Core` after another; `status` waits while `collecting` | - |
| **Frontend** `ui/frontend/dist/app.js` | what is on screen | calls of `App`, in any order the user likes | answers arrive after the screen has changed |
| **Backup files, configuration** | none that outlives a call | parsing, decryption | - |

How they meet. The frontend calls methods of `App`; each long one takes `opMu` and
works on the current `Core`. `Core` restores into a folder (*Restoring*), selects it
(*Layout*), starts lnd on it and brings it to the tip (*Sync lifecycle*). The sync runs
one walk over the compact filters that answers for the channels and for the addresses
the wallet has not derived (*Chain walk* with *Address search* inside), writes what it
found next to the wallet, advances the wallet, and asks for a restart. The next start
carries out what the markers say. Afterwards the channel check carries the same walk on;
its verdicts are one of the sources of the `Status` (*Money shown*) that every screen with
money on it, the command line and the history start from. A sweep spends what is confirmed
there.

What makes each of them correct: section 3 names the property beside the model, and
`hazards` in `PROJECT.json` lists every place where the code could go wrong in a way a
test would hardly reach, with the property that watches it or the reason there is none.

## 2. Modules

| module | models | checked by | proved in |
|---|---|---|---|
| `SyncLifecycle` | sync lifecycle, history shortcut, the part of lnd's wallet they depend on | `MCSyncLifecycle` with two configurations | `SyncLifecycle_proofs` |
| `ChainWalk` | chain walk, address search, channel verdicts | `MCChainWalk` | `ChainWalk_proofs` |
| `WalkState` | the walk in memory and on file, the channel check, reorganisations | `MCWalkState` | `WalkState_proofs` |
| `RestoreFolder` | restoring a backup, selection of the folder | `RestoreFolder.cfg` | `RestoreFolder_proofs` |
| `RestoredApp` | abstract: what a restore promises | as a property of `RestoreFolder` | refinement proved |
| `AppOps` | one process of the desktop app: calls, lock, cancel, close, relaunch | `MCAppOps` with two configurations | `Window_proofs` |
| `WorkFolder` | the work folder: instance lock, old release's node, selection, relaunch | `MCWorkFolder` | `WorkFolder_proofs` |
| `Accounting` | the money shown: `status` answer by answer, while chain and lnd go on | `MCAccounting` | `Accounting_proofs` |
| `Sweep` | the sweep page, its calls and the prepared transactions | `MCSweep` with two configurations | `Window_proofs` |
| `History` | the list of money movements and its totals | `MCHistory` | `Window_proofs` |
| `Folding` | lemmas about least and greatest numbers, folds and sums | no state | itself |

`AppOps`, `History` and `Sweep` are independent of each other; what the window runs and shows is
proved in one module, `Window_proofs`, for which `History` and `Sweep` name their `Init`, `Next` and
type invariant apart from those of `AppOps`.

`SyncLifecycle` takes what a completed search recognises as one step (`WalkEnds`), and
`ChainWalk` shows what that step may recognise: every payment to a known address from
the walk's first block on, by the gap rule. The two meet there. `WalkState` in turn takes
from `ChainWalk` that a watched transaction in a block the walk passes is seen (`LookInto`),
and adds what `ChainWalk` leaves out: restarts and a chain whose tip is replaced.
`WorkFolder` takes a restore as one step, which `RestoreFolder` takes apart. `Accounting`
takes the channel check as the truth of the moment it ran, which is what `ChainWalk` and
`WalkState` are about, and `History` takes what `status` shows as the money there is, which is
what `Accounting` is about.

### 2.1 SyncLifecycle

One restored folder over as many program starts as it takes. A variable per marker
file, one for each fact of the wallet the code reads or writes (`counter`, `scanned`,
`shown`, `stuck`), and the process: `pc` is the place in the code, everything in the
group "the process" is lost when it ends. The wallet starts as the phone left it, its
sync state reset on purpose (`core/syncskip.go`, head), so `scanned = 0`.

| action | code |
|---|---|
| `StartNode`, `TakeKnownOrder`, `ApplyKnownHistory`, `KnownHistoryNotApplied`, `KnownHistoryFails` | `StartNode`, `startNode`, `carryOutKnownHistory`, `applyKnownHistory` |
| `NoRecheckOrdered`, `DropHistory`, `RemoveRecheckOrder` | the order `history-recheck` in `startNode` |
| `ReadOwnScripts`, `LaunchLnd`, `LaunchFails` | `walletScripts`, `bindings.Start` and the wait for its RPC |
| `FirstStart`, `NotFirstStart` | `firstStart` |
| `BeginSearch`, `WalkEnds`, `MarkNoneFound`, `ProposeKnownHistory`, `CheckInFull`, `AllFindsKnown`, `OrderCheckForFinds` | `findLaterFunds`, `proposeKnownHistory` |
| `NextAddr`, `AdvanceDone`, `AdvanceMismatch` | `advanceTo` |
| `WalletSyncFailed`, `Synced` | `waitSynced` and `WaitSynced` after it |
| `AllShown`, `MarkTried`, `OrderFullCheck`, `ReportMissing` | `verifyFound` |
| `Exit`, `Kill`, `OperationFails` | a restart the program asks for; a kill; an error, a timeout or Cancel |
| `NewBlock`, `LndStartsCheck`, `LndChecksBlock`, `LndHandsOutAddress`, `LndLogsSyncFailure` | external: the chain, lnd and btcwallet |

Abstractions: one branch of addresses for the wallet's branches, each of which is searched
and advanced by itself; a payment is an address index and a block; the list of hashes the
shortcut hands to the wallet is the height of its last block. The branch read in
`findLaterFunds` and the finds it makes are those of one walk, so a search that fails
leaves nothing but what it wrote.

Properties. `NothingFoundIsLost`: a sync that ends well shows the user every payment the
search could see, or named it. `EveryFindHasAWayBack` is the reason: as long as the search
counts as done, a find is shown, still ahead of the wallet's check, or on file.
`FindsAreDerived` is the order of the marks, `OrderStandsUntilDropped` the order of drop
and removal. `BackupPaymentsShown` and `NothingCoveredIsSkipped` are the soundness of the shortcut: what
it writes hides no payment to an address of the backup, and what it decides skips none that lnd's
own check would find, which is why the number of addresses lnd logs is compared with the scripts
the walk watched. `SyncEnds` is the absence of
restart loops, `UnusableStateIsReplaced` the way out of a sync state btcwallet cannot use.
`blind` holds the payments that the search could not recognise (section 4);
`Searched` leaves them out, and `NothingIsLost`, which does not, is what fails.

### 2.2 ChainWalk

One search and the channel checks that carry its walk on. The chain is a choice of block
for every transaction (`Chains` has them all: parents first, conflicts excluded, a funding
not before its hint), and only its tip moves. `MatchingBlock`, `FalsePositive`,
`OtherBlock` and `SkipBlocks` are the ways through the loop of `chainWalk.run`, and
`OpenBlock` is `open` with `applyBlock` of the channels (`ApplyToChannels`) and of the
address watch (`ApplyToWatch`). `BeginRest` is `rest` and `searchRest`; `CarryOn`,
`CheckEnds` and `CheckFails` are `CheckChannelsOnChain` on a walk kept from before. A
script is `<<branch, index>>`; key derivation, peers, batches of filters and the hours they
take are left out. Parents precede children in a block, so the code's loop over the
transactions of a block (`follow` until nothing changes) is one fold over them: of a transaction
over its inputs or outputs (`FollowTx`, `RecogniseTx`), of a block over its transactions.

Assumptions. `From` is at least 1, as `walkStart` makes it; a transaction is in the list once, after
those it spends; and what spends a funding output, a commitment or a cooperative close, has no other
input and funds no channel (`ChannelsAssumption`).

Properties. `OpenIsUnspent`, `ClosesAreSeen` and `CollectIsThere` are about what is shown as
money: they compare the verdicts with the chain itself, over every way a walk can be
carried on. `ClosesAreSeen` reaches down to the block before the floor, the first whose content the
walk asks for (`WatchedFrom`): a funding and a close in there are seen. The filters are asked for the script the channel's keys make, so that
`ClosesAreSeen` and `SweepsAreFound` speak of funding outputs that carry it (`RightScript`): the
spend of one that carries another may pass unseen, and its verdict is never open. `GapSearchIsComplete` is the gap rule as a wallet's user understands it
(up to `Depth`, 1000 in the code, past the addresses
watched at first: those the watch knows from the start, so that the block an address joins at is searched
for it too, as addrscan.go:420-423 says. Past that, a payment that comes in this very block before
the one that drags the gap along would be missed; it takes more than 1000 payments in a row to get
there), `SweepsAreFound` the following of a close's outputs, `OwnPaymentsAreSeen` what the shortcut
rests on, `PaidToIsAFind` that the wallet is never advanced past what is on the chain, and
`SearchEnds` that the passes come to an end.

### 2.3 WalkState

The chain is the sequence of its blocks, `minedAt` the height of each transaction;
`Disconnect` and `Connect` replace the tip, also while a walk is at work, and in between the
tip is lower, as the node's headers are. A walk is one record: what `fundingState` and
`savedChannel` keep, and `next`. `mem` is `c.walk`, `cur` the walk at work, which is `c.walk`
itself when `same` (then a failed run leaves its facts there), `file` is `chain-walk.json`.
`CarryOn`, `CarryOnSaved` and `CheckFromStart` are the three ways through
`CheckChannelsOnChain` (lines 677-722), `Search` is `findLaterFunds`' walk, which comes before
every check and is done again until its mark is written (`searched`), `Saved` is `save` with
what comes after it, `Restart` the end of a process at any step. lnd lists a pending channel as
open once it is funded and drops one once its close is on the chain.

Three history variables: `torn`, in each walk, has the heights whose block was replaced after
the walk had passed it in memory; `reached` and `lowest`, on file, say where the walk stood and
how deep the chain was cut since; `covered` has the channels of the files since the last search.

Properties. `NoCloseIsMissed` is the safety of the whole arrangement: what is shown as funds
is closed in no block up to the one the check reached. It leaves `torn` heights out, and
`EarlierWalkCovers`, which does not, fails (section 4). `OrdinaryReorgIsCheap` is
the point of standing a few blocks below the tip, `NothingCollectedTwice` and
`NoChannelIsForgotten` that nothing is lost between memory, file and lnd's list.

### 2.4 RestoreFolder and RestoredApp

`placeBackupFiles` file by file and rename by rename, with what comes before it
(`checkRestoreTarget`) and after (`selectBackup`, the cloud's mark, `c.restored`), and the
restart that has to come between a restore and the node. Every restore has a number, so that
a folder says whose files it holds. `StepFails` and `Kill` can strike at every step.
`LooksRestoredIsWhole` and `NoWalletIsLost` are the promises at the head of
`core/restore.go`, the first as far as `checkDatabases` looks: a SQLite `breez.db` of a very
old backup is passed unread (`core/restore.go:260-262`), so damage to it is not in
`damaged`. `FolderStaysWhileBound` is the reason for `ErrLibraryBound`. `MarkedIsSafe` is about the
mark in Google Drive, which makes a phone that still runs this node stop itself
(`core/drive.go:172-175`): it never names a restore that is not safely on this computer. The
converse is not promised: when the request fails or the program dies before it, the restored
app is in place, unmarked, and can be used.
`RestoredApp` says the same as a state machine of two variables, and `RestoresAsPromised` is
the refinement.

### 2.5 AppOps

The window's calls as `Callers`, each at a place `pc` in `run` or in one of the two methods
that take the lock themselves (`ApplySettings`, `RestoreOther`). `opMu` is the lock with its
holder, `cancel` is `a.cancel`, Cores are numbered as `core.New` makes them. `library` is
the library of the process, of which there is only one, while `up` and `ready` are fields of
the Cores. Each run of `Stop` is a goroutine of its own (`stop`), because both `StopWithin`
and `beforeClose` leave it behind when their time is over; `bindings.Stop` hangs when
`StopLibrary` is never taken. What the bodies do is left to the other modules: a body ends,
well or not, at any time.

Properties. `CancelIsItsOwn`: Cancel and the window's close reach the operation that runs,
never an earlier or a later one. `WorksOnTheCurrentCore` and `NodeIsOfTheCurrentCore`: no
change of the settings pulls the Core from under an operation or strands a running library.
`BusyMeansRunning` is what the words of an error say; section 4 shows how it fails. That `beforeClose` stops a Core on which an operation
may still be working is in the model (`CloseStops`, `StopNode`); what the data race does to
that operation's last steps is not.

### 2.6 WorkFolder

The processes `Procs` on one work folder. `wait` to `read` are the steps of `core.New`: the
lock, then `loadLayout` with the move of an older release's node, one rename at a time, its
undo, and the write of `current`, which is not atomic there. `old` is what the older release
left; `root`, `inside` and `aside` say where each of its entries is now. `open` is a `Core`
that may work, `refused` one with a `layoutErr`, `away` one on another work folder (whose lock
the process then holds too), `exit` the half second between the start of the next copy and the
end of this one. `bound` is `boundLibDir`.

Properties. `NodeStaysTogether` and `BackupsAreApart`: an older release's node ends in one
place, also when the move fails half way and whatever is restored, unless the move was cut
short by a kill or its undo failed (`cut`); even then nothing of it is lost or mixed into a
restore. `LibraryKeepsItsFolder`: nobody moves or restores over the folder the library works in.
`NextStartContinues`: `current` is what this process works on, except that `UseBackup` does not
look at `layoutErr` and so a copy that was refused the lock can change it (`meddled`;
core.go:190 says the error is "Reported by every operation that needs the folder").
`StartIsAnswered`: a copy and the one that started it do not wait for each other.

### 2.7 Accounting

The channels `Chan` close by the peer's commitment, by the app's own or cooperatively (`kind`).
`close` is the chain, `lnd` what lnd's lists have, `mined` and `sent` the wallet's transactions.
With neutrino a transaction that was replaced, or that lost against another, is never taken
back, so `sent` only grows by what lnd publishes and shrinks by what confirms. What acts from
outside: the close is published, mined and noticed, the phone takes the payout or an anchor
alone, lnd sweeps one close or several and bumps the fee, a sweep confirms (its entry leaves `sent`,
`RemoveFirst`), lnd drops the close.

| action | code |
|---|---|
| `ReadBalance`, `ReadTxs`, `ReadOpen`, `ReadPending`, `ReadSwept` | `status` (node.go:524-669), cut where it asks lnd; what it computes in between belongs to the answer before |
| `Kept`, `NotOnItsWay` | `notOnItsWay` (711-746): newest first, a fold over `sent` |
| `BroughtIn`, `SweptBy` | `sweptBy` (749-779), a close's payout and its anchor being the two outputs that can be spent |
| `Assemble` | which list a channel ends in (581-668) |
| `Check`, `OnChain` | `CheckChannelsOnChain` and `verdict`, of the chain as it stands |
| `Collecting` | `collecting` (main.go:338-348) |
| `StatusFails`, `Restart` | an answer without which there is no `Status`; the end of the process |

Any answer that only costs a warning may fail. `moved` says that the world moved between the
first and the last answer. Properties. `NothingIsLeftOut` is safety for the user: whatever
moves in between, each channel whose money has not arrived is somewhere in the `Status`.
`TotalIsRight` is the other side, nothing twice: a `Status` of one moment adds up to the money
there is, less what fee bumps took. It names the one double count there is, a close that lnd
alone tells of and whose payout is on its way already (`StillListed`). `DoneMeansDone`
follows: when `collecting` says that there is nothing to wait for, there is not.

### 2.8 Sweep

The page calls `PrepareSweep` and `BroadcastSweep` and goes on; `answers` are what it has not got
back yet. `c.sweep` is `sweep`, the plan on screen `shown`, and the two need not be the same.
`PrepareSweep` is taken apart at its calls (`ReadBalance`, `FeeSourceAnswers`, one `DryRun` for
each target, `Prepared`), any of which may fail (`Fails`); coins confirm in between. A prepared
transaction is the set of coins it spends. `edited` remembers that the address field was
changed after `Continue` had read it.

`PlanIsStillGood`: a plan never has a transaction that spends what is gone, because the plan is
dropped when it was used. `SentWhereAsked`: what is published pays the address in the field,
whatever pages were left, opened again and clicked twice, as long as nobody changed the field
under a call. `SentWhereShown` leaves that condition out and fails (section 4).

### 2.9 History

The phone's life is the state machine: channels close and get through lnd's lists and the app's
own records, deposits are funded, recorded and claimed, refunded or moved back, payments and
plain transactions happen, lnd's database is pruned. What `History` makes of it is a function of
the state, in the code's order: `CloseEntries` (`addClosedChannels`, `addClose`,
`collectors`), `PendingEntries` (`addPendingChannels`), `DepositEntries` (`swapOutputs`,
`addPayments`), `PaymentEntries` (`lndOnlyPayments`, `settledMsat`), `OnchainEntries`
(`addOnchain`, `onchainEntry`), and the totals. What one part explains (`OfCloses`,
`OfDeposits`) no later part lists; a transaction listed on its own has its kind as the
source of the entry, so that no two entries are one by chance. The n-th event of `log` has time n, and the deposits have one
amount, so that pairing records with outputs has to choose: `Pairing` goes through the whole log and
gives each output, the oldest first, the record `Nearest` to it among those still `Free`. A record is
free for an output in a window about it, from `Early` before (two hours in the code) to `Late` after
(two weeks): the slack before lets an output take the record of an earlier deposit. Two records as far
from the output, one on each side, go to the earlier one; the code takes the one its list has first.

`AddsUp`: the totals explain the money held to the sat, in every state in which nothing is between
two books (`Settled`, whose four parts section 4 comes back to). `PruningChangesNothing`: the
app's records stand in for what lnd lost; the list before and after is the same.

## 3. Runs, bounds and what they show

| run | expects | properties | what it shows |
|---|---|---|---|
| `Sync` | pass | `NothingFoundIsLost`, `BackupPaymentsShown`, `FindsAreDerived`, `EveryFindHasAWayBack`, `OrderStandsUntilDropped`, `NothingCoveredIsSkipped` | Over every chain of three payments, a kill, an error and lnd handing out addresses, no payment the search could see is lost, the shortcut skips none lnd's check would find, and the markers keep their meaning. |
| `SyncLive` | pass | `SyncEnds`, `UnusableStateIsReplaced` | The restarts come to an end: the user is told that the sync succeeded or which payments are missing; a sync state the wallet cannot use is replaced, unless a start is killed meanwhile. |
| `RestoreFolder` | pass | `LooksRestoredIsWhole`, `NoWalletIsLost`, `MarkedIsSafe`, `FolderStaysWhileBound`, `RestoresAsPromised` | Three restores with kills and failures at every step keep the promises at the head of restore.go, never lose the restore Google Drive is marked with, and implement RestoredApp. |
| `App` | pass | `CancelIsItsOwn`, `WorksOnTheCurrentCore`, `NodeIsOfTheCurrentCore` | Two calls of the window at any time, Cancel, closing, changed settings and failed restarts: lock, cancel function, Core and library stay together. |
| `AppBusy` | violation | `BusyMeansRunning` | Answering No to the close dialog while only the node runs leaves the lock taken for good. |
| `WorkFolder` | pass | `NodeStaysTogether`, `BackupsAreApart`, `LibraryKeepsItsFolder`, `NextStartContinues`, `StartIsAnswered` | Two processes on one work folder with an older release's node, a kill and two failed file operations: the node is moved as a whole or put back, backups stay apart, the library's folder is its own, and nobody waits for ever. |
| `WalkState` | pass | `NoCloseIsMissed`, `NothingCollectedTwice`, `NoChannelIsForgotten`, `OrdinaryReorgIsCheap` | Checks and searches over any number of starts, failures at every step and two blocks disconnected at any time: the walk on file is used when, and only when, it fits, and forgets nothing. |
| `Walk` | pass | `OpenIsUnspent`, `ClosesAreSeen`, `CollectIsThere`, `SweepsAreFound`, `GapSearchIsComplete`, `OwnPaymentsAreSeen`, `PaidToIsAFind`, `SearchEnds` | A close, its second level and its sweeps, or payments that drag the gap along, in every order of blocks, the one before a channel's watch begins included: verdicts, what is left to collect and the finds are right, over carried-on and failed checks, and the passes over the rest come to an end. |
| `Money` | pass | `NothingIsLeftOut`, `TotalIsRight` | Two channels closing in every way, swept by the phone, by lnd and by its fee bumps, between any two of the five answers status is made of: no money is missing from a Status, and one made of answers of one moment adds up. |
| `Sweep` | pass | `PlanIsStillGood`, `SentWhereAsked` | The sweep page, its calls and their answers in every order, with coins arriving and operations failing: what is prepared can be published, and what is published pays what the user asked for. |
| `SweepShown` | violation | `SentWhereShown` | The address is edited while the sweep is prepared: Send pays the earlier one, the page shows the later one. |
| `History` | pass | `HistoryTypeOK`, `AddsUp`, `PruningChangesNothing` | Two channels closing, two deposits of the same amount, a payment and plain transactions in every order, lnd behind the chain: the list's totals explain the money held to the sat, and pruning lnd's database changes nothing. |

The type invariants of `SyncLifecycle`, `ChainWalk`, `AppOps`, `WorkFolder`, `WalkState`, `Accounting`,
`Sweep` and `RestoreFolder` are proved and no run lists them.

Why the bounds are enough. *SyncLifecycle*: three payments, one to an address of the backup
and two past its counter in different blocks; every subset of them may be on the chain. One
kill and one failed operation at any step, spare addresses for lnd to hand out (two in
`Sync`, one in `SyncLive`), and as many restarts as the program asks for; in `Sync` two blocks are
found while the program runs. Two kills need two independent windows; each window
is met by one. *ChainWalk*: a chain is made of one of two groups of transactions (`Worlds`): a close with a second level and two sweeps in every assignment
of blocks, among them the one before the floor, in which the funding and the close can lie; a
channel whose funding output carries a different script and starts at the floor, one failed check, one false positive; for the gap rule, payments each of which
extends the gap by one. The gap is one so that three payments extend it three times. *WalkState*: the
file steps back one block (`Back`, six in the code) and two can be disconnected, so a
reorganisation is within the margin, at it, or past it; a channel with two ways to close and
a sweep, and one that is pending at first; failures and restarts without a bound.
*RestoreFolder*: three restores (one in place, one that fails, one that succeeds), two failures.
*WorkFolder*: two processes are what the lock is about; one kill and two failed operations, so
that the undo of a move can fail too; two backups beside a dated folder. *Accounting*: two channels,
each closing in any of three ways, so that one sweep can take one close or both; three sweeps would
tell nothing new of "the newest", so lnd publishes two (`Bumps`). A payout of 5 leaves a sweep room
to pay two in fees and stay above half, and makes an anchor fall below it. *Sweep*: two addresses, two coins and two fee
targets tell earlier from later; two answers on their way are a plan and one that overtakes it.
*History*: two channels, so that one sweep can collect two closes of which one is listed; two
deposits of one amount, so that pairing has a choice, and a window of one event before an output and
two after, so that a record can be too early, too late or another deposit's; at most four transactions (`MaxTxs`), which
hold any two of these stories at once.

`CHECK_DEADLOCK FALSE` is said where the system really stops: a walk is over and the chain
is at its bound, or the sync waits for a wallet that never gets there.

`SyncLive` takes `LiveSpec`: a start is killed or the wallet cannot use the sync state written,
not both. Whether a start wrote that state is kept in process memory only (`c.skippedTo`,
core/core.go:649): when that start is killed, the next one takes btcwallet's complaint for a
passing trouble, and the sync may wait for ever.

Fairness. `SyncLive` assumes that the program goes
on by itself, that a restart it asks for is made and a screen that shows an error is
answered by trying again (the app offers nothing else), that lnd starts and continues its
history check, and that btcwallet repeats its complaint while it cannot synchronise
(`core/node.go:118-120`). Nothing is assumed of new blocks, of addresses lnd takes, or of
kills and errors. `Walk` assumes only that the walk's own loop goes on; false positives are not
owed to it. `WorkFolder` assumes
that `core.New` goes on (strongly: the lock it waits for is given out again and again, and the
wait has a limit, `lockWait`) and that a process that has started its next copy exits; that half
a second is over before 20 seconds are is in `LockTimesOut`.

## 4. Findings

Runs that expect a violation state what a comment or a document says; TLC shows the
behaviour of the code that does not keep it.

1. **`AppBusy`** violates `BusyMeansRunning` (ui/app.go:60). beforeClose takes opMu in the condition of its if (app.go:60). When it got the lock and c.NodeRunning() made the condition true, nothing gives the lock back: the TryLock that would (app.go:61) fails on the lock just taken, and the answer No returns (app.go:74-76). From then on every operation ends with errBusy, "another operation is still running" (app.go:191), although none runs.
2. **`SweepShown`** violates `SentWhereShown` (ui/frontend/dist/app.js:624). prepareSweep reads the address, calls PrepareSweep and waits for its answer (app.js:619-624). Until then neither the field nor Continue is disabled: setBusy sets a flag that only the wallet's refresh looks at (app.js:80, 486), and the field is disabled only with the answer (app.js:648). An address edited meanwhile stays on the page, the plan's own address (plan.address) is not looked at, and Send pays the earlier one (core.go:1059-1079). ui/frontend/dist/index.html:264 says above the field "Sends everything the app holds on-chain to the address below, minus the network fee."

Known gaps. The properties below are stated in the modules as well, with the comment or the
sentence they come from. They do not hold, and no run lists them: put in place of the
properties of the run named, TLC finds each violated with the run's own constants.

- `NothingIsLost` (`Sync`). The scripts the wallet has are read before lnd starts (core/core.go:629-640), its branches only after the headers are in (addrscan.go:706). An address lnd hands out in between is in neither list, so a payment to it is not recognised and the sync ends well without it. core/syncskip.go:28-29 says of the walk "It watches every script the wallet's own check watches, over the same blocks", and addrscan.go:881-883 says verifyFound makes sure "the wallet shows every payment the walk saw: the finds on addresses past the wallet's counter, and the payments to addresses it had already".
- `ReportedOnlyAfterFullCheck` (`Sync`). verifyFound marks history-recheck-tried before it writes the order history-recheck (addrscan.go:931-936). Killed between the two, the next start finds the mark without the order, runs no full check and reports the payments as missing "after a full history check" (addrscan.go:943, 946); addrscan.go:889-891 says "A missing payment orders the full history check once; should it still be missing after that, the sync stops with an error".
- `EarlierWalkCovers` (`WalkState`). A walk kept in memory (c.walk) is carried on at the block after the one it reached (chaincheck.go:419), without the hash it stood on and without stepping back, as the saved walk does (walkstate.go:64, 127-133). When a block it had walked is replaced while the app stays open, the new block is never looked at: a close in it is missed by every later check, the channel stays verdictOpen, and the next save puts it on file. chaincheck.go:698-699 says "An earlier walk, of this run or saved by an earlier one, covers these channels up to the block it ended at: carry on from there", and chaincheck.go:276-277 "Open needs positive proof: the output itself, with the channel's script, and no spend of it".
- `CollectIsStillThere` (`Money`). chaincheck.go:37-39 says of `Collect` that it is what a close paid
  "and nobody has spent yet". It is what the last check saw, and nothing but the next sync makes
  another. Once lnd's sweep has confirmed, every later `Status` of this process still shows the money as to
  collect, besides the on-chain balance it is part of by now, and the command line's `status`
  (main.go:319) waits for it without an end.
- `ClosesAreFolded` (`History`). history.go:298-300 says that transactions of a close "are folded into
  that entry, so the same money is never listed twice". A close lnd still waits for marks no
  transaction as explained (history.go:566-568), so that one whose transaction the wallet has is
  listed as closing and as received on-chain.

`Settled` in `History` leaves out three more states in which the totals do not explain the money:
a close in lnd's pending list of which the app has a record too is listed by both, and may count
as uncollected while `status` holds it as pending; the fee of a sweep is counted by no entry while
lnd still lists the close it collected as pending; and with two deposits of one amount, the
record of the second can be paired with the output of the first, which was never swapped in
(history.go:688-711). Its third part is a state of transit: the swap service has paid the invoice and
not yet claimed the output, and both are held.

## 5. Proofs

All by TLAPS, for every value of the constants that the named assumptions allow, with any number of
kills, errors and restarts. The assumptions are those the modules declare, next to the constants:
ranges of numbers, finite sets where the code has lists (`Chan` and `Swap` of `Accounting` and
`History`), and what `ChainWalk` says of transactions. TLC evaluates each of them in a run. Every
invariant a passing run checks is a theorem, and so is every action property and the refinement; what
is left to TLC is the liveness.

*SyncLifecycle_proofs.* The properties are not inductive: whether a find has a way back
depends on what the program holds in memory and on where it stands between two marks.
`IInv` adds `TypeOK`, `StagesInv` (which marks can stand at which place), `CountersInv` (the
wallet's counter never falls behind what was read of it), `ResultsInv` (while the results of
a walk are in memory they are also on file, and every payment up to the walk's end is among
them, blind, or already derived, and what is blind lies past the scripts that were read), `ShortcutInv` (an order for the shortcut stands only when
there is nothing to find up to its block), `WayBackInv` and `EndInv`. Each part is preserved
by each action; the theorems `NothingFoundIsLostHolds`, `BackupPaymentsShownHolds`,
`FindsAreDerivedHolds`, `EveryFindHasAWayBackHolds`, `OrderStandsUntilDroppedHolds` and
`NothingCoveredIsSkippedHolds` follow. In the last, nothing was found and nothing paid a script that was
read, so a payment the shortcut skips is blind, past `own`, which is all that lnd's check covers.

*RestoreFolder_proofs.* `TargetInv` (the folder holds nothing of a wallet or all of one),
`StagingInv` (what is staged at which step), `FreshInv` (a restore under way has a number of
its own), `MarkInv` (only what is in place is marked) and `BoundInv` (no restore is under way while the library runs) are inductive with
`NoWalletIsLost`, and `TypeOKHolds` follows; the refinement of `RestoredApp` follows step by step.

*Window_proofs: AppOps.* That Cancel reaches its own operation and that nobody works on a replaced
Core both rest on the lock, so `IInv` says where a caller holds it (`LockInv`), which
operations are found at which place (`PlaceInv`), that `a.cancel` is never left behind
(`CancelInv`), that a node means a bound library (`BoundInv`) and that `beforeClose` looks at
the node with the lock taken (`CloseInv`).

*WorkFolder_proofs.* For any number of processes. Everything rests on the lock: `LockInv` (only
its holder is past the wait), `SessionInv` (a backup is selected only once `New` has returned)
and `MoveInv` (where the entries are at each step of a move, and that its folder is not one of a
restore) are inductive together with `ApartInv`, and give the four safety properties.

*Folding.* The folds and sums of the models are those of the community modules, which are functions
given by a recursive equation, taken with `CHOOSE`. `FoldSolution` and `FoldExists` show once that such an
equation has a solution when every step stays in a set, so that a proof can go along the sequence by
induction over its length (`UpTo`, `Prefix`); the same is done for sums over a finite set, by
`EverySubset`. What holds at one element and is passed on then holds for the whole: induction is over
a *set* of numbers or of subsets here, not over an operator, which is what keeps it within the
prover's reach. `Sigma` is the sum of weights over a finite set; it splits over disjoint sets
(`SigmaUnion`), moves along a bijection (`SigmaMaps`), adds up group by group (`SigmaGroups`) and of equal
weights is a product (`SigmaCount`).

*ChainWalk_proofs.* For any transactions, any chain of them, any channels, branches, gap and depth.
`ChannelInv` is about the channels: `PlaceInv` has where the walk is, `SoundInv` that what it
knows is on the chain (of a failed check also in blocks it does not count as walked), `SeenInv` that what
is on the chain below `Reach` is known. The step that matters is a block that is *not* opened: none
of the scripts asked for is in it (`BlockScripts`), and so nothing in it concerns a channel that is still open
or has something to collect. `OpenIsUnspent`, `ClosesAreSeen` and `CollectIsThere` follow.
`OwnInv` is the same for the scripts the wallet has. `WatchInv` says of the address watch, after any
number of folds over transactions and outputs, that its counters cover the gap and that each `paidTo`
comes from a find. `GapInv` is the argument for the passes over the rest: of every address within
the gap, either it was looked for in every block, or it joined at a block and was found from there
on, or it is one of those the pass at work still looks for in the blocks before. When no address is
`Left`, only the first case remains, which is `GapSearchIsComplete`. `SweepInv` follows the money:
every output of a close to somebody else is followed at depth 0, or is spent; of its spender, at
depth 1 at most; and what either pays the wallet is among the hits. An output can be spent in the
block it was made in; that parents come before children in `Order` is what the fold over the block
needs.

*WalkState_proofs.* For every set of channels, margin `Back` and number of disconnected blocks.
What a walk knows is good as long as every transaction it still waits for (`Awaited`) is in no
block it has passed, and cannot get into one any more because the chain is long enough or the
channel's hint too high: `Safe`, and `Covers` for a whole walk, both up to the `torn` heights.
`IInv` says it of the walk in memory (`MemInv`), of the one at work, at the place it has got to
(`WorkInv`), of the verdicts (`ShownInv`) and of the file as long as nothing below the block it
stands on was disconnected (`FileInv`). Once something was, no block has the identity the file
keeps, so `Fits` fails; this is the step on which `NoCloseIsMissed` rests, and the margin is
what makes `OrdinaryReorgIsCheap` follow. `ChainInv` has parents before children, `CoveredInv`
that whoever writes the next file has the channels of the last ones. `NextStart` is a minimum
over the channels' hints; `MinOf` shows that there is one.

*Accounting_proofs.* For any number of channels and any amounts. A `Status` is made of answers of
different moments, so the invariant has to say what an answer that is already in proves of a world
that has moved on: `AnswerInv` has, for each place in `status`, that a channel is either in one of
the answers so far, or has come home, or is still to be found in an answer to come, because lnd
hands a channel from list to list in the order in which `status` reads them. `WorldInv` ties lnd's
lists to the chain, `CheckInv` says that what the check no longer counts as to collect has come
home. `StatusIsWhole` follows, and from it `NotDoneTooEarly`. `SweptIsHome` is why an anchor is not
taken for a payout; it needs that half of what is owed is more than an anchor (`AmountsAssumption`).

`TotalIsRight` is about sums. `WalletInv` says what the wallet's transactions can be of: closes that
are on the chain, sweeps of closes lnd has noticed. `FreshInv` says of a `Status` being made while
nothing moves that each answer so far is the set the world has, and that the unconfirmed balance is
the sum of transactions that may still confirm together (`MayConfirm`: none spends what is spent on the chain or
counted already, no two spend the same output), which is what `notOnItsWay` leaves
(`KeptMayConfirm`). Such a set pays no channel twice and pays it at most what is owed
(`PaysNoneTwice`, `PaysAtMost`). `AssembleAddsUp` then divides the channels by the list they are in, and
the one overlap left is `StillListed`. `StatusTypes` needs the same facts: that the unconfirmed balance
is not negative is one of them.

*Window_proofs: Sweep.* For any addresses, coins and fee targets. `CoinInv` extends `PlanIsStillGood` to the
plan being prepared; `FieldInv` says of every place a plan can be in on its way (the operation, the
answers, the screen, `c.sweep`) that it is for the address in the field as long as nobody edited it.

*Window_proofs: History.* For any channels, deposits and amounts. `PruningSaysTheSame`: when lnd loses
a close the app has a record of, `Closed` and `Pending` stay (`ClosesStay`), and every part of the list is
made of these two, the wallet's transactions and the log alone (`CloseEntriesStay`,
`OtherEntriesStay`), the pairing of deposits being one function of the last two (`Pairing`).

`SpecAddsUp` rests on `LedgerInv`: lnd has each channel in one place (`HistoryIInv`), no two sweeps share a
close and every transaction is of channels or of a deposit (`WalletInv`), a deposit is funded once and spent
once, by the service only when it is recorded (`DepositInv`), and the books know of a close only when
there is one (`BookInv`). The rest is arithmetic over the list, which `LedgerAddsUp` puts together:
`PairingIs` shows that the pairing is one to one, from outputs the wallet has to records; `CountsSum` that
the entries of different parts are different, so that the total is the sum of the parts; and each
part is then compared with the transactions it explains: `ClosesSum` for the closes and their sweeps,
with the fees and what is left to collect, `DepositsSum` (`OutputSum`, `MovedSum`, `RecordsLeft`) for outputs,
refunds and records, `PaymentsSum`, and `OnchainSum` for what is listed on its own. `ChannelsSum` is the
other side, the money the channels hold. `Settled` is used in four places, one for each of its
parts. `SpecHistoryTypeOK` has the same invariant; that `Onchain` is never negative rests on the
wallet's own check (`Spendable`).

Only model-checked: liveness (`SyncEnds`, `UnusableStateIsReplaced`, `SearchEnds`,
`StartIsAnswered`), which needs fairness and ENABLED and is out of the prover's reach; and the runs that
expect a violation, which show a counterexample.

What the proofs changed in the models. `ClosesAreSeen` and `SweepsAreFound` did not hold of a
funding output with another script, which no instance of TLC's had together with a close, and
say so now (`RightScript`); `GapSearchIsComplete` did not hold past `Depth` (section 2.2). `TotalIsRight`
allowed the total to fall short by what fee bumps take, which it never does. In `OnChain` of
`Accounting` two cases of a `CASE` could be true at once, of which TLC takes the first and a prover
either. A sweep that confirmed took every equal entry out of `sent`, not only its own.

A note for whoever extends them: SANY and TLC read `UNION A \cup B` as `(UNION A) \cup B`, tlapm as
`UNION (A \cup B)`. The modules put the parentheses wherever `UNION` or `SUBSET` meets another operator.

## 6. What is not modelled, and the plan

What a next step would be, in this order:

1. `Recovery`, a composition: `RestoreFolder`, `SyncLifecycle` and `AppOps` share folder and
   process, so that a restore may happen between two starts of a sync.
2. A refinement of `SyncLifecycle` to an abstract promise ("every payment is shown, named or
   still to come"), and one of `WorkFolder`'s move to a single step.
3. Of `History`: amounts below a sat and closes too small to pay out (`closeLeftovers`, `noHistory`),
   failing calls, and the comparison with lnd's own totals (`LndTotals`).

Of *Accounting* are left out channels below the dust limit, which have no money to show, channels of
another node, closes with HTLCs or a time lock left, which `sweptCloses` leaves to lnd, and what is
being sent (`Outgoing`). Of *Sweep* the fees, the reserve for anchor channels (`Kept`) and the
validity of an address. Of the *node log tracker* the regular expressions. The command line runs the
operations of `Core` that are modelled, one after another; the other screens of the frontend are
callers of `AppOps`.

Left out for good: the protocols of Google, Apple and the sign-in servers, decryption, configuration,
parsing of the backup's databases, the words and figures of the progress screen, the csv export, and
lnd itself, of which only what the program relies on is modelled, as external.
