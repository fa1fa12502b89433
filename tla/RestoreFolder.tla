--------------------------- MODULE RestoreFolder ---------------------------
(***************************************************************************)
(* Restoring one backup into its folder: placeBackupFiles step by step     *)
(* (core/restore.go), with GoogleRestore, ICloudRestore and ZipRestore     *)
(* around it (core/core.go), and the folder's selection at the next start  *)
(* (core/dirs.go).  Any step can fail, and the program can be killed       *)
(* between any two.                                                        *)
(*                                                                         *)
(* A backup is restored as often as the user likes; each restore has a     *)
(* number of its own, and its content may be damaged: where the check of   *)
(* the databases looks, that is, which leaves out the SQLite breez.db of    *)
(* very old backups (restore.go:260-262).  Of the files in a               *)
(* folder only the three node files and the library's backup id matter.    *)
(* The folder of one backup name is modelled; the work folder belongs to   *)
(* one process at a time (lock.go).  Renames are atomic.                   *)
(***************************************************************************)
EXTENDS Integers, FiniteSets

CONSTANTS
  MaxRestores,  \* bound: restores of this backup
  MaxErrors     \* bound: failed steps and kills

ASSUME BoundsAssumption == MaxRestores \in Nat \ {0} /\ MaxErrors \in Nat

VARIABLES
  target,    \* backups/<name>
  staging,   \* backups/<name>.restoring
  aside,     \* restores with a wallet moved to .replaced-<time>
  current,   \* file current names this backup
  marked,    \* the restore the cloud copy is marked with, 0 for none
  pc,        \* what the process is doing
  source,    \* where the restore under way comes from
  fetched,   \* the restore under way, its files decoded in memory
  nodeDir,   \* c.nodeDir is this backup's folder
  restored,  \* c.restored
  bound,     \* boundLibDir is this folder: the library runs on it
  damaged,   \* backups with a damage that checkDatabases looks for
  installed, \* history: restores that were ever in place
  errors

disk    == <<target, staging, aside, current>>
process == <<nodeDir, restored, bound>>
attempt == <<source, fetched, damaged>>
vars    == <<disk, marked, pc, attempt, process, installed, errors>>

NodeFiles == {"wallet.db", "channel.db", "breez.db"}
FileState == {"no", "part", "full"}
Sources == {"google", "icloud", "zip"}
Restores == 1..MaxRestores

Folders == [exists : BOOLEAN, restore : 0..MaxRestores,
            file : [NodeFiles -> FileState], id : BOOLEAN]

NoFolder == [exists |-> FALSE, restore |-> 0, file |-> [f \in NodeFiles |-> "no"], id |-> FALSE]

\* selectBackup makes the folder it selects; older releases left others.
EmptyFolder == [NoFolder EXCEPT !.exists = TRUE]

\* An earlier restore that the app has worked on.
FirstRestore ==
  [exists |-> TRUE, restore |-> 1, file |-> [f \in NodeFiles |-> "full"], id |-> TRUE]

\* Both only ask whether files exist, not what is in them.
HasWallet(d) == d.file["wallet.db"] # "no"
HasNode(d) == \A f \in NodeFiles : d.file[f] # "no"

PCs == {"off", "idle", "clear", "write", "check", "id", "aside", "place", "select",
        "finish", "marked"}

Init ==
  /\ target \in {NoFolder, EmptyFolder, FirstRestore}
  /\ staging = NoFolder /\ aside = {}
  /\ current \in BOOLEAN
  /\ marked \in {0, target.restore}
  /\ pc = "off" /\ source = "zip"
  /\ fetched = target.restore
  /\ nodeDir = FALSE /\ restored = FALSE /\ bound = FALSE
  /\ damaged = {}
  /\ installed = Restores \cap {target.restore}
  /\ errors = 0

-----------------------------------------------------------------------------
\* loadLayout: the backup in use is the one current names, if it is whole.
Open ==
  /\ pc = "off" /\ pc' = "idle"
  /\ nodeDir' = (current /\ HasNode(target))
  /\ UNCHANGED <<disk, marked, attempt, restored, bound, installed, errors>>

ProcessEnds ==
  /\ pc' = "off"
  /\ nodeDir' = FALSE /\ restored' = FALSE /\ bound' = FALSE
  /\ UNCHANGED <<disk, marked, attempt, installed>>

Kill ==
  /\ pc # "off" /\ errors < MaxErrors
  /\ errors' = errors + 1
  /\ ProcessEnds

\* A step of a restore returns an error: nothing is put back.
StepFails ==
  /\ pc \notin {"off", "idle"} /\ errors < MaxErrors
  /\ errors' = errors + 1
  /\ pc' = "idle"
  /\ UNCHANGED <<disk, marked, attempt, process, installed>>

-----------------------------------------------------------------------------
(* A restore, from the files in memory on.                                 *)

\* Mutant: the wallet in place is not looked for.
RestoreOver(src, force) ==
  /\ pc = "idle" /\ fetched < MaxRestores
  /\ pc' = "clear"
  /\ source' = src /\ fetched' = fetched + 1
  /\ damaged' \in {damaged, damaged \cup {fetched + 1}}
  /\ UNCHANGED <<disk, marked, process, installed, errors>>

\* checkRestoreTarget; App.Restore asks the user before it forces.
Restore(src, force) ==
  /\ pc = "idle" /\ fetched < MaxRestores
  /\ ~bound /\ (HasWallet(target) => force)
  /\ pc' = "clear"
  /\ source' = src /\ fetched' = fetched + 1
  /\ damaged' \in {damaged, damaged \cup {fetched + 1}}
  /\ UNCHANGED <<disk, marked, process, installed, errors>>

\* What is fetched and decoded before is in memory only.
GoogleRestore(force) == Restore("google", force)
ICloudRestore(force) == Restore("icloud", force)
ZipRestore(force) == Restore("zip", force)

\* os.RemoveAll of what an attempt that died has left, file by file.
ClearFile(f) ==
  /\ pc = "clear" /\ staging.file[f] # "no"
  /\ staging' = [staging EXCEPT !.file[f] = "no"]
  /\ UNCHANGED <<target, aside, current, marked, pc, attempt, process, installed, errors>>

ClearEnds ==
  /\ pc = "clear" /\ pc' = "write"
  /\ \A f \in NodeFiles : staging.file[f] = "no"
  /\ staging' = NoFolder
  /\ UNCHANGED <<target, aside, current, marked, attempt, process, installed, errors>>

\* Mutant: the files of the next restore.
CreateNextFile(f) ==
  /\ pc = "write" /\ staging.file[f] = "no"
  /\ \A g \in NodeFiles : staging.file[g] # "part"
  /\ staging' = [staging EXCEPT !.exists = TRUE, !.restore = fetched + 1, !.file[f] = "part"]
  /\ UNCHANGED <<target, aside, current, marked, pc, attempt, process, installed, errors>>

\* writeFileSynced: the file is there before its content is.
CreateFile(f) ==
  /\ pc = "write" /\ staging.file[f] = "no"
  /\ \A g \in NodeFiles : staging.file[g] # "part"
  /\ staging' = [staging EXCEPT !.exists = TRUE, !.restore = fetched, !.file[f] = "part"]
  /\ UNCHANGED <<target, aside, current, marked, pc, attempt, process, installed, errors>>

FillFile(f) ==
  /\ pc = "write" /\ staging.file[f] = "part"
  /\ staging' = [staging EXCEPT !.file[f] = "full"]
  /\ UNCHANGED <<target, aside, current, marked, pc, attempt, process, installed, errors>>

WritesEnd ==
  /\ pc = "write" /\ pc' = "check"
  /\ \A f \in NodeFiles : staging.file[f] = "full"
  /\ UNCHANGED <<disk, marked, attempt, process, installed, errors>>

\* Mutant: damage is logged and passed over.
CheckDatabasesLogged ==
  /\ pc = "check" /\ pc' = "id"
  /\ UNCHANGED <<disk, marked, attempt, process, installed, errors>>

\* A very old backup's SQLite breez.db is passed unread: `damaged` leaves it out.
CheckDatabases ==
  /\ pc = "check"
  /\ pc' = IF fetched \in damaged THEN "idle" ELSE "id"
  /\ UNCHANGED <<disk, marked, attempt, process, installed, errors>>

\* Mutant: Google Drive is marked as soon as the id is there.
MarkEarly ==
  /\ pc = "id" /\ pc' = "aside"
  /\ staging' = [staging EXCEPT !.id = TRUE]
  /\ marked' = IF source = "google" THEN fetched ELSE marked
  /\ UNCHANGED <<target, aside, current, attempt, process, installed, errors>>

WriteBackupID ==
  /\ pc = "id" /\ pc' = "aside"
  /\ staging' = [staging EXCEPT !.id = TRUE]
  /\ UNCHANGED <<target, aside, current, marked, attempt, process, installed, errors>>

\* Mutant: what is in place is removed instead of renamed.
RemoveTarget ==
  /\ pc = "aside" /\ pc' = "place"
  /\ target' = NoFolder
  /\ UNCHANGED <<staging, aside, current, marked, attempt, process, installed, errors>>

\* Mutant: only what is no restored app is moved aside, the rest written over.
MoveIncompleteAside ==
  /\ pc = "aside" /\ pc' = "place"
  /\ target' = IF HasWallet(target) THEN target ELSE NoFolder
  /\ UNCHANGED <<staging, aside, current, marked, attempt, process, installed, errors>>

\* Whatever is at the final place is moved aside, never deleted.
MoveAside ==
  /\ pc = "aside" /\ pc' = "place"
  /\ aside' = IF HasWallet(target) THEN aside \cup {target.restore} ELSE aside
  /\ target' = NoFolder
  /\ UNCHANGED <<staging, current, marked, attempt, process, installed, errors>>

PlaceStaging ==
  /\ pc = "place" /\ pc' = "select"
  /\ target' = staging /\ staging' = NoFolder
  /\ installed' = installed \cup {fetched}
  /\ UNCHANGED <<aside, current, marked, attempt, process, errors>>

SelectBackup ==
  /\ pc = "select" /\ pc' = "finish"
  /\ current' = TRUE /\ nodeDir' = TRUE
  /\ UNCHANGED <<target, staging, aside, marked, attempt, restored, bound, installed, errors>>

\* markRestored: Google takes the mark, its answer may be lost (StepFails).
MarkRestored ==
  /\ pc = "finish" /\ source = "google"
  /\ pc' = "marked"
  /\ marked' = fetched
  /\ UNCHANGED <<disk, attempt, process, installed, errors>>

Finish ==
  /\ pc = IF source = "google" THEN "marked" ELSE "finish"
  /\ pc' = "idle" /\ restored' = TRUE
  /\ UNCHANGED <<disk, marked, attempt, nodeDir, bound, installed, errors>>

-----------------------------------------------------------------------------
\* UseBackup: continue with the backup that is already restored.
UseBackup ==
  /\ pc = "idle" /\ HasNode(target)
  /\ current' = TRUE /\ nodeDir' = TRUE
  /\ UNCHANGED <<target, staging, aside, marked, pc, attempt, restored, bound, installed,
                 errors>>

\* StartNode after a restore of this process: ErrRestartRequired.
RestartFirst ==
  /\ pc = "idle" /\ nodeDir /\ HasNode(target) /\ restored /\ ~bound
  /\ ProcessEnds
  /\ UNCHANGED errors

\* StartNode: the library runs on the folder from here on.
StartLibrary ==
  /\ pc = "idle" /\ nodeDir /\ HasNode(target) /\ ~restored /\ ~bound
  /\ bound' = TRUE
  /\ UNCHANGED <<disk, marked, pc, attempt, nodeDir, restored, installed, errors>>

Close ==
  /\ pc = "idle"
  /\ ProcessEnds
  /\ UNCHANGED errors

Next ==
  \/ Open \/ Kill \/ StepFails
  \/ \E force \in BOOLEAN :
       GoogleRestore(force) \/ ICloudRestore(force) \/ ZipRestore(force)
  \/ \E f \in NodeFiles : ClearFile(f) \/ CreateFile(f) \/ FillFile(f)
  \/ ClearEnds \/ WritesEnd \/ CheckDatabases \/ WriteBackupID
  \/ MoveAside \/ PlaceStaging \/ SelectBackup \/ MarkRestored \/ Finish
  \/ UseBackup \/ RestartFirst \/ StartLibrary \/ Close

Spec == Init /\ [][Next]_vars

-----------------------------------------------------------------------------
TypeOK ==
  /\ target \in Folders /\ staging \in Folders
  /\ aside \in SUBSET Restores /\ current \in BOOLEAN /\ marked \in 0..MaxRestores
  /\ pc \in PCs /\ source \in Sources /\ fetched \in 0..MaxRestores
  /\ nodeDir \in BOOLEAN /\ restored \in BOOLEAN /\ bound \in BOOLEAN
  /\ damaged \in SUBSET Restores /\ installed \in SUBSET Restores /\ errors \in Nat

Whole(d) ==
  /\ d.exists /\ d.restore \in Restores /\ d.id
  /\ \A f \in NodeFiles : d.file[f] = "full"

(***************************************************************************)
(* "A crash or a full disk never leaves a folder that looks like a         *)
(* restored app but lacks its channels" (restore.go:28-33): the folder     *)
(* that passes hasNode holds all of one backup, to the last byte, and that *)
(* backup is sound as far as checkDatabases looks.                         *)
(***************************************************************************)
LooksRestoredIsWhole ==
  HasNode(target) => Whole(target) /\ target.restore \notin damaged

(***************************************************************************)
(* "No wallet file is ever overwritten or deleted" (restore.go:34): every  *)
(* restore that was ever in place is in place or moved aside.              *)
(***************************************************************************)
NoWalletIsLost ==
  installed \subseteq aside \cup {target.restore}

(***************************************************************************)
(* The mark in Google Drive makes a phone that still runs this node stop   *)
(* itself; it is set "last, once the backup is safely in place"            *)
(* (core.go:398), so the restore it names is never lost: it is in place or *)
(* was moved aside, whatever was restored, failed or died since.           *)
(***************************************************************************)
MarkedIsSafe ==
  marked # 0 => marked \in aside \cup {target.restore}

(***************************************************************************)
(* The folder is never moved from under the library that runs on it, also  *)
(* not by another restore of the same backup (checkRestoreTarget).         *)
(***************************************************************************)
FolderStaysWhileBound == [][bound => target' = target]_vars

(***************************************************************************)
(* RestoreFolder implements RestoredApp.                                   *)
(***************************************************************************)
App == INSTANCE RestoredApp WITH
  active <- IF HasNode(target) THEN target.restore ELSE 0,
  kept <- aside

RestoresAsPromised == App!AppSpec
=============================================================================
