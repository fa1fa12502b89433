----------------------------- MODULE WorkFolder -----------------------------
(***************************************************************************)
(* One work folder and the processes that come and go on it: the lock      *)
(* (core/lock.go), core.New with loadLayout and the move of an older       *)
(* release's node into backups/ (core/dirs.go), the selection of a backup, *)
(* changed settings and the app starting its own next copy (ui/app.go).    *)
(*                                                                         *)
(* Placing a backup is one step here (RestoreFolder has the steps), a      *)
(* library that runs is the folder it is bound to (AppOps has the calls).  *)
(* Of the entries of an older release's node those are kept whose place    *)
(* matters: data with wallet.db and channel.db, breez.db, and the markers. *)
(***************************************************************************)
EXTENDS Integers, FiniteSets, Sequences

CONSTANTS
  Procs,        \* processes of the program, at most so many at a time
  node, other,  \* names of two backups: the older release's, and another
  Dated,        \* names restored-<time>
  None,
  MaxKills,     \* bound: kills
  MaxErrors     \* bound: failed file operations

ASSUME NamesAssumption ==
  /\ node # other /\ {node, other} \cap Dated = {}
  /\ None \notin {node, other} \cup Dated \cup Procs
  /\ MaxKills \in Nat /\ MaxErrors \in Nat

VARIABLES
  old,       \* the entries the older release left, wherever they are now
  root,      \* those still in the work folder itself
  inside,    \* those in each folder of backups/
  aside,     \* those in a folder that a restore has moved to .replaced-
  exists,    \* the folders there are in backups/
  restored,  \* those with a backup this release has restored
  current,   \* the backup that file current names
  holder,    \* the process with the lock on instance.lock
  state,     \* where each process is
  nodeDir,   \* c.nodeDir of its Core
  bound,     \* boundLibDir of the process
  dest,      \* the move under way: the folder it goes to
  moved,     \* ... and what it has moved
  cut,       \* history: a move was cut short, or not put back
  meddled,   \* history: a process without the lock has selected a backup
  kills, errors

folder == <<root, inside, aside, exists, restored>>
move   == <<dest, moved>>
past   == <<old, cut, meddled>>
bounds == <<kills, errors>>
vars   == <<folder, current, holder, state, nodeDir, bound, move, past, bounds>>

Names == {node, other} \cup Dated

\* legacyNodeEntries: the order of the renames.
MoveOrder == <<"data", "breez.db", "addresses-extended", "FORCE_RESCAN">>
Entries == {MoveOrder[i] : i \in DOMAIN MoveOrder}
NodeEntries == {"data", "breez.db"}

HasNode(n) == n \in restored \/ NodeEntries \subseteq inside[n]

\* New before it returns, and relaunch before it exits.
Loading == {"wait", "look", "make", "move", "undo", "truncate", "write", "read"}
States == {"off", "open", "refused", "away", "exit"} \cup Loading

Goto(p, s) == state' = [state EXCEPT ![p] = s]

\* An older release may have been used before this one or in between.
Init ==
  /\ old \in {{}} \cup {NodeEntries \cup m : m \in SUBSET (Entries \ NodeEntries)}
  /\ root = old /\ inside = [n \in Names |-> {}] /\ aside = {}
  /\ restored \in SUBSET {node, other} /\ exists = restored
  /\ current \in restored \cup {None}
  /\ holder = None
  /\ state = [p \in Procs |-> "off"]
  /\ nodeDir = [p \in Procs |-> None] /\ bound = [p \in Procs |-> None]
  /\ dest = None /\ moved = {}
  /\ cut = FALSE /\ meddled = FALSE
  /\ kills = 0 /\ errors = 0

-----------------------------------------------------------------------------
(* core.New: the lock.                                                     *)

StartByUser(p) ==
  /\ state[p] = "off"
  /\ Goto(p, "wait")
  /\ UNCHANGED <<folder, current, holder, nodeDir, bound, move, past, bounds>>

\* A process that has the lock already does not ask again (map locks).
LockGranted(p) ==
  /\ state[p] = "wait" /\ holder \in {None, p}
  /\ holder' = p
  /\ Goto(p, "look")
  /\ UNCHANGED <<folder, current, nodeDir, bound, move, past, bounds>>

\* Mutant: the folder is used although the lock was not to be had.
LockNotNeeded(p) ==
  /\ state[p] = "wait" /\ holder \notin {None, p}
  /\ Goto(p, "look")
  /\ UNCHANGED <<folder, current, holder, nodeDir, bound, move, past, bounds>>

\* Mutant: bolt.Open has no timeout, as for breez.db.
LockWaitsForEver(p) ==
  /\ state[p] = "wait" /\ holder \notin {None, p}
  /\ UNCHANGED vars

\* After lockWait; half a second is over before 20 seconds are.
LockTimesOut(p) ==
  /\ state[p] = "wait" /\ holder \notin {None, p} /\ state[holder] # "exit"
  /\ Goto(p, "refused")
  /\ UNCHANGED <<folder, current, holder, nodeDir, bound, move, past, bounds>>

-----------------------------------------------------------------------------
(* loadLayout and migrateLegacyNode.                                       *)

\* The node's own name if the file with it can be read, else the time.
LookForOldNode(p) ==
  /\ state[p] = "look"
  /\ IF NodeEntries \subseteq root
       THEN dest' \in {node} \cup Dated /\ Goto(p, "make")
       ELSE UNCHANGED dest /\ Goto(p, "read")
  /\ UNCHANGED <<folder, current, holder, nodeDir, bound, moved, past, bounds>>

\* Mutant: a folder that is there is moved into.
MakeDestOrNot(p) ==
  /\ state[p] = "make"
  /\ exists' = exists \cup {dest}
  /\ Goto(p, "move")
  /\ UNCHANGED <<root, inside, aside, restored, current, holder, nodeDir, bound, move,
                 past, bounds>>

MakeDest(p) ==
  /\ state[p] = "make" /\ dest \notin exists
  /\ exists' = exists \cup {dest}
  /\ Goto(p, "move")
  /\ UNCHANGED <<root, inside, aside, restored, current, holder, nodeDir, bound, move,
                 past, bounds>>

DestExists(p) ==
  /\ state[p] = "make" /\ dest \in exists
  /\ dest' = None
  /\ Goto(p, "refused")
  /\ UNCHANGED <<folder, current, holder, nodeDir, bound, moved, past, bounds>>

MoveEntry(p) ==
  /\ state[p] = "move"
  /\ \E i \in DOMAIN MoveOrder :
       /\ MoveOrder[i] \in root
       /\ \A j \in 1..(i - 1) : MoveOrder[j] \notin root
       /\ root' = root \ {MoveOrder[i]}
       /\ inside' = [inside EXCEPT ![dest] = @ \cup {MoveOrder[i]}]
       /\ moved' = moved \cup {MoveOrder[i]}
  /\ UNCHANGED <<aside, exists, restored, current, holder, state, nodeDir, bound, dest,
                 past, bounds>>

MoveFails(p) ==
  /\ state[p] = "move" /\ root # {} /\ errors < MaxErrors
  /\ errors' = errors + 1
  /\ Goto(p, "undo")
  /\ UNCHANGED <<folder, current, holder, nodeDir, bound, move, past, kills>>

MovesEnd(p) ==
  /\ state[p] = "move" /\ root = {}
  /\ moved' = {}
  /\ Goto(p, "truncate")
  /\ UNCHANGED <<folder, current, holder, nodeDir, bound, dest, past, bounds>>

PutBack(p) ==
  /\ state[p] = "undo"
  /\ \E e \in moved :
       /\ root' = root \cup {e}
       /\ inside' = [inside EXCEPT ![dest] = @ \ {e}]
       /\ moved' = moved \ {e}
  /\ UNCHANGED <<aside, exists, restored, current, holder, state, nodeDir, bound, dest,
                 past, bounds>>

\* The error of this rename is not looked at.
PutBackFails(p) ==
  /\ state[p] = "undo" /\ errors < MaxErrors
  /\ errors' = errors + 1
  /\ \E e \in moved : moved' = moved \ {e}
  /\ cut' = TRUE
  /\ UNCHANGED <<folder, current, holder, state, nodeDir, bound, dest, old, meddled,
                 kills>>

\* Mutant: the node files go back, the markers are forgotten.
UndoEndsEarly(p) ==
  /\ state[p] = "undo" /\ moved \cap NodeEntries = {}
  /\ exists' = IF inside[dest] = {} THEN exists \ {dest} ELSE exists
  /\ dest' = None /\ moved' = {}
  /\ Goto(p, "refused")
  /\ UNCHANGED <<root, inside, aside, restored, current, holder, nodeDir, bound, past,
                 bounds>>

\* os.Remove takes an empty folder only.
UndoEnds(p) ==
  /\ state[p] = "undo" /\ moved = {}
  /\ exists' = IF inside[dest] = {} THEN exists \ {dest} ELSE exists
  /\ dest' = None /\ moved' = {}
  /\ Goto(p, "refused")
  /\ UNCHANGED <<root, inside, aside, restored, current, holder, nodeDir, bound, past,
                 bounds>>

\* os.WriteFile empties the file before it writes.
TruncateCurrent(p) ==
  /\ state[p] = "truncate"
  /\ current' = None
  /\ Goto(p, "write")
  /\ UNCHANGED <<folder, holder, nodeDir, bound, move, past, bounds>>

WriteCurrent(p) ==
  /\ state[p] = "write"
  /\ current' = dest /\ dest' = None
  /\ Goto(p, "read")
  /\ UNCHANGED <<folder, holder, nodeDir, bound, moved, past, bounds>>

\* A backup that is not whole is not used, whatever current says.
ReadCurrent(p) ==
  /\ state[p] = "read"
  /\ nodeDir' = [nodeDir EXCEPT ![p] =
                   IF current # None /\ HasNode(current) THEN current ELSE None]
  /\ Goto(p, "open")
  /\ UNCHANGED <<folder, current, holder, bound, move, past, bounds>>

LoadFails(p) ==
  /\ state[p] \in {"make", "truncate", "write", "read"} /\ errors < MaxErrors
  /\ errors' = errors + 1
  /\ dest' = None
  /\ Goto(p, "refused")
  /\ UNCHANGED <<folder, current, holder, nodeDir, bound, moved, past, kills>>

-----------------------------------------------------------------------------
(* The session that New returned.                                          *)

\* checkRestoreTarget, placeBackupFiles and selectBackup.
Restore(p, n) ==
  /\ state[p] = "open" /\ bound[p] = None
  /\ aside' = aside \cup inside[n]
  /\ inside' = [inside EXCEPT ![n] = {}]
  /\ exists' = exists \cup {n} /\ restored' = restored \cup {n}
  /\ current' = n /\ nodeDir' = [nodeDir EXCEPT ![p] = n]
  /\ UNCHANGED <<root, holder, state, bound, move, past, bounds>>

\* Mutant: the selection is not written for the next start.
UseBackupThisTime(p, n) ==
  /\ state[p] \in {"open", "refused"} /\ HasNode(n) /\ bound[p] \in {None, n}
  /\ nodeDir' = [nodeDir EXCEPT ![p] = n]
  /\ meddled' = (meddled \/ holder # p)
  /\ UNCHANGED <<folder, current, holder, state, bound, move, old, cut, bounds>>

\* Nothing on this way looks at layoutErr.
UseBackup(p, n) ==
  /\ state[p] \in {"open", "refused"} /\ HasNode(n) /\ bound[p] \in {None, n}
  /\ current' = n /\ nodeDir' = [nodeDir EXCEPT ![p] = n]
  /\ meddled' = (meddled \/ holder # p)
  /\ UNCHANGED <<folder, holder, state, bound, move, old, cut, bounds>>

\* StartNode: from here on the library works in the folder.
StartLibrary(p) ==
  /\ state[p] = "open" /\ bound[p] = None
  /\ nodeDir[p] # None /\ HasNode(nodeDir[p])
  /\ bound' = [bound EXCEPT ![p] = nodeDir[p]]
  /\ UNCHANGED <<folder, current, holder, state, nodeDir, move, past, bounds>>

\* A new Core, on this work folder or on another; the lock is kept.
ApplySettings(p, s) ==
  /\ state[p] \in {"open", "refused", "away"} /\ bound[p] = None
  /\ Goto(p, s)
  /\ nodeDir' = [nodeDir EXCEPT ![p] = None]
  /\ UNCHANGED <<folder, current, holder, bound, move, past, bounds>>

\* The next copy is started, on the same work folder.
Relaunch(p, q) ==
  /\ state[p] = "open" /\ nodeDir[p] # None /\ state[q] = "off"
  /\ state' = [state EXCEPT ![p] = "exit", ![q] = "wait"]
  /\ UNCHANGED <<folder, current, holder, nodeDir, bound, move, past, bounds>>

ProcessEnds(p) ==
  /\ Goto(p, "off")
  /\ nodeDir' = [nodeDir EXCEPT ![p] = None]
  /\ bound' = [bound EXCEPT ![p] = None]
  /\ IF holder = p THEN holder' = None /\ dest' = None /\ moved' = {}
                   ELSE UNCHANGED <<holder, move>>
  /\ UNCHANGED <<folder, current, old, meddled>>

ExitEnds(p) ==
  /\ state[p] = "exit"
  /\ ProcessEnds(p)
  /\ UNCHANGED <<cut, bounds>>

Close(p) ==
  /\ state[p] \in {"open", "refused", "away"}
  /\ ProcessEnds(p)
  /\ UNCHANGED <<cut, bounds>>

Kill(p) ==
  /\ state[p] # "off" /\ kills < MaxKills
  /\ kills' = kills + 1
  /\ cut' = (cut \/ state[p] \in {"move", "undo"})
  /\ ProcessEnds(p)
  /\ UNCHANGED errors

Load(p) ==
  \/ LockGranted(p) \/ LockTimesOut(p) \/ LookForOldNode(p)
  \/ MakeDest(p) \/ DestExists(p) \/ MoveEntry(p) \/ MovesEnd(p)
  \/ PutBack(p) \/ UndoEnds(p)
  \/ TruncateCurrent(p) \/ WriteCurrent(p) \/ ReadCurrent(p)

Session(p) ==
  \/ \E n \in {node, other} : Restore(p, n)
  \/ \E n \in Names : UseBackup(p, n)
  \/ StartLibrary(p)
  \/ \E s \in {"wait", "away"} : ApplySettings(p, s)
  \/ \E q \in Procs : Relaunch(p, q)
  \/ Close(p)

Next == \E p \in Procs :
  \/ StartByUser(p) \/ Load(p) \/ Session(p) \/ ExitEnds(p)
  \/ MoveFails(p) \/ PutBackFails(p) \/ LoadFails(p) \/ Kill(p)

\* New ends by itself, the wait for the lock too (lockWait), and so does a
\* process that has started its next copy.
Fairness ==
  \A p \in Procs : SF_vars(Load(p)) /\ WF_vars(ExitEnds(p))

Spec == Init /\ [][Next]_vars
FairSpec == Spec /\ Fairness

-----------------------------------------------------------------------------
TypeOK ==
  /\ old \in SUBSET Entries /\ root \in SUBSET Entries /\ aside \in SUBSET Entries
  /\ inside \in [Names -> SUBSET Entries]
  /\ exists \in SUBSET Names /\ restored \in SUBSET Names
  /\ restored \cup {n \in Names : inside[n] # {}} \subseteq exists
  /\ current \in Names \cup {None}
  /\ holder \in Procs \cup {None} /\ state \in [Procs -> States]
  /\ nodeDir \in [Procs -> Names \cup {None}] /\ bound \in [Procs -> Names \cup {None}]
  /\ dest \in Names \cup {None} /\ moved \in SUBSET Entries
  /\ cut \in BOOLEAN /\ meddled \in BOOLEAN /\ kills \in Nat /\ errors \in Nat

Moving == \E p \in Procs : state[p] \in {"move", "undo"}

(***************************************************************************)
(* "Put back what was moved: a node split over two folders would not       *)
(* start" (dirs.go:227-228): whatever fails, an older release's node is in *)
(* one place with its markers, unless a move was cut short.                *)
(***************************************************************************)
NodeStaysTogether ==
  ~Moving /\ ~cut => old \in {root, aside} \cup {inside[n] : n \in Names}

(***************************************************************************)
(* "Two backups never share a wallet, a channel database, ... or any       *)
(* marker file" (dirs.go:18-20), and nothing is copied or deleted: also    *)
(* after moves cut short and restores over what they left, every entry of  *)
(* the older release is kept, and none is in the folder of a restore.      *)
(***************************************************************************)
BackupsAreApart ==
  /\ old = root \cup aside \cup UNION {inside[n] : n \in Names}
  /\ \A n \in restored : inside[n] = {}

(***************************************************************************)
(* The library works on a whole backup, in the process that has the lock   *)
(* and has it selected, for as long as that process lives (lockWorkDir,    *)
(* selectBackup, ErrLibraryBound): no other copy can move it away.         *)
(***************************************************************************)
LibraryKeepsItsFolder ==
  \A p \in Procs : bound[p] # None =>
    /\ holder = p /\ state[p] \in {"open", "exit"}
    /\ nodeDir[p] = bound[p] /\ HasNode(bound[p])

(***************************************************************************)
(* The next start continues with the backup this one works on (current and *)
(* c.nodeDir), unless a process without the lock selects another.          *)
(***************************************************************************)
NextStartContinues ==
  \A p \in Procs :
    (state[p] \in {"open", "exit"} /\ nodeDir[p] # None /\ ~meddled)
      => holder = p /\ current = nodeDir[p]

(***************************************************************************)
(* A copy that was started, also by the one before it, gets the folder or  *)
(* an error: the two never wait for each other (lockWait, relaunch).       *)
(***************************************************************************)
StartIsAnswered ==
  \A p \in Procs : state[p] = "wait" ~> state[p] \notin Loading
=============================================================================
