-------------------------- MODULE WorkFolder_proofs --------------------------
(***************************************************************************)
(* Proofs about WorkFolder, for any number of processes, kills and errors: *)
(* who works on the folder, what its next start continues with, and where  *)
(* the entries of an older release are.                                    *)
(***************************************************************************)
EXTENDS WorkFolder, TLAPS

\* New, from the lock on.
Busy == {"look", "make", "move", "undo", "truncate", "write", "read"}

\* Whoever reads or changes the folder by New, or has it open, has the lock.
LockInv == \A p \in Procs : state[p] \in Busy \cup {"open", "exit"} => holder = p

\* A session has a backup selected only once New has returned.
SessionInv ==
  \A p \in Procs : nodeDir[p] # None => state[p] \in {"open", "refused", "exit"}

\* What a move knows of its folder.
MoveInv ==
  /\ \A p \in Procs :
       /\ state[p] \in {"make", "move", "undo", "truncate", "write"} => dest \in Names
       /\ state[p] = "make" => NodeEntries \subseteq root
  /\ ~Moving => moved = {}
  /\ Moving => dest \in exists \ restored /\ moved \subseteq inside[dest]
  /\ Moving /\ ~cut => old = root \cup moved /\ inside[dest] = moved

\* No entry is in two places.
ApartInv ==
  /\ root \cap aside = {}
  /\ \A n \in Names : inside[n] \cap (root \cup aside) = {}
  /\ \A m, n \in Names : m # n => inside[m] \cap inside[n] = {}

ProcessParts == LockInv /\ SessionInv /\ LibraryKeepsItsFolder /\ NextStartContinues
FolderParts == MoveInv /\ ApartInv /\ NodeStaysTogether /\ BackupsAreApart

IInv == TypeOK /\ ProcessParts /\ FolderParts

-----------------------------------------------------------------------------
LEMMA EntryFacts ==
  /\ Entries = {"data", "breez.db", "addresses-extended", "FORCE_RESCAN"}
  /\ \A i \in DOMAIN MoveOrder : MoveOrder[i] \in Entries
  BY DEF Entries, MoveOrder

LEMMA InitInv == Init => IInv
<1> SUFFICES ASSUME Init PROVE IInv
  OBVIOUS
<1>1. TypeOK
  <2>1. old \in SUBSET Entries
    BY EntryFacts DEF Init, NodeEntries
  <2>2. state \in [Procs -> States]
    BY DEF Init, States
  <2>3. exists \in SUBSET Names /\ restored \in SUBSET Names /\ current \in Names \cup {None}
    BY DEF Init, Names
  <2>4. inside \in [Names -> SUBSET Entries]
        /\ restored \cup {n \in Names : inside[n] # {}} \subseteq exists
    BY DEF Init
  <2> QED
    BY <2>1, <2>2, <2>3, <2>4, NamesAssumption DEF Init, TypeOK
<1>2. ProcessParts
  BY DEF Init, ProcessParts, LockInv, SessionInv, LibraryKeepsItsFolder, NextStartContinues,
         Busy
<1>3. FolderParts
  <2>1. ~Moving
    BY DEF Init, Moving
  <2>2. MoveInv
    BY <2>1 DEF Init, MoveInv
  <2>3. ApartInv /\ NodeStaysTogether
    BY DEF Init, ApartInv, NodeStaysTogether
  <2>4. UNION {inside[n] : n \in Names} = {}
    BY DEF Init
  <2>5. BackupsAreApart
    BY <2>4, <1>1 DEF Init, BackupsAreApart, TypeOK
  <2> QED
    BY <2>2, <2>3, <2>5 DEF FolderParts
<1> QED
  BY <1>1, <1>2, <1>3 DEF IInv

-----------------------------------------------------------------------------
LEMMA TypeStep == IInv /\ [Next]_vars => TypeOK'
<1> SUFFICES ASSUME IInv, [Next]_vars PROVE TypeOK'
  OBVIOUS
<1> USE NamesAssumption
    DEF TypeOK, Goto, States, Loading, folder, move, past, bounds
<1> TypeOK
  BY DEF IInv
<1>1. CASE UNCHANGED vars
  BY <1>1 DEF vars
<1>2. ASSUME NEW p \in Procs, Load(p) PROVE TypeOK'
  <2>1. CASE LockGranted(p)
    BY <2>1 DEF LockGranted
  <2>2. CASE LockTimesOut(p)
    BY <2>2 DEF LockTimesOut
  <2>3. CASE LookForOldNode(p)
    <3>1. dest' \in Names \cup {None} /\ state' \in [Procs -> States]
      BY <2>3 DEF LookForOldNode, Names
    <3> QED
      BY <2>3, <3>1 DEF LookForOldNode
  <2>4. CASE MakeDest(p)
    <3>1. dest \in Names
      BY <2>4 DEF MakeDest, IInv, FolderParts, MoveInv
    <3> QED
      BY <2>4, <3>1 DEF MakeDest
  <2>5. CASE DestExists(p)
    BY <2>5 DEF DestExists
  <2>6. CASE MoveEntry(p)
    <3>1. PICK i \in DOMAIN MoveOrder :
            /\ root' = root \ {MoveOrder[i]}
            /\ inside' = [inside EXCEPT ![dest] = @ \cup {MoveOrder[i]}]
            /\ moved' = moved \cup {MoveOrder[i]}
      BY <2>6 DEF MoveEntry
    <3>2. MoveOrder[i] \in Entries
      BY EntryFacts
    <3>3. dest \in exists
      BY <2>6 DEF MoveEntry, IInv, FolderParts, MoveInv, Moving
    <3>4. inside' \in [Names -> SUBSET Entries]
          /\ {n \in Names : inside'[n] # {}} \subseteq exists
      BY <3>1, <3>2, <3>3
    <3> QED
      BY <2>6, <3>1, <3>2, <3>4 DEF MoveEntry
  <2>7. CASE MovesEnd(p)
    BY <2>7 DEF MovesEnd
  <2>8. CASE PutBack(p)
    <3>1. PICK e \in moved :
            /\ root' = root \cup {e}
            /\ inside' = [inside EXCEPT ![dest] = @ \ {e}]
            /\ moved' = moved \ {e}
      BY <2>8 DEF PutBack
    <3>2. inside' \in [Names -> SUBSET Entries]
          /\ {n \in Names : inside'[n] # {}} \subseteq exists
      BY <3>1
    <3> QED
      BY <2>8, <3>1, <3>2 DEF PutBack
  <2>9. CASE UndoEnds(p)
    <3>1. dest \notin restored
      BY <2>9 DEF UndoEnds, IInv, FolderParts, MoveInv, Moving
    <3> QED
      BY <2>9, <3>1 DEF UndoEnds
  <2>10. CASE TruncateCurrent(p)
    BY <2>10 DEF TruncateCurrent
  <2>11. CASE WriteCurrent(p)
    BY <2>11 DEF WriteCurrent
  <2>12. CASE ReadCurrent(p)
    BY <2>12 DEF ReadCurrent
  <2> QED
    BY <1>2, <2>1, <2>2, <2>3, <2>4, <2>5, <2>6, <2>7, <2>8, <2>9, <2>10, <2>11, <2>12
       DEF Load
<1>3. ASSUME NEW p \in Procs, Session(p) PROVE TypeOK'
  <2>1. ASSUME NEW n \in {node, other}, Restore(p, n) PROVE TypeOK'
    <3>1. n \in Names
      BY DEF Names
    <3>2. inside' \in [Names -> SUBSET Entries] /\ aside' \in SUBSET Entries
          /\ {m \in Names : inside'[m] # {}} \subseteq exists
      BY <2>1, <3>1 DEF Restore
    <3> QED
      BY <2>1, <3>1, <3>2 DEF Restore
  <2>2. ASSUME NEW n \in Names, UseBackup(p, n) PROVE TypeOK'
    <3>1. meddled' \in BOOLEAN
      BY <2>2 DEF UseBackup
    <3> QED
      BY <2>2, <3>1 DEF UseBackup
  <2>3. CASE StartLibrary(p)
    BY <2>3 DEF StartLibrary
  <2>4. ASSUME NEW s \in {"wait", "away"}, ApplySettings(p, s) PROVE TypeOK'
    BY <2>4 DEF ApplySettings
  <2>5. ASSUME NEW q \in Procs, Relaunch(p, q) PROVE TypeOK'
    BY <2>5 DEF Relaunch
  <2>6. CASE Close(p)
    BY <2>6 DEF Close, ProcessEnds
  <2> QED
    BY <1>3, <2>1, <2>2, <2>3, <2>4, <2>5, <2>6 DEF Session
<1>4. ASSUME NEW p \in Procs, StartByUser(p) \/ ExitEnds(p) PROVE TypeOK'
  BY <1>4 DEF StartByUser, ExitEnds, ProcessEnds
<1>5. ASSUME NEW p \in Procs, MoveFails(p) \/ PutBackFails(p) \/ LoadFails(p) PROVE TypeOK'
  <2>1. errors' \in Nat
    BY <1>5 DEF MoveFails, PutBackFails, LoadFails
  <2>2. CASE MoveFails(p)
    BY <2>1, <2>2 DEF MoveFails
  <2>3. CASE PutBackFails(p)
    BY <2>1, <2>3 DEF PutBackFails
  <2>4. CASE LoadFails(p)
    BY <2>1, <2>4 DEF LoadFails
  <2> QED
    BY <1>5, <2>2, <2>3, <2>4
<1>6. ASSUME NEW p \in Procs, Kill(p) PROVE TypeOK'
  <2>1. cut' \in BOOLEAN
    BY <1>6 DEF Kill
  <2> QED
    BY <1>6, <2>1 DEF Kill, ProcessEnds
<1> QED
  BY <1>1, <1>2, <1>3, <1>4, <1>5, <1>6 DEF Next

-----------------------------------------------------------------------------
LEMMA ProcessStep == IInv /\ TypeOK' /\ [Next]_vars => ProcessParts'
<1> SUFFICES ASSUME IInv, TypeOK', [Next]_vars PROVE ProcessParts'
  OBVIOUS
<1> USE NamesAssumption
    DEF ProcessParts, LockInv, SessionInv, LibraryKeepsItsFolder, NextStartContinues,
        Goto, Busy, HasNode, folder, move, past, bounds
<1> TypeOK /\ ProcessParts /\ MoveInv
  BY DEF IInv, FolderParts
<1> USE DEF TypeOK
<1>1. CASE UNCHANGED vars
  BY <1>1 DEF vars
<1>2. ASSUME NEW p \in Procs, Load(p) PROVE ProcessParts'
  <2>1. CASE LockGranted(p)
    BY <2>1 DEF LockGranted
  <2>2. CASE LockTimesOut(p)
    BY <2>2 DEF LockTimesOut
  <2>3. CASE LookForOldNode(p)
    BY <2>3 DEF LookForOldNode
  <2>4. CASE MakeDest(p)
    BY <2>4 DEF MakeDest
  <2>5. CASE DestExists(p)
    BY <2>5 DEF DestExists
  <2>6. CASE MoveEntry(p)
    BY <2>6 DEF MoveEntry
  <2>7. CASE MovesEnd(p)
    BY <2>7 DEF MovesEnd
  <2>8. CASE PutBack(p)
    BY <2>8 DEF PutBack
  <2>9. CASE UndoEnds(p)
    BY <2>9 DEF UndoEnds
  <2>10. CASE TruncateCurrent(p)
    BY <2>10 DEF TruncateCurrent
  <2>11. CASE WriteCurrent(p)
    BY <2>11 DEF WriteCurrent
  <2>12. CASE ReadCurrent(p)
    BY <2>12 DEF ReadCurrent
  <2> QED
    BY <1>2, <2>1, <2>2, <2>3, <2>4, <2>5, <2>6, <2>7, <2>8, <2>9, <2>10, <2>11, <2>12
       DEF Load
<1>3. ASSUME NEW p \in Procs, Session(p) PROVE ProcessParts'
  <2>1. ASSUME NEW n \in {node, other}, Restore(p, n) PROVE ProcessParts'
    <3>1. n \in Names
      BY DEF Names
    <3> QED
      BY <2>1, <3>1 DEF Restore
  <2>2. ASSUME NEW n \in Names, UseBackup(p, n) PROVE ProcessParts'
    BY <2>2 DEF UseBackup
  <2>3. CASE StartLibrary(p)
    BY <2>3 DEF StartLibrary
  <2>4. ASSUME NEW s \in {"wait", "away"}, ApplySettings(p, s) PROVE ProcessParts'
    BY <2>4 DEF ApplySettings
  <2>5. ASSUME NEW q \in Procs, Relaunch(p, q) PROVE ProcessParts'
    BY <2>5 DEF Relaunch
  <2>6. CASE Close(p)
    BY <2>6 DEF Close, ProcessEnds
  <2> QED
    BY <1>3, <2>1, <2>2, <2>3, <2>4, <2>5, <2>6 DEF Session
<1>4. ASSUME NEW p \in Procs, StartByUser(p) PROVE ProcessParts'
  BY <1>4 DEF StartByUser
<1>5. ASSUME NEW p \in Procs, MoveFails(p) \/ PutBackFails(p) \/ LoadFails(p)
      PROVE  ProcessParts'
  BY <1>5 DEF MoveFails, PutBackFails, LoadFails
<1>6. ASSUME NEW p \in Procs, ExitEnds(p) \/ Kill(p) PROVE ProcessParts'
  BY <1>6 DEF ExitEnds, Kill, ProcessEnds
<1> QED
  BY <1>1, <1>2, <1>3, <1>4, <1>5, <1>6 DEF Next

-----------------------------------------------------------------------------
LEMMA FolderStep == IInv /\ TypeOK' /\ [Next]_vars => FolderParts'
<1> SUFFICES ASSUME IInv, TypeOK', [Next]_vars PROVE FolderParts'
  OBVIOUS
<1> USE NamesAssumption
    DEF FolderParts, MoveInv, ApartInv, NodeStaysTogether, BackupsAreApart, Moving,
        Goto, Busy, Loading, folder, move, past, bounds
<1> TypeOK /\ FolderParts /\ LockInv
  BY DEF IInv, ProcessParts
<1> USE DEF TypeOK, LockInv
<1>1. CASE UNCHANGED vars
  BY <1>1 DEF vars
<1>2. ASSUME NEW p \in Procs, Load(p) PROVE FolderParts'
  <2>1. CASE LockGranted(p)
    BY <2>1 DEF LockGranted
  <2>2. CASE LockTimesOut(p)
    BY <2>2 DEF LockTimesOut
  <2>3. CASE LookForOldNode(p)
    BY <2>3 DEF LookForOldNode, Names
  <2>4. CASE MakeDest(p)
    <3>1. dest \in Names \ exists /\ inside[dest] = {} /\ NodeEntries \subseteq root
      BY <2>4 DEF MakeDest
    <3>2. ~Moving /\ moved = {} /\ state'[p] = "move"
      BY <2>4 DEF MakeDest
    <3>3. ~cut => old = root
      <4>1. \E e \in NodeEntries : e \in root
        BY <3>1 DEF NodeEntries
      <4> QED
        BY <3>2, <4>1
    <3>4. MoveInv'
      BY <2>4, <3>1, <3>2, <3>3 DEF MakeDest
    <3> QED
      BY <2>4, <3>2, <3>4 DEF MakeDest
  <2>5. CASE DestExists(p)
    BY <2>5 DEF DestExists
  <2>6. CASE MoveEntry(p)
    BY <2>6 DEF MoveEntry
  <2>7. CASE MovesEnd(p)
    BY <2>7 DEF MovesEnd
  <2>8. CASE PutBack(p)
    BY <2>8 DEF PutBack
  <2>9. CASE UndoEnds(p)
    BY <2>9 DEF UndoEnds
  <2>10. CASE TruncateCurrent(p)
    BY <2>10 DEF TruncateCurrent
  <2>11. CASE WriteCurrent(p)
    BY <2>11 DEF WriteCurrent
  <2>12. CASE ReadCurrent(p)
    BY <2>12 DEF ReadCurrent
  <2> QED
    BY <1>2, <2>1, <2>2, <2>3, <2>4, <2>5, <2>6, <2>7, <2>8, <2>9, <2>10, <2>11, <2>12
       DEF Load
<1>3. ASSUME NEW p \in Procs, Session(p) PROVE FolderParts'
  <2>1. ASSUME NEW n \in {node, other}, Restore(p, n) PROVE FolderParts'
    <3>1. n \in Names
      BY DEF Names
    <3> QED
      BY <2>1, <3>1 DEF Restore
  <2>2. ASSUME NEW n \in Names, UseBackup(p, n) PROVE FolderParts'
    BY <2>2 DEF UseBackup
  <2>3. CASE StartLibrary(p)
    BY <2>3 DEF StartLibrary
  <2>4. ASSUME NEW s \in {"wait", "away"}, ApplySettings(p, s) PROVE FolderParts'
    BY <2>4 DEF ApplySettings
  <2>5. ASSUME NEW q \in Procs, Relaunch(p, q) PROVE FolderParts'
    BY <2>5 DEF Relaunch
  <2>6. CASE Close(p)
    BY <2>6 DEF Close, ProcessEnds
  <2> QED
    BY <1>3, <2>1, <2>2, <2>3, <2>4, <2>5, <2>6 DEF Session
<1>4. ASSUME NEW p \in Procs, StartByUser(p) PROVE FolderParts'
  BY <1>4 DEF StartByUser
<1>5. ASSUME NEW p \in Procs, MoveFails(p) PROVE FolderParts'
  BY <1>5 DEF MoveFails
<1>6. ASSUME NEW p \in Procs, PutBackFails(p) PROVE FolderParts'
  BY <1>6 DEF PutBackFails
<1>7. ASSUME NEW p \in Procs, LoadFails(p) PROVE FolderParts'
  BY <1>7 DEF LoadFails
<1>8. ASSUME NEW p \in Procs, ExitEnds(p) PROVE FolderParts'
  BY <1>8 DEF ExitEnds, ProcessEnds
<1>9. ASSUME NEW p \in Procs, Kill(p) PROVE FolderParts'
  <2>1. UNCHANGED <<root, inside, aside, exists, restored, old>>
        /\ state' = [state EXCEPT ![p] = "off"]
    BY <1>9 DEF Kill, ProcessEnds
  <2>2. BackupsAreApart' /\ ApartInv'
    BY <2>1
  <2>3. CASE state[p] \in {"move", "undo"}
    <3>1. cut'
      BY <1>9, <2>3 DEF Kill
    <3>2. ~Moving'
      BY <2>1, <2>3
    <3>3. moved' = {}
      BY <1>9, <2>3 DEF Kill, ProcessEnds
    <3> QED
      BY <1>9, <2>1, <2>2, <2>3, <3>1, <3>2, <3>3 DEF Kill, ProcessEnds
  <2>4. CASE state[p] \notin {"move", "undo"}
    <3>1. cut' = cut /\ Moving' = Moving
      BY <1>9, <2>1, <2>4 DEF Kill
    <3>2. Moving => UNCHANGED move
      BY <1>9, <2>1, <2>4 DEF Kill, ProcessEnds
    <3>3. moved' \in {moved, {}}
      BY <1>9 DEF Kill, ProcessEnds
    <3>4. NodeStaysTogether'
      BY <2>1, <3>1
    <3>5. \A q \in Procs : state'[q] \in {"make", "truncate", "write"} => dest' = dest
      BY <1>9, <2>1 DEF Kill, ProcessEnds
    <3>6. MoveInv'
      BY <2>1, <3>1, <3>2, <3>3, <3>5
    <3> QED
      BY <2>2, <3>4, <3>6
  <2> QED
    BY <2>3, <2>4
<1> QED
  BY <1>1, <1>2, <1>3, <1>4, <1>5, <1>6, <1>7, <1>8, <1>9 DEF Next

(***************************************************************************)
(* IInv, and with it TypeOK, holds in every reachable state of the work    *)
(* folder and its processes (core.New, loadLayout, App.relaunch).          *)
(***************************************************************************)
THEOREM Invariance == Spec => []IInv
<1>1. IInv /\ [Next]_vars => IInv'
  BY TypeStep, ProcessStep, FolderStep DEF IInv
<1> QED
  BY <1>1, InitInv, PTL DEF Spec

(***************************************************************************)
(* Every variable of the work folder keeps its type (core.New).            *)
(***************************************************************************)
THEOREM TypeCorrect == Spec => []TypeOK
<1>1. IInv => TypeOK
  BY DEF IInv
<1> QED
  BY <1>1, Invariance, PTL

(***************************************************************************)
(* Whatever fails, an older release's node is in one place with its        *)
(* markers unless a move was cut short (migrateLegacyNode).                *)
(***************************************************************************)
THEOREM NodeStaysTogetherHolds == Spec => []NodeStaysTogether
<1>1. IInv => NodeStaysTogether
  BY DEF IInv, FolderParts
<1> QED
  BY <1>1, Invariance, PTL

(***************************************************************************)
(* No entry of the older release is lost or shares a folder with a restore *)
(* (migrateLegacyNode, placeBackupFiles).                                  *)
(***************************************************************************)
THEOREM BackupsAreApartHolds == Spec => []BackupsAreApart
<1>1. IInv => BackupsAreApart
  BY DEF IInv, FolderParts
<1> QED
  BY <1>1, Invariance, PTL

(***************************************************************************)
(* The library's folder is whole, locked and selected by its process for   *)
(* as long as that lives (lockWorkDir, selectBackup).                      *)
(***************************************************************************)
THEOREM LibraryKeepsItsFolderHolds == Spec => []LibraryKeepsItsFolder
<1>1. IInv => LibraryKeepsItsFolder
  BY DEF IInv, ProcessParts
<1> QED
  BY <1>1, Invariance, PTL

(***************************************************************************)
(* The next start continues with the backup of this one, unless a process  *)
(* without the lock selects another (selectBackup, loadLayout).            *)
(***************************************************************************)
THEOREM NextStartContinuesHolds == Spec => []NextStartContinues
<1>1. IInv => NextStartContinues
  BY DEF IInv, ProcessParts
<1> QED
  BY <1>1, Invariance, PTL
=============================================================================
