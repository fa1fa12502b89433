----------------------- MODULE RestoreFolder_proofs -----------------------
(***************************************************************************)
(* Placing a backup is safe for any number of restores, failures and       *)
(* kills: the folder that looks like a restored app is one whole sound     *)
(* backup, no wallet is lost, the folder stays put under the library, and  *)
(* RestoreFolder implements RestoredApp.                                   *)
(*                                                                         *)
(* All four rest on the invariant IInv: what is in the staging folder at   *)
(* each step, and that the restore under way was never in place before.    *)
(***************************************************************************)
EXTENDS RestoreFolder, TLAPS

Nothing(d) == d.restore = 0 /\ \A f \in NodeFiles : d.file[f] = "no"

TargetInv == Nothing(target) \/ (Whole(target) /\ target.restore \notin damaged)

StagingInv ==
  /\ (pc = "write" /\ \E f \in NodeFiles : staging.file[f] # "no")
       => staging.exists /\ staging.restore = fetched
  /\ pc \in {"check", "id", "aside", "place"} =>
       /\ staging.exists /\ staging.restore = fetched
       /\ \A f \in NodeFiles : staging.file[f] = "full"
  /\ pc \in {"aside", "place"} => staging.id
  /\ pc \in {"id", "aside", "place"} => fetched \notin damaged
  /\ pc = "place" => Nothing(target)

\* A restore has its number before anything of it is in place.
FreshInv ==
  /\ \A r \in installed \cup aside \cup damaged : r <= fetched
  /\ target.restore <= fetched
  /\ pc \in {"clear", "write", "check", "id", "aside", "place"} =>
       /\ fetched \in Restores
       /\ fetched \notin installed /\ fetched \notin aside /\ fetched # target.restore

\* Only what is in place is marked.
MarkInv ==
  /\ pc \in {"select", "finish", "marked"} => fetched \in installed
  /\ marked # 0 => marked \in installed

BoundInv == bound => pc = "idle"

IInv == TypeOK /\ TargetInv /\ StagingInv /\ FreshInv /\ MarkInv /\ BoundInv /\ NoWalletIsLost

Parts == TargetInv /\ StagingInv /\ FreshInv /\ MarkInv /\ BoundInv /\ NoWalletIsLost

-----------------------------------------------------------------------------
LEMMA FolderTypes ==
  /\ NoFolder \in Folders /\ EmptyFolder \in Folders /\ FirstRestore \in Folders
  <1>1. NoFolder \in Folders
    BY BoundsAssumption DEF Folders, NoFolder, FileState
  <1>2. EmptyFolder \in Folders
    BY <1>1 DEF Folders, EmptyFolder
  <1>3. FirstRestore \in Folders
    BY BoundsAssumption DEF Folders, FirstRestore, FileState
  <1> QED
    BY <1>1, <1>2, <1>3

LEMMA InitIInv == Init => IInv
  <1> SUFFICES ASSUME Init PROVE IInv
    OBVIOUS
  <1>1. TypeOK
    <2>1. target \in Folders /\ staging \in Folders
      BY FolderTypes DEF Init
    <2>2. fetched \in 0..MaxRestores
      BY <2>1 DEF Init, Folders
    <2>3. /\ current \in BOOLEAN /\ nodeDir \in BOOLEAN /\ restored \in BOOLEAN
          /\ bound \in BOOLEAN
      BY DEF Init
    <2>4. marked \in 0..MaxRestores /\ errors \in Nat
      BY <2>1, BoundsAssumption DEF Init, Folders
    <2>5. /\ aside \in SUBSET Restores /\ installed \in SUBSET Restores
          /\ damaged \in SUBSET Restores
      BY DEF Init
    <2>6. pc \in PCs /\ source \in Sources
      BY DEF Init, PCs, Sources
    <2> QED
      BY <2>1, <2>2, <2>3, <2>4, <2>5, <2>6 DEF TypeOK
  <1>2. Parts
    BY BoundsAssumption
       DEF Init, Parts, TargetInv, StagingInv, FreshInv, MarkInv, BoundInv, NoWalletIsLost,
           Nothing, Whole, Restores, NoFolder, EmptyFolder, FirstRestore
  <1> QED
    BY <1>1, <1>2 DEF IInv, Parts

LEMMA NextTypeOK == IInv /\ [Next]_vars => TypeOK'
  <1> SUFFICES ASSUME IInv, [Next]_vars PROVE TypeOK'
    OBVIOUS
  <1> USE BoundsAssumption DEF IInv, TypeOK, PCs, disk, process, attempt
  <1>1. CASE Open
    BY <1>1 DEF Open
  <1>2. CASE Kill
    <2>1. errors' \in Nat
      BY <1>2 DEF Kill
    <2> QED
      BY <1>2, <2>1 DEF Kill, ProcessEnds
  <1>3. CASE StepFails
    BY <1>3 DEF StepFails
  <1>4. ASSUME NEW src \in Sources, NEW force \in BOOLEAN, Restore(src, force)
        PROVE  TypeOK'
    BY <1>4 DEF Restore, Restores, Sources
  <1>5. ASSUME NEW f \in NodeFiles, ClearFile(f) PROVE TypeOK'
    BY <1>5 DEF ClearFile, Folders, FileState
  <1>6. ASSUME NEW f \in NodeFiles, CreateFile(f) PROVE TypeOK'
    BY <1>6 DEF CreateFile, Folders, FileState
  <1>7. ASSUME NEW f \in NodeFiles, FillFile(f) PROVE TypeOK'
    BY <1>7 DEF FillFile, Folders, FileState
  <1>8. CASE ClearEnds
    BY <1>8, FolderTypes DEF ClearEnds
  <1>9. CASE WritesEnd
    BY <1>9 DEF WritesEnd
  <1>10. CASE CheckDatabases
    BY <1>10 DEF CheckDatabases
  <1>11. CASE WriteBackupID
    BY <1>11 DEF WriteBackupID, Folders
  <1>12. CASE MoveAside
    <2>1. aside' \in SUBSET Restores
      BY <1>12 DEF MoveAside, TargetInv, Nothing, Whole, HasWallet, NodeFiles
    <2> QED
      BY <1>12, <2>1, FolderTypes DEF MoveAside
  <1>13. CASE PlaceStaging
    <2>1. installed' \in SUBSET Restores
      BY <1>13 DEF PlaceStaging, FreshInv
    <2> QED
      BY <1>13, <2>1, FolderTypes DEF PlaceStaging
  <1>14. CASE SelectBackup
    BY <1>14 DEF SelectBackup
  <1>15. CASE MarkRestored \/ Finish
    BY <1>15 DEF MarkRestored, Finish
  <1>16. CASE UseBackup
    BY <1>16 DEF UseBackup
  <1>17. CASE RestartFirst
    BY <1>17 DEF RestartFirst, ProcessEnds
  <1>18. CASE StartLibrary
    BY <1>18 DEF StartLibrary
  <1>19. CASE Close
    BY <1>19 DEF Close, ProcessEnds
  <1>20. CASE UNCHANGED vars
    BY <1>20 DEF vars
  <1> QED
    BY <1>1, <1>2, <1>3, <1>4, <1>5, <1>6, <1>7, <1>8, <1>9, <1>10, <1>11, <1>12,
       <1>13, <1>14, <1>15, <1>16, <1>17, <1>18, <1>19, <1>20
       DEF Next, GoogleRestore, ICloudRestore, ZipRestore, Sources

LEMMA NextParts == IInv /\ TypeOK' /\ [Next]_vars => Parts'
  <1> SUFFICES ASSUME IInv, TypeOK', [Next]_vars PROVE Parts'
    OBVIOUS
  <1> USE BoundsAssumption
      DEF IInv, Parts, TypeOK, TargetInv, StagingInv, FreshInv, MarkInv, BoundInv, NoWalletIsLost,
          Nothing, Whole, disk, process, attempt
  <1>1. CASE Open
    BY <1>1 DEF Open
  <1>2. CASE Kill
    BY <1>2 DEF Kill, ProcessEnds
  <1>3. CASE StepFails
    BY <1>3 DEF StepFails
  <1>4. ASSUME NEW src \in Sources, NEW force \in BOOLEAN, Restore(src, force)
        PROVE  Parts'
    BY <1>4 DEF Restore, Restores
  <1>5. ASSUME NEW f \in NodeFiles, ClearFile(f) PROVE Parts'
    BY <1>5 DEF ClearFile
  <1>6. ASSUME NEW f \in NodeFiles, CreateFile(f) PROVE Parts'
    BY <1>6 DEF CreateFile, Folders
  <1>7. ASSUME NEW f \in NodeFiles, FillFile(f) PROVE Parts'
    BY <1>7 DEF FillFile, Folders
  <1>8. CASE ClearEnds
    BY <1>8 DEF ClearEnds, NoFolder
  <1>9. CASE WritesEnd
    BY <1>9 DEF WritesEnd, NodeFiles
  <1>10. CASE CheckDatabases
    BY <1>10 DEF CheckDatabases
  <1>11. CASE WriteBackupID
    BY <1>11 DEF WriteBackupID, Folders
  <1>12. CASE MoveAside
    <2>1. TargetInv' /\ MarkInv' /\ BoundInv' /\ Nothing(target')
      BY <1>12 DEF MoveAside, NoFolder
    <2>2. StagingInv'
      BY <1>12, <2>1 DEF MoveAside
    <2>3. FreshInv' /\ NoWalletIsLost'
      <3>1. CASE Nothing(target)
        BY <1>12, <3>1 DEF MoveAside, NoFolder, HasWallet, NodeFiles, Folders, Restores
      <3>2. CASE Whole(target)
        BY <1>12, <3>2 DEF MoveAside, NoFolder, HasWallet, NodeFiles, Folders, Restores
      <3> QED
        BY <3>1, <3>2
    <2> QED
      BY <2>1, <2>2, <2>3
  <1>13. CASE PlaceStaging
    <2>1. TargetInv' /\ MarkInv' /\ BoundInv'
      BY <1>13 DEF PlaceStaging
    <2>2. StagingInv'
      BY <1>13 DEF PlaceStaging, NoFolder
    <2>3. NoWalletIsLost'
      BY <1>13 DEF PlaceStaging, Folders, Restores
    <2>4. FreshInv'
      BY <1>13 DEF PlaceStaging, Restores
    <2> QED
      BY <2>1, <2>2, <2>3, <2>4
  <1>14. CASE SelectBackup
    BY <1>14 DEF SelectBackup
  <1>15. CASE MarkRestored \/ Finish
    BY <1>15 DEF MarkRestored, Finish
  <1>16. CASE UseBackup
    BY <1>16 DEF UseBackup
  <1>17. CASE RestartFirst
    BY <1>17 DEF RestartFirst, ProcessEnds
  <1>18. CASE StartLibrary
    BY <1>18 DEF StartLibrary
  <1>19. CASE Close
    BY <1>19 DEF Close, ProcessEnds
  <1>20. CASE UNCHANGED vars
    BY <1>20 DEF vars
  <1> QED
    BY <1>1, <1>2, <1>3, <1>4, <1>5, <1>6, <1>7, <1>8, <1>9, <1>10, <1>11, <1>12,
       <1>13, <1>14, <1>15, <1>16, <1>17, <1>18, <1>19, <1>20
       DEF Next, GoogleRestore, ICloudRestore, ZipRestore, Sources

(***************************************************************************)
(* IInv, and with it TypeOK, holds in every reachable state of a backup's  *)
(* folder (placeBackupFiles and the restores around it).                   *)
(***************************************************************************)
THEOREM Invariance == Spec => []IInv
  <1>1. IInv /\ [Next]_vars => IInv'
    BY NextTypeOK, NextParts DEF IInv, Parts
  <1> QED
    BY <1>1, InitIInv, PTL DEF Spec

-----------------------------------------------------------------------------
(***************************************************************************)
(* Every variable keeps its type, through any number of restores, failures *)
(* and kills (core/restore.go).                                            *)
(***************************************************************************)
THEOREM TypeOKHolds == Spec => []TypeOK
  <1>1. IInv => TypeOK
    BY DEF IInv
  <1> QED
    BY <1>1, Invariance, PTL

(***************************************************************************)
(* What passes hasNode is one whole sound backup, after any kill or error  *)
(* (placeBackupFiles).                                                     *)
(***************************************************************************)
THEOREM LooksRestoredIsWholeHolds == Spec => []LooksRestoredIsWhole
  <1>1. IInv => LooksRestoredIsWhole
    BY DEF IInv, TargetInv, Nothing, LooksRestoredIsWhole, HasNode, NodeFiles
  <1> QED
    BY <1>1, Invariance, PTL

(***************************************************************************)
(* Every restore that was ever in place is in place or moved aside         *)
(* (placeBackupFiles).                                                     *)
(***************************************************************************)
THEOREM NoWalletIsLostHolds == Spec => []NoWalletIsLost
  <1>1. IInv => NoWalletIsLost
    BY DEF IInv
  <1> QED
    BY <1>1, Invariance, PTL

(***************************************************************************)
(* The restore that Google Drive is marked with is in place or was moved   *)
(* aside (GoogleRestore, markRestored).                                    *)
(***************************************************************************)
THEOREM MarkedIsSafeHolds == Spec => []MarkedIsSafe
  <1>1. IInv => MarkedIsSafe
    BY DEF IInv, MarkInv, NoWalletIsLost, MarkedIsSafe
  <1> QED
    BY <1>1, Invariance, PTL

\* Only two steps of a restore touch the folder in place.
LEMMA TargetChanges ==
  ASSUME IInv, [Next]_vars, target' # target
  PROVE  MoveAside \/ PlaceStaging
  BY DEF Next, GoogleRestore, ICloudRestore, ZipRestore, Sources,
       vars, disk, Open, Kill, ProcessEnds, StepFails, Restore, ClearFile,
     CreateFile, FillFile, ClearEnds, WritesEnd, CheckDatabases, WriteBackupID,
     SelectBackup, MarkRestored, Finish, UseBackup, RestartFirst, StartLibrary, Close

(***************************************************************************)
(* The folder is never moved from under the library (checkRestoreTarget).  *)
(***************************************************************************)
THEOREM FolderStaysWhileBoundHolds == Spec => FolderStaysWhileBound
  <1>1. ASSUME IInv, [Next]_vars, bound PROVE target' = target
    BY <1>1, TargetChanges DEF IInv, BoundInv, MoveAside, PlaceStaging
  <1>2. IInv /\ [Next]_vars => [bound => target' = target]_vars
    BY <1>1
  <1> QED
    BY <1>2, Invariance, PTL DEF Spec, FolderStaysWhileBound

-----------------------------------------------------------------------------
Active == IF HasNode(target) THEN target.restore ELSE 0

LEMMA InitRefines == Init => App!AppInit
  BY BoundsAssumption
     DEF Init, App!AppInit, App!Restores, NoFolder, EmptyFolder, FirstRestore

LEMMA StepRefines == IInv /\ IInv' /\ [Next]_vars => [App!AppNext]_(App!appVars)
  <1> SUFFICES ASSUME IInv, IInv', [Next]_vars PROVE [App!AppNext]_(App!appVars)
    OBVIOUS
  <1> USE DEF App!appVars
  <1>1. CASE MoveAside
    <2>1. CASE Nothing(target)
      BY <1>1, <2>1 DEF MoveAside, Nothing, HasWallet, HasNode, NoFolder, NodeFiles
    <2>2. CASE Whole(target)
      <3>1. App!SetAside
        BY <1>1, <2>2, BoundsAssumption
           DEF MoveAside, Whole, HasWallet, HasNode, NoFolder, NodeFiles, App!SetAside,
               Restores
      <3> QED
        BY <3>1 DEF App!AppNext
    <2> QED
      BY <2>1, <2>2 DEF IInv, TargetInv
  <1>2. CASE PlaceStaging
    <2>1. App!Place(fetched)
      BY <1>2 DEF PlaceStaging, IInv, StagingInv, FreshInv, Nothing, HasNode, NodeFiles,
         App!Place, disk
    <2>2. fetched \in App!Restores
      BY <1>2 DEF PlaceStaging, IInv, FreshInv, Restores, App!Restores
    <2> QED
      BY <2>1, <2>2 DEF App!AppNext
  <1>3. CASE UNCHANGED <<target, aside>>
    BY <1>3 DEF HasNode
  <1> QED
    BY <1>1, <1>2, <1>3
       DEF Next, GoogleRestore, ICloudRestore, ZipRestore, Sources,
       vars, disk, Open, Kill, ProcessEnds, StepFails, Restore, ClearFile,
           CreateFile, FillFile, ClearEnds, WritesEnd, CheckDatabases, WriteBackupID,
           SelectBackup, MarkRestored, Finish, UseBackup, RestartFirst, StartLibrary, Close

(***************************************************************************)
(* RestoreFolder implements RestoredApp: the folder is no restored app or  *)
(* one whole restore, changed only by moving aside and placing.            *)
(***************************************************************************)
THEOREM Refinement == Spec => RestoresAsPromised
  <1>1. IInv /\ IInv' /\ [Next]_vars => [App!AppNext]_(App!appVars)
    BY StepRefines
  <1>2. Init => App!AppInit
    BY InitRefines
  <1> QED
    BY <1>1, <1>2, Invariance, PTL DEF Spec, RestoresAsPromised, App!AppSpec
=============================================================================
