------------------------------ MODULE AppOps ------------------------------
(***************************************************************************)
(* One process of the desktop app: the calls of its window (ui/app.go),    *)
(* which come on goroutines of their own at any time, the one lock and the *)
(* one cancel function they share, closing the window, the restart of the  *)
(* app by itself, and what all of these do to the current Core and to the  *)
(* library of the process (core/core.go, core/dirs.go).                    *)
(*                                                                         *)
(* A call that finds the lock taken returns errBusy and changes nothing;   *)
(* it is no step.  What the bodies do on disk is the subject of            *)
(* SyncLifecycle and RestoreFolder: here a body ends, well or not.  Of     *)
(* Stop's two halves the second, bindings.Stop, may hang.                  *)
(***************************************************************************)
EXTENDS Integers

CONSTANTS
  Callers,   \* goroutines that carry calls of the window
  MaxCores   \* bound: one more than the changes of the settings

ASSUME ParametersAssumption ==
  /\ MaxCores \in Nat \ {0}
  /\ "free" \notin Callers /\ "close" \notin Callers

None == "free"

VARIABLES
  opMu,      \* who holds a.opMu: "free", a caller, "close" for beforeClose
  cancel,    \* whose context a.cancel cancels, None for nil
  cancelled, \* the callers whose operation was cancelled
  pc,        \* where each caller is
  kind,      \* the operation each caller runs
  uses,      \* the Core it got from a.c()
  core,      \* a.core: Cores are numbered as they are made
  restored,  \* the Cores whose restored is set
  up,        \* the Cores whose node is not nil
  ready,     \* the Cores whose initialized is set
  bound,     \* boundLibDir # ""
  library,   \* the library itself: "new", "on" or "stopped"
  window,    \* where beforeClose is
  closing,   \* the Core beforeClose took
  stop,      \* the goroutine running Stop for each caller and for the window
  exiting    \* relaunch has started the next copy

calls   == <<pc, kind, uses>>
context == <<cancel, cancelled>>
session == <<core, restored, up, ready>>
process == <<bound, library, exiting>>
closer  == <<window, closing>>
vars    == <<opMu, context, calls, session, process, closer, stop>>

Cores == 1..MaxCores
Stoppers == Callers \cup {"close"}

\* Operations that a.run executes, and the two that take the lock themselves.
Running == {"short", "restore", "sync"}
Kinds == Running \cup {"settings", "other"}

\* Within fn(ctx) of a.run, and around it.
Body == {"body", "starting", "waiting", "stopping", "relaunch"}
PCs == Body \cup {"idle", "looked", "locked", "clear", "unlock"}

Init ==
  /\ opMu = "free" /\ cancel = None /\ cancelled = {}
  /\ pc = [p \in Callers |-> "idle"] /\ kind = [p \in Callers |-> "short"]
  /\ uses = [p \in Callers |-> 1]
  /\ core = 1 /\ restored = {} /\ up = {} /\ ready = {}
  /\ bound = FALSE /\ library = "new" /\ exiting = FALSE
  /\ window = "open" /\ closing = 1
  /\ stop = [s \in Stoppers |-> "no"]

Alive == window # "gone"
InOp(p, k) == Alive /\ pc[p] = "body" /\ kind[p] = k
Move(p, to) == pc' = [pc EXCEPT ![p] = to]
Within(p) == kind[p] \in Running

-----------------------------------------------------------------------------
(* run, and what it does around the operation.                             *)

\* Mutant: the settings are changed without the lock.
TryLockButSettings(p, k) ==
  /\ Alive /\ pc[p] = "idle" /\ (opMu = "free" \/ k = "settings")
  /\ opMu' = IF k = "settings" THEN opMu ELSE p
  /\ kind' = [kind EXCEPT ![p] = k]
  /\ Move(p, "locked")
  /\ UNCHANGED <<context, uses, session, process, closer, stop>>

\* Mutant: the lock is not looked at.
TryLockBlindly(p, k) ==
  /\ Alive /\ pc[p] = "idle"
  /\ opMu' = p
  /\ kind' = [kind EXCEPT ![p] = k]
  /\ Move(p, "locked")
  /\ UNCHANGED <<context, uses, session, process, closer, stop>>

TryLock(p, k) ==
  /\ Alive /\ pc[p] = "idle" /\ opMu = "free"
  /\ opMu' = p
  /\ kind' = [kind EXCEPT ![p] = k]
  /\ Move(p, "locked")
  /\ UNCHANGED <<context, uses, session, process, closer, stop>>

\* RestoreOther takes its Core first, then asks for the library and the lock.
OtherLooks(p) ==
  /\ Alive /\ pc[p] = "idle"
  /\ kind' = [kind EXCEPT ![p] = "other"]
  /\ uses' = [uses EXCEPT ![p] = core]
  /\ Move(p, "looked")
  /\ UNCHANGED <<opMu, context, session, process, closer, stop>>

OtherReturns(p) ==
  /\ Alive /\ pc[p] = "looked" /\ (~bound \/ opMu # "free")
  /\ Move(p, "idle")
  /\ UNCHANGED <<opMu, context, kind, uses, session, process, closer, stop>>

OtherLocks(p) ==
  /\ Alive /\ pc[p] = "looked" /\ bound /\ opMu = "free"
  /\ opMu' = p
  /\ Move(p, "locked")
  /\ UNCHANGED <<context, kind, uses, session, process, closer, stop>>

Register(p) ==
  /\ Alive /\ pc[p] = "locked" /\ Within(p)
  /\ cancel' = p
  /\ uses' = [uses EXCEPT ![p] = core]
  /\ Move(p, "body")
  /\ UNCHANGED <<opMu, cancelled, kind, session, process, closer, stop>>

\* The operation is over; its first deferred function.
Clear(p) ==
  /\ Alive /\ pc[p] = "clear"
  /\ cancel' = None /\ cancelled' = cancelled \ {p}
  /\ Move(p, "unlock")
  /\ UNCHANGED <<opMu, kind, uses, session, process, closer, stop>>

Unlock(p) ==
  /\ Alive /\ pc[p] = "unlock"
  /\ opMu' = "free"
  /\ Move(p, "idle")
  /\ UNCHANGED <<context, kind, uses, session, process, closer, stop>>

Ends(p) == Move(p, IF Within(p) THEN "clear" ELSE "unlock")

\* App.Cancel: it takes no lock but cancelMu.
CancelCurrent ==
  /\ Alive /\ cancel # None
  /\ cancelled' = cancelled \cup {cancel}
  /\ UNCHANGED <<opMu, cancel, calls, session, process, closer, stop>>

-----------------------------------------------------------------------------
(* The operations.                                                         *)

\* Listing backups, the status, the history, a sweep: they end.
ShortOperation(p) ==
  /\ InOp(p, "short")
  /\ Ends(p)
  /\ UNCHANGED <<opMu, context, kind, uses, session, process, closer, stop>>

\* A restore that succeeds sets restored; one that fails, and one that goes
\* on with what is restored already, does not.
Restore(p) ==
  /\ InOp(p, "restore")
  /\ restored' \in {restored} \cup (IF bound THEN {} ELSE {restored \cup {uses[p]}})
  /\ Ends(p)
  /\ UNCHANGED <<opMu, context, kind, uses, core, up, ready, process, closer, stop>>

\* StartNode of a node that runs, or right after a restore.
SyncWithNode(p) ==
  /\ InOp(p, "sync") /\ uses[p] \in up
  /\ Move(p, "waiting")
  /\ UNCHANGED <<opMu, context, kind, uses, session, process, closer, stop>>

SyncAfterRestore(p) ==
  /\ InOp(p, "sync") /\ uses[p] \notin up /\ uses[p] \in restored
  /\ Move(p, "relaunch")
  /\ UNCHANGED <<opMu, context, kind, uses, session, process, closer, stop>>

\* What comes before the library fails: no backup, a drop of the history.
StartFails(p) ==
  /\ InOp(p, "sync") /\ uses[p] \notin up /\ uses[p] \notin restored
  /\ Ends(p)
  /\ UNCHANGED <<opMu, context, kind, uses, session, process, closer, stop>>

\* initLibrary, for a Core that has done it already and for one that has not.
InitLibrary(p) ==
  /\ InOp(p, "sync") /\ uses[p] \notin up /\ uses[p] \notin restored
  /\ bound' = TRUE
  /\ IF uses[p] \in ready
     THEN Move(p, "starting") /\ UNCHANGED <<ready, library>>
     ELSE \/ Move(p, "starting") /\ ready' = ready \cup {uses[p]} /\ library' = "on"
          \/ Ends(p) /\ UNCHANGED ready /\ library' \in {library, "on"}
  /\ UNCHANGED <<opMu, context, kind, uses, core, restored, up, exiting, closer, stop>>

\* bindings.Start and the wait for the RPC.
NodeUp(p) ==
  /\ Alive /\ pc[p] = "starting"
  /\ up' = up \cup {uses[p]}
  /\ Move(p, "waiting")
  /\ UNCHANGED <<opMu, context, kind, uses, core, restored, ready, process, closer, stop>>

\* An error, a timeout, or the cancelled context.
NodeNotUp(p) ==
  /\ Alive /\ pc[p] = "starting"
  /\ Ends(p)
  /\ UNCHANGED <<opMu, context, kind, uses, session, process, closer, stop>>

\* WaitSynced and the channel check end, well or not.
SyncOver(p) ==
  /\ Alive /\ pc[p] = "waiting"
  /\ Ends(p)
  /\ UNCHANGED <<opMu, context, kind, uses, session, process, closer, stop>>

\* ErrRestartRequired: StopWithin first; RestoreOther does the same.
StopBegins(p) ==
  /\ Alive
  /\ pc[p] = "waiting" \/ (pc[p] = "locked" /\ kind[p] = "other")
  /\ stop' = [stop EXCEPT ![p] = "node"]
  /\ Move(p, "stopping")
  /\ UNCHANGED <<opMu, context, kind, uses, session, process, closer>>

\* StopWithin returns: Stop has ended, or its time is over.
StopReturns(p) ==
  /\ Alive /\ pc[p] = "stopping"
  /\ Move(p, "relaunch")
  /\ UNCHANGED <<opMu, context, kind, uses, session, process, closer, stop>>

Relaunch(p) ==
  /\ Alive /\ pc[p] = "relaunch"
  /\ exiting' = TRUE
  /\ Ends(p)
  /\ UNCHANGED <<opMu, context, kind, uses, session, bound, library, closer, stop>>

RelaunchFails(p) ==
  /\ Alive /\ pc[p] = "relaunch"
  /\ Ends(p)
  /\ UNCHANGED <<opMu, context, kind, uses, session, process, closer, stop>>

\* Mutant: the settings are changed under a library that runs.
ApplySettingsAnyTime(p) ==
  /\ Alive /\ pc[p] = "locked" /\ kind[p] = "settings" /\ core < MaxCores
  /\ core' = core + 1
  /\ Move(p, "unlock")
  /\ UNCHANGED <<opMu, context, kind, uses, restored, up, ready, process, closer, stop>>

ApplySettings(p) ==
  /\ Alive /\ pc[p] = "locked" /\ kind[p] = "settings" /\ core < MaxCores
  /\ core' = IF bound THEN core ELSE core + 1
  /\ Move(p, "unlock")
  /\ UNCHANGED <<opMu, context, kind, uses, restored, up, ready, process, closer, stop>>

\* The new settings are refused: an empty work folder.
SettingsRefused(p) ==
  /\ Alive /\ pc[p] = "locked" /\ kind[p] = "settings"
  /\ Move(p, "unlock")
  /\ UNCHANGED <<opMu, context, kind, uses, session, process, closer, stop>>

-----------------------------------------------------------------------------
(* Stop, on a goroutine of its own.  A caller whose last Stop still hangs  *)
(* may begin another; only the later one is followed.                      *)

Stopped(s) == IF s = "close" THEN closing ELSE uses[s]

StopNode(s) ==
  /\ Alive /\ stop[s] = "node"
  /\ up' = up \ {Stopped(s)}
  /\ stop' = [stop EXCEPT ![s] = IF Stopped(s) \in ready THEN "library" ELSE "no"]
  /\ UNCHANGED <<opMu, context, calls, core, restored, ready, process, closer>>

\* bindings.Stop returns.  When it hangs, this step is never taken.
StopLibrary(s) ==
  /\ Alive /\ stop[s] = "library"
  /\ library' = "stopped"
  /\ ready' = ready \ {Stopped(s)}
  /\ stop' = [stop EXCEPT ![s] = "no"]
  /\ UNCHANGED <<opMu, context, calls, core, restored, up, bound, exiting, closer>>

-----------------------------------------------------------------------------
(* beforeClose, and the end of the process.                                *)

CloseLooks ==
  /\ window = "open"
  /\ closing' = core
  /\ IF opMu = "free" THEN opMu' = "close" /\ window' = "locked"
                      ELSE window' = "busy" /\ UNCHANGED opMu
  /\ UNCHANGED <<context, calls, session, process, stop>>

\* c.NodeRunning() with the lock taken.
CloseNodeRuns ==
  /\ window = "locked" /\ closing \in up
  /\ window' = "busy"
  /\ UNCHANGED <<opMu, context, calls, session, process, closing, stop>>

CloseNothingRuns ==
  /\ window = "locked" /\ closing \notin up
  /\ opMu' = "free"
  /\ window' = "sure"
  /\ UNCHANGED <<context, calls, session, process, closing, stop>>

\* The second TryLock gives back at once what it got, then the dialog.
CloseAsks ==
  /\ window = "busy"
  /\ window' = "asking"
  /\ UNCHANGED <<opMu, context, calls, session, process, closing, stop>>

CloseNo ==
  /\ window = "asking"
  /\ window' = "open"
  /\ UNCHANGED <<opMu, context, calls, session, process, closing, stop>>

CloseYes ==
  /\ window = "asking"
  /\ window' = "sure"
  /\ UNCHANGED <<opMu, context, calls, session, process, closing, stop>>

CloseStops ==
  /\ window = "sure"
  /\ cancelled' = IF cancel = None THEN cancelled ELSE cancelled \cup {cancel}
  /\ stop' = [stop EXCEPT !["close"] = "node"]
  /\ window' = "stopping"
  /\ UNCHANGED <<opMu, cancel, calls, session, process, closing>>

\* Stop has ended, or 15 seconds are over, or relaunch's half second is.
ProcessEnds ==
  /\ window = "stopping" \/ (exiting /\ Alive)
  /\ window' = "gone"
  /\ UNCHANGED <<opMu, context, calls, session, process, closing, stop>>

Call(p) ==
  \/ \E k \in Running \cup {"settings"} : TryLock(p, k)
  \/ OtherLooks(p) \/ OtherReturns(p) \/ OtherLocks(p)
  \/ Register(p) \/ Clear(p) \/ Unlock(p)
  \/ ShortOperation(p) \/ Restore(p)
  \/ SyncWithNode(p) \/ SyncAfterRestore(p) \/ StartFails(p) \/ InitLibrary(p)
  \/ NodeUp(p) \/ NodeNotUp(p) \/ SyncOver(p)
  \/ StopBegins(p) \/ StopReturns(p) \/ Relaunch(p) \/ RelaunchFails(p)
  \/ ApplySettings(p) \/ SettingsRefused(p)

Window ==
  \/ CloseLooks \/ CloseNodeRuns \/ CloseNothingRuns \/ CloseAsks
  \/ CloseNo \/ CloseYes \/ CloseStops \/ ProcessEnds

Next ==
  \/ \E p \in Callers : Call(p)
  \/ \E s \in Stoppers : StopNode(s) \/ StopLibrary(s)
  \/ CancelCurrent \/ Window

Spec == Init /\ [][Next]_vars

-----------------------------------------------------------------------------
TypeOK ==
  /\ opMu \in Callers \cup {"free", "close"}
  /\ cancel \in Callers \cup {None} /\ cancelled \in SUBSET Callers
  /\ pc \in [Callers -> PCs] /\ kind \in [Callers -> Kinds]
  /\ uses \in [Callers -> Cores] /\ core \in Cores
  /\ restored \in SUBSET Cores /\ up \in SUBSET Cores /\ ready \in SUBSET Cores
  /\ bound \in BOOLEAN /\ library \in {"new", "on", "stopped"} /\ exiting \in BOOLEAN
  /\ window \in {"open", "locked", "busy", "asking", "sure", "stopping", "gone"}
  /\ closing \in Cores
  /\ stop \in [Stoppers -> {"no", "node", "library"}]

(***************************************************************************)
(* While an operation runs, Cancel and closing the window reach it and no  *)
(* other: a.cancel is the function of its own context, never nil and never *)
(* one that an earlier operation left, and nobody is cancelled who is not  *)
(* in an operation (run, cancelCurrent).                                   *)
(***************************************************************************)
CancelIsItsOwn ==
  /\ \A p \in Callers : (pc[p] \in Body /\ Within(p)) => cancel = p
  /\ \A p \in cancelled : pc[p] \in Body \cup {"clear"} /\ Within(p)

(***************************************************************************)
(* The Core an operation works on is the current one to its end: no change *)
(* of the settings puts another in its place meanwhile (a.c, opMu).        *)
(***************************************************************************)
WorksOnTheCurrentCore ==
  \A p \in Callers : (pc[p] \in Body /\ Within(p)) => uses[p] = core

(***************************************************************************)
(* The node and the library of the process are always those of the current *)
(* Core, which is the one Stop and the window's close act on: no change of *)
(* the settings strands a running node (ApplySettings, LibraryBound).      *)
(***************************************************************************)
NodeIsOfTheCurrentCore == up \cup ready \subseteq {core}

(***************************************************************************)
(* Stated by the words of errBusy, "another operation is still running"    *)
(* (app.go:191): when the lock is taken, an operation runs or the window   *)
(* is about to close.                                                      *)
(***************************************************************************)
BusyMeansRunning == opMu = "close" => window # "open"
=============================================================================
