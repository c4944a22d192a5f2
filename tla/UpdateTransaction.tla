------------------------- MODULE UpdateTransaction -------------------------
(***************************************************************************)
(* `jeden update`: replacing the installed binary as one transaction       *)
(* (rust/update/mod.rs execute, rust/update/transaction).                  *)
(*                                                                         *)
(* Updaters are processes on one machine.  They share the files beside the *)
(* installed binary and the operating system's lock on one of them, which  *)
(* is released when its holder exits however it exits.  One action is one  *)
(* durable file effect; a process may stop between any two, and the next   *)
(* updater's `recover` acts on the journal it finds.  An I/O error returns *)
(* with `?`, releasing the lock, and leaves exactly the files a stop at    *)
(* that point leaves, so Stop stands for both.                             *)
(*                                                                         *)
(* A binary is its version number.  Health probes answer either way.       *)
(***************************************************************************)
EXTENDS Naturals

CONSTANTS
  Updater,        \* the `jeden update` processes
  MaxVersion,     \* releases are numbered 1..MaxVersion
  FreshInstall,   \* TRUE: the target path holds no binary yet
  MaxRuns,        \* bound: invocations of the command, over all updaters
  MaxStops,       \* bound: processes killed or failed by an I/O error
  MaxPowerLosses, \* bound: machine power losses
  Nobody          \* the lock's holder when no process holds it

ASSUME NobodyAssumption == Nobody \notin Updater
ASSUME VersionAssumption == MaxVersion \in Nat \ {0}
ASSUME FreshAssumption == FreshInstall \in BOOLEAN
ASSUME BoundAssumption == MaxRuns \in Nat /\ MaxStops \in Nat /\ MaxPowerLosses \in Nat

Version == 1..MaxVersion
Absent == 0                        \* no file at that path
File == Version \cup {Absent}

Phase == {"Prepared", "Staged", "BackingUp", "BackedUp", "Activated", "Committed"}

\* The journal keeps its phase and the version state it would restore.
Journal == [phase : Phase, previous_state : File]
NoJournal == [phase |-> "none", previous_state |-> Absent]

VARIABLES
  target, stage, backup, failed,  \* the binaries at the four paths
  journal,                        \* the update journal
  state,                          \* the version the state file records
  lock,                           \* the holder of the update lock
  pc,                             \* where each updater is
  caller,                         \* which code runs `recover` or `rollback`
  current,                        \* the version `execute` decided from
  candidate,                      \* the version its manifest offers
  previous,                       \* install's own copy of previous_state
  unsynced,                       \* files removed and not yet synced: what they held
  good,                           \* history: the last committed binary
  runs, stops, powerLosses        \* counters of the bounds

files == <<target, stage, backup, failed, journal, state>>
counters == <<runs, stops, powerLosses>>
locals == <<caller, current, candidate, previous>>
vars == <<target, stage, backup, failed, journal, state, lock, pc, caller, current,
          candidate, previous, unsynced, good, runs, stops, powerLosses>>

Unlocked == {"idle", "recoverExclusive", "readState", "fetch", "install"}
RecoverPcs == {"recover", "dropTarget", "restore", "dropBackup", "dropStage",
               "restoreState", "dropJournal"}
RollbackPcs == {"rollback", "clearFailed", "quarantine", "putBack", "dropFailed"}
InstallPcs == {"prepare", "stage", "recordStaged", "probe", "rejectStage", "rejectJournal",
               "backUp", "recordBackedUp", "activate", "recordActivated",
               "postHealth", "writeState", "commit", "dropOld", "finish", "sync"}
Locked == RecoverPcs \cup RollbackPcs \cup InstallPcs

\* Nothing was removed since the last fsync of the directory.
Durable == [stage |-> Absent, backup |-> Absent, failed |-> Absent, journal |-> NoJournal]

Init ==
  /\ target = IF FreshInstall THEN Absent ELSE 1
  /\ stage = Absent /\ backup = Absent /\ failed = Absent
  /\ journal = NoJournal
  /\ state \in {Absent, target}
  /\ lock = Nobody
  /\ pc = [u \in Updater |-> "idle"]
  /\ caller = [u \in Updater |-> "none"]
  /\ current = [u \in Updater |-> Absent]
  /\ candidate = [u \in Updater |-> Absent]
  /\ previous = [u \in Updater |-> Absent]
  /\ unsynced = Durable
  /\ good = target
  /\ runs = 0 /\ stops = 0 /\ powerLosses = 0

Goto(u, label) == pc' = [pc EXCEPT ![u] = label]
At(u, label) == pc[u] = label

\* The process ends: its locals are gone and the lock it held is free.
Exit(u) ==
  /\ Goto(u, "idle")
  /\ lock' = IF lock = u THEN Nobody ELSE lock
  /\ caller' = [caller EXCEPT ![u] = "none"]
  /\ current' = [current EXCEPT ![u] = Absent]
  /\ candidate' = [candidate EXCEPT ![u] = Absent]
  /\ previous' = [previous EXCEPT ![u] = Absent]

Record(phase, previousState) ==
  journal' = [phase |-> phase, previous_state |-> previousState]

-----------------------------------------------------------------------------
(* execute: recover under the lock, read the installed version without it,  *)
(* choose a release newer than that, install under the lock again.          *)

\* A user runs the command; the running binary is the installed one, or
\* another one of the first release pointed at an empty path.
Start(u) ==
  /\ At(u, "idle")
  /\ runs < MaxRuns
  /\ runs' = runs + 1
  /\ current' = [current EXCEPT ![u] = IF target = Absent THEN 1 ELSE target]
  /\ Goto(u, "recoverExclusive")
  /\ UNCHANGED <<files, lock, caller, candidate, previous, unsynced, good, stops, powerLosses>>

\* The try_lock of recover_exclusive, then of install.
Acquire(u) ==
  /\ pc[u] \in {"recoverExclusive", "install"}
  /\ lock = Nobody
  /\ lock' = u
  /\ caller' = [caller EXCEPT ![u] = pc[u]]
  /\ Goto(u, "recover")
  /\ UNCHANGED <<files, current, candidate, previous, unsynced, good, counters>>

\* "another updater holds the update lock".
AcquireRefused(u) ==
  /\ pc[u] \in {"recoverExclusive", "install"}
  /\ lock # Nobody
  /\ Exit(u)
  /\ UNCHANGED <<files, unsynced, good, counters>>

ReadState(u) ==
  /\ At(u, "readState")
  /\ current' = [current EXCEPT ![u] = IF state = Absent THEN @ ELSE state]
  /\ Goto(u, "fetch")
  /\ UNCHANGED <<files, lock, caller, candidate, previous, unsynced, good, counters>>

\* Mutant: the release after the current one, published or not.
Unpublished(u) == {current[u] + 1}

\* validate_manifest: "release downgrade/replay refused" unless newer.
Newer(u) == {version \in Version : version > current[u]}

Fetch(u) ==
  /\ At(u, "fetch")
  /\ \E version \in Newer(u) : candidate' = [candidate EXCEPT ![u] = version]
  /\ Goto(u, "install")
  /\ UNCHANGED <<files, lock, caller, current, previous, unsynced, good, counters>>

ManifestRefused(u) ==
  /\ At(u, "fetch")
  /\ Exit(u)
  /\ UNCHANGED <<files, unsynced, good, counters>>

-----------------------------------------------------------------------------
(* recover: finish or undo the update the journal describes. *)

\* Where the code that called `recover` continues; recover_exclusive drops
\* the lock as it returns.
Recovered(u) ==
  /\ Goto(u, IF caller[u] = "install" THEN "prepare" ELSE "readState")
  /\ lock' = IF caller[u] = "install" THEN lock ELSE Nobody

RecoverNothing(u) ==
  /\ At(u, "recover")
  /\ journal = NoJournal
  /\ Recovered(u)
  /\ UNCHANGED <<files, locals, unsynced, good, counters>>

\* Mutant: a half-done backup is taken for a stage to throw away.
ForgetsBackup ==
  [Prepared |-> "dropStage", Staged |-> "dropStage", BackingUp |-> "dropStage",
   BackedUp |-> "dropStage", Activated |-> "rollback", Committed |-> "dropBackup"]

\* Mutant: a committed update only has its stage removed.
KeepsCommittedBackup ==
  [Prepared |-> "dropStage", Staged |-> "dropStage",
   BackingUp |-> IF backup # Absent THEN "dropTarget" ELSE "dropStage",
   BackedUp |-> IF backup # Absent THEN "dropTarget" ELSE "dropStage",
   Activated |-> "rollback", Committed |-> "dropStage"]

\* The match on the journal's phase: what recovery does first.
FirstRepair ==
  [Prepared |-> "dropStage", Staged |-> "dropStage",
   BackingUp |-> IF backup # Absent THEN "dropTarget" ELSE "dropStage",
   BackedUp |-> IF backup # Absent THEN "dropTarget" ELSE "dropStage",
   Activated |-> "rollback", Committed |-> "dropBackup"]

RecoverDispatch(u) ==
  /\ At(u, "recover")
  /\ journal # NoJournal
  /\ Goto(u, FirstRepair[journal.phase])
  /\ UNCHANGED <<files, lock, locals, unsynced, good, counters>>

RecoverDropTarget(u) ==
  /\ At(u, "dropTarget")
  /\ target' = Absent
  /\ Goto(u, "restore")
  /\ UNCHANGED <<stage, backup, failed, journal, state, lock, locals, unsynced, good, counters>>

RecoverRestore(u) ==
  /\ At(u, "restore")
  /\ target' = backup
  /\ backup' = Absent
  /\ Goto(u, "dropStage")
  /\ UNCHANGED <<stage, failed, journal, state, lock, locals, unsynced, good, counters>>

RecoverDropBackup(u) ==
  /\ At(u, "dropBackup")
  /\ backup' = Absent
  /\ unsynced' = [unsynced EXCEPT !.backup = backup]
  /\ Goto(u, "dropStage")
  /\ UNCHANGED <<target, stage, failed, journal, state, lock, locals, good, counters>>

RecoverDropStage(u) ==
  /\ At(u, "dropStage")
  /\ stage' = Absent
  /\ unsynced' = [unsynced EXCEPT !.stage = stage]
  /\ Goto(u, "dropJournal")
  /\ UNCHANGED <<target, backup, failed, journal, state, lock, locals, good, counters>>

\* restore_state writes the previous version state back, or removes the file.
RestoreState(u) ==
  /\ At(u, "restoreState")
  /\ state' = journal.previous_state
  /\ unsynced' = Durable
  /\ Goto(u, "dropJournal")
  /\ UNCHANGED <<target, stage, backup, failed, journal, lock, locals, good, counters>>

\* fsync, remove the journal, fsync: the removal is last and alone.
RecoverDropJournal(u) ==
  /\ At(u, "dropJournal")
  /\ journal' = NoJournal
  /\ unsynced' = Durable
  /\ Recovered(u)
  /\ UNCHANGED <<target, stage, backup, failed, state, locals, good, counters>>

-----------------------------------------------------------------------------
(* rollback: quarantine the target and put the last-known-good back. *)

\* "cannot roll back update: last-known-good binary is missing".
RollbackRefused(u) ==
  /\ At(u, "rollback")
  /\ backup = Absent
  /\ Exit(u)
  /\ UNCHANGED <<files, unsynced, good, counters>>

RollbackClearFailed(u) ==
  /\ At(u, "rollback")
  /\ backup # Absent
  /\ failed' = Absent
  /\ Goto(u, "quarantine")
  /\ UNCHANGED <<target, stage, backup, journal, state, lock, locals, unsynced, good, counters>>

RollbackQuarantine(u) ==
  /\ At(u, "quarantine")
  /\ IF target = Absent THEN UNCHANGED <<target, failed>>
     ELSE failed' = target /\ target' = Absent
  /\ Goto(u, "putBack")
  /\ UNCHANGED <<stage, backup, journal, state, lock, locals, unsynced, good, counters>>

RollbackPutBack(u) ==
  /\ At(u, "putBack")
  /\ target' = backup
  /\ backup' = Absent
  /\ unsynced' = Durable
  /\ Goto(u, "dropFailed")
  /\ UNCHANGED <<stage, failed, journal, state, lock, locals, good, counters>>

\* Mutant: recovery rolls the binary back and leaves the version state.
AfterRollbackKeepsState(u) == IF caller[u] = "activated" THEN "finish" ELSE "dropJournal"

\* recover goes on to restore_state; install removes its journal and fails.
AfterRollback(u) == IF caller[u] = "activated" THEN "finish" ELSE "restoreState"

RollbackDropFailed(u) ==
  /\ At(u, "dropFailed")
  /\ failed' = Absent
  /\ unsynced' = [unsynced EXCEPT !.failed = failed]
  /\ Goto(u, AfterRollback(u))
  /\ UNCHANGED <<target, stage, backup, journal, state, lock, locals, good, counters>>

-----------------------------------------------------------------------------
(* install, after its own recover, holding the lock. *)

\* "orphan updater files remain after recovery".
OrphansRefused(u) ==
  /\ At(u, "prepare")
  /\ stage # Absent \/ backup # Absent
  /\ Exit(u)
  /\ UNCHANGED <<files, unsynced, good, counters>>

Prepare(u) ==
  /\ At(u, "prepare")
  /\ stage = Absent /\ backup = Absent
  /\ previous' = [previous EXCEPT ![u] = state]
  /\ Record("Prepared", state)
  /\ unsynced' = Durable
  /\ Goto(u, "stage")
  /\ UNCHANGED <<target, stage, backup, failed, state, lock, caller, current, candidate,
                 good, counters>>

\* A stop while the stage is being written leaves a partial file; the journal
\* has it removed whatever it holds.
Stage(u) ==
  /\ At(u, "stage")
  /\ stage' = candidate[u]
  /\ Goto(u, "recordStaged")
  /\ UNCHANGED <<target, backup, failed, journal, state, lock, locals, unsynced, good, counters>>

\* A journal write that only moves the phase on.
Journalled(u, label, phase, next) ==
  /\ At(u, label)
  /\ Record(phase, previous[u])
  /\ unsynced' = Durable
  /\ Goto(u, next)
  /\ UNCHANGED <<target, stage, backup, failed, state, lock, locals, good, counters>>

RecordStaged(u) == Journalled(u, "recordStaged", "Staged", "probe")

\* The installed binary, when there is one, and the stage both answer their
\* health probe: the installer starts moving files.
RecordBackingUp(u) == Journalled(u, "probe", "BackingUp", "backUp")

\* Either probe fails, or the target cannot be examined.
ProbeFails(u) ==
  /\ At(u, "probe")
  /\ Goto(u, "rejectStage")
  /\ UNCHANGED <<files, lock, locals, unsynced, good, counters>>

RejectStage(u) ==
  /\ At(u, "rejectStage")
  /\ stage' = Absent
  /\ unsynced' = [unsynced EXCEPT !.stage = stage]
  /\ Goto(u, "finish")
  /\ UNCHANGED <<target, backup, failed, journal, state, lock, locals, good, counters>>

\* With no installed binary the rename is skipped.
BackUp(u) ==
  /\ At(u, "backUp")
  /\ IF target = Absent THEN UNCHANGED <<target, backup, unsynced>>
     ELSE backup' = target /\ target' = Absent /\ unsynced' = Durable
  /\ Goto(u, "recordBackedUp")
  /\ UNCHANGED <<stage, failed, journal, state, lock, locals, good, counters>>

RecordBackedUp(u) == Journalled(u, "recordBackedUp", "BackedUp", "activate")

Activate(u) ==
  /\ At(u, "activate")
  /\ target' = stage
  /\ stage' = Absent
  /\ unsynced' = Durable
  /\ Goto(u, "recordActivated")
  /\ UNCHANGED <<backup, failed, journal, state, lock, locals, good, counters>>

\* Mutant: the update counts as committed before its health is known.
RecordActivatedCommits(u) == Journalled(u, "recordActivated", "Committed", "postHealth")

RecordActivated(u) == Journalled(u, "recordActivated", "Activated", "postHealth")

PostHealthPasses(u) ==
  /\ At(u, "postHealth")
  /\ Goto(u, "writeState")
  /\ UNCHANGED <<files, lock, locals, unsynced, good, counters>>

PostHealthFails(u) ==
  /\ At(u, "postHealth")
  /\ caller' = [caller EXCEPT ![u] = "activated"]
  /\ Goto(u, "rollback")
  /\ UNCHANGED <<files, lock, current, candidate, previous, unsynced, good, counters>>

WriteState(u) ==
  /\ At(u, "writeState")
  /\ state' = candidate[u]
  /\ unsynced' = Durable
  /\ Goto(u, "commit")
  /\ UNCHANGED <<target, stage, backup, failed, journal, lock, locals, good, counters>>

\* The Committed journal is the commit point: recovery no longer undoes.
Commit(u) ==
  /\ At(u, "commit")
  /\ Record("Committed", previous[u])
  /\ good' = candidate[u]
  /\ unsynced' = Durable
  /\ Goto(u, "dropOld")
  /\ UNCHANGED <<target, stage, backup, failed, state, lock, locals, counters>>

DropOld(u) ==
  /\ At(u, "dropOld")
  /\ backup' = Absent
  /\ unsynced' = [unsynced EXCEPT !.backup = backup]
  /\ Goto(u, "finish")
  /\ UNCHANGED <<target, stage, failed, journal, state, lock, locals, good, counters>>

\* The journal is removed with no fsync since the removal before it.
Finish(u) ==
  /\ At(u, "finish")
  /\ journal' = NoJournal
  /\ unsynced' = [unsynced EXCEPT !.journal = journal]
  /\ Goto(u, "sync")
  /\ UNCHANGED <<target, stage, backup, failed, state, lock, locals, good, counters>>

Sync(u) ==
  /\ At(u, "sync")
  /\ unsynced' = Durable
  /\ Exit(u)
  /\ UNCHANGED <<files, good, counters>>

-----------------------------------------------------------------------------
(* What may happen to the processes and the machine. *)

\* A kill, or an I/O error returned with `?`.
Stop(u) ==
  /\ ~At(u, "idle")
  /\ stops < MaxStops
  /\ stops' = stops + 1
  /\ Exit(u)
  /\ UNCHANGED <<files, unsynced, good, runs, powerLosses>>

\* Every process ends, and any of the removals that no fsync of the directory
\* followed may not have reached the disk.
PowerLoss ==
  /\ powerLosses < MaxPowerLosses
  /\ powerLosses' = powerLosses + 1
  /\ \E lost \in SUBSET {"stage", "backup", "failed", "journal"} :
       LET held(name, now) ==
             IF name \in lost /\ unsynced[name] # Durable[name] THEN unsynced[name] ELSE now
       IN /\ stage' = held("stage", stage)
          /\ backup' = held("backup", backup)
          /\ failed' = held("failed", failed)
          /\ journal' = held("journal", journal)
  /\ unsynced' = Durable
  /\ lock' = Nobody
  /\ pc' = [u \in Updater |-> "idle"]
  /\ caller' = [u \in Updater |-> "none"]
  /\ current' = [u \in Updater |-> Absent]
  /\ candidate' = [u \in Updater |-> Absent]
  /\ previous' = [u \in Updater |-> Absent]
  /\ UNCHANGED <<target, state, good, runs, stops>>

Execute(u) ==
  \/ Start(u) \/ Acquire(u) \/ AcquireRefused(u) \/ ReadState(u)
  \/ Fetch(u) \/ ManifestRefused(u)

Recover(u) ==
  \/ RecoverNothing(u) \/ RecoverDispatch(u) \/ RecoverDropTarget(u) \/ RecoverRestore(u)
  \/ RecoverDropBackup(u) \/ RecoverDropStage(u) \/ RestoreState(u) \/ RecoverDropJournal(u)

Rollback(u) ==
  \/ RollbackRefused(u) \/ RollbackClearFailed(u) \/ RollbackQuarantine(u)
  \/ RollbackPutBack(u) \/ RollbackDropFailed(u)

Install(u) ==
  \/ OrphansRefused(u) \/ Prepare(u) \/ Stage(u) \/ RecordStaged(u) \/ RecordBackingUp(u)
  \/ ProbeFails(u) \/ RejectStage(u) \/ BackUp(u) \/ RecordBackedUp(u) \/ Activate(u)
  \/ RecordActivated(u) \/ PostHealthPasses(u) \/ PostHealthFails(u) \/ WriteState(u)
  \/ Commit(u) \/ DropOld(u) \/ Finish(u) \/ Sync(u)

Next ==
  \/ \E u \in Updater : Execute(u) \/ Recover(u) \/ Rollback(u) \/ Install(u) \/ Stop(u)
  \/ PowerLoss

Spec == Init /\ [][Next]_vars

-----------------------------------------------------------------------------
(* Properties. *)

\* The values the variables range over.
TypeOK ==
  /\ target \in File /\ stage \in File /\ backup \in File /\ failed \in File
  /\ journal \in Journal \cup {NoJournal}
  /\ state \in File /\ good \in File
  /\ lock \in Updater \cup {Nobody}
  /\ pc \in [Updater -> Unlocked \cup Locked]
  /\ caller \in [Updater -> {"none", "recoverExclusive", "install", "activated"}]
  /\ current \in [Updater -> File]
  /\ candidate \in [Updater -> File]
  /\ previous \in [Updater -> File]
  /\ unsynced \in [stage : File, backup : File, failed : File,
                   journal : Journal \cup {NoJournal}]
  /\ runs \in 0..MaxRuns /\ stops \in 0..MaxStops /\ powerLosses \in 0..MaxPowerLosses

\* Whatever stops where, the last binary that was installed and committed is
\* on disk: at the target, or at the backup with a journal that makes
\* `recover` put it back rather than delete it.
LastGoodKept ==
  good # Absent =>
    \/ target = good
    \/ /\ backup = good
       /\ journal.phase \in {"BackingUp", "BackedUp", "Activated"}

\* While the machine keeps its power, an install that began with a binary is
\* whole whenever no updater is at work and no journal left: the target is the last committed binary, the recorded version is the target's,
\* and no stage or backup is left to make the next install refuse.
SettledIsWhole ==
  powerLosses = 0 /\ lock = Nobody /\ journal = NoJournal =>
    /\ target = good
    /\ state \in {Absent, target}
    /\ stage = Absent /\ backup = Absent

\* A failed update that rolled back leaves the recorded version as it found
\* it: whenever the journal goes, the state file names the target again.
StateFollowsTarget ==
  [][journal # NoJournal /\ journal' = NoJournal => state' \in {Absent, target'}]_vars
=============================================================================
