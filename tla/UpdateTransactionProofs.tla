---------------------- MODULE UpdateTransactionProofs ----------------------
(***************************************************************************)
(* Proofs about UpdateTransaction, for every set of updaters, every number *)
(* of releases and every bound: its types, that the last committed binary  *)
(* is never lost, that the recorded version follows the target, and that a *)
(* settled install is whole.                                               *)
(***************************************************************************)
EXTENDS UpdateTransaction, TLAPS

\* Phases recovery undoes by putting the backup back.
Undoable == {"BackingUp", "BackedUp", "Activated"}

\* The holder of the lock is the updater inside the locked code.
LockInv == \A u \in Updater : pc[u] \in Locked <=> lock = u

\* What the journal's phase says of the last committed binary.
DiskInv ==
  good # Absent =>
    /\ journal.phase \notin Undoable => target = good
    /\ journal.phase \in Undoable =>
         /\ backup = Absent => target = good
         /\ backup # Absent => backup = good

\* What a power loss may bring back does not contradict DiskInv.
UnsyncedInv ==
  /\ unsynced.backup # Absent => journal.phase \in {"none", "Committed"}
  /\ unsynced.journal # NoJournal =>
       /\ journal = NoJournal
       /\ unsynced.journal.phase \in Undoable => backup = Absent /\ unsynced.backup = Absent

\* What each point of the locked code knows of the files.
HolderInv(u) ==
  /\ pc[u] \in {"stage", "recordStaged"} => journal.phase = "Prepared" /\ backup = Absent
  /\ pc[u] \in {"probe", "rejectStage"} => journal.phase = "Staged" /\ backup = Absent
  /\ pc[u] = "backUp" => journal.phase = "BackingUp" /\ backup = Absent
  /\ pc[u] \in {"recordBackedUp", "activate", "recordActivated"} =>
       /\ journal.phase \in {"BackingUp", "BackedUp"}
       /\ good # Absent => backup = good
  /\ pc[u] \in {"postHealth", "writeState", "commit"} =>
       /\ journal.phase = "Activated"
       /\ good # Absent => backup = good
  /\ pc[u] \in {"recordStaged", "probe", "backUp", "recordBackedUp", "activate"} =>
       stage = candidate[u]
  /\ pc[u] \in {"recordActivated", "postHealth", "writeState", "commit"} =>
       target = candidate[u]
  /\ pc[u] \in {"dropOld", "dropBackup"} => journal.phase = "Committed"
  /\ pc[u] = "finish" =>
       /\ journal.phase \in Undoable => backup = Absent
       /\ good # Absent => target = good
  /\ pc[u] \in {"prepare", "sync"} => journal = NoJournal
  /\ pc[u] \in {"rollback", "quarantine", "putBack", "dropFailed", "restoreState"} =>
       journal.phase = "Activated"
  /\ pc[u] \in {"dropTarget", "restore"} => journal.phase \in {"BackingUp", "BackedUp"}
  /\ pc[u] \in {"dropTarget", "restore", "quarantine", "putBack"} =>
       /\ backup # Absent
       /\ good # Absent => backup = good
  /\ pc[u] \in {"dropFailed", "restoreState"} => backup = Absent
  /\ pc[u] \in {"dropStage", "dropJournal", "dropFailed", "restoreState"} =>
       (good # Absent => target = good)

IInv == TypeOK /\ LockInv /\ DiskInv /\ UnsyncedInv /\ \A u \in Updater : HolderInv(u)

-----------------------------------------------------------------------------
(* Types. *)

\* Every step keeps the types.
LEMMA TypeStep == TypeOK /\ [Next]_vars => TypeOK'
<1> SUFFICES ASSUME TypeOK, [Next]_vars PROVE TypeOK'
  OBVIOUS
<1> USE VersionAssumption, BoundAssumption
<1> USE DEF TypeOK, File, Version, Absent, Journal, Phase, NoJournal, Durable, files, counters,
            locals, At, Unlocked, Locked, RecoverPcs, RollbackPcs, InstallPcs
<1>1. ASSUME NEW u \in Updater,
             Execute(u) \/ Recover(u) \/ Rollback(u) \/ Install(u) \/ Stop(u)
      PROVE  TypeOK'
<2>1. CASE Start(u)
  BY <2>1 DEF Start, Goto
<2>2. CASE Acquire(u)
  BY <2>2 DEF Acquire, Goto
<2>3. CASE AcquireRefused(u)
  BY <2>3 DEF AcquireRefused, Exit, Goto
<2>4. CASE ReadState(u)
  BY <2>4 DEF ReadState, Goto
<2>5. CASE Fetch(u)
  BY <2>5 DEF Fetch, Newer, Version, Goto
<2>6. CASE ManifestRefused(u)
  BY <2>6 DEF ManifestRefused, Exit, Goto
<2>7. CASE RecoverNothing(u)
  BY <2>7 DEF RecoverNothing, Recovered, Goto
<2>8. CASE RecoverDispatch(u)
  BY <2>8 DEF RecoverDispatch, FirstRepair, Journal, Phase, Goto
<2>9. CASE RecoverDropTarget(u)
  BY <2>9 DEF RecoverDropTarget, Goto
<2>10. CASE RecoverRestore(u)
  BY <2>10 DEF RecoverRestore, Goto
<2>11. CASE RecoverDropBackup(u)
  BY <2>11 DEF RecoverDropBackup, Goto
<2>12. CASE RecoverDropStage(u)
  BY <2>12 DEF RecoverDropStage, Goto
<2>13. CASE RestoreState(u)
  BY <2>13 DEF RestoreState, Goto
<2>14. CASE RecoverDropJournal(u)
  BY <2>14 DEF RecoverDropJournal, Recovered, Goto
<2>15. CASE RollbackRefused(u)
  BY <2>15 DEF RollbackRefused, Exit, Goto
<2>16. CASE RollbackClearFailed(u)
  BY <2>16 DEF RollbackClearFailed, Goto
<2>17. CASE RollbackQuarantine(u)
  BY <2>17 DEF RollbackQuarantine, Goto
<2>18. CASE RollbackPutBack(u)
  BY <2>18 DEF RollbackPutBack, Goto
<2>19. CASE RollbackDropFailed(u)
  BY <2>19 DEF RollbackDropFailed, AfterRollback, Goto
<2>20. CASE OrphansRefused(u)
  BY <2>20 DEF OrphansRefused, Exit, Goto
<2>21. CASE Prepare(u)
  BY <2>21 DEF Prepare, Record, Goto
<2>22. CASE Stage(u)
  BY <2>22 DEF Stage, Goto
<2>23. CASE RecordStaged(u)
  BY <2>23 DEF RecordStaged, Journalled, Record, Goto
<2>24. CASE RecordBackingUp(u)
  BY <2>24 DEF RecordBackingUp, Journalled, Record, Goto
<2>25. CASE ProbeFails(u)
  BY <2>25 DEF ProbeFails, Goto
<2>26. CASE RejectStage(u)
  BY <2>26 DEF RejectStage, Goto
<2>27. CASE BackUp(u)
  BY <2>27 DEF BackUp, Goto
<2>28. CASE RecordBackedUp(u)
  BY <2>28 DEF RecordBackedUp, Journalled, Record, Goto
<2>29. CASE Activate(u)
  BY <2>29 DEF Activate, Goto
<2>30. CASE RecordActivated(u)
  BY <2>30 DEF RecordActivated, Journalled, Record, Goto
<2>31. CASE PostHealthPasses(u)
  BY <2>31 DEF PostHealthPasses, Goto
<2>32. CASE PostHealthFails(u)
  BY <2>32 DEF PostHealthFails, Goto
<2>33. CASE WriteState(u)
  BY <2>33 DEF WriteState, Goto
<2>34. CASE Commit(u)
  BY <2>34 DEF Commit, Record, Goto
<2>35. CASE DropOld(u)
  BY <2>35 DEF DropOld, Goto
<2>36. CASE Finish(u)
  BY <2>36 DEF Finish, Goto
<2>37. CASE Sync(u)
  BY <2>37 DEF Sync, Exit, Goto
<2>38. CASE Stop(u)
  BY <2>38 DEF Stop, Exit, Goto
<2>39. QED
  BY <1>1, <2>1, <2>2, <2>3, <2>4, <2>5, <2>6, <2>7, <2>8, <2>9, <2>10, <2>11, <2>12, <2>13,
    <2>14, <2>15, <2>16, <2>17, <2>18, <2>19, <2>20, <2>21, <2>22, <2>23, <2>24, <2>25,
    <2>26, <2>27, <2>28, <2>29, <2>30, <2>31, <2>32, <2>33, <2>34, <2>35, <2>36, <2>37,
    <2>38
     DEF Execute, Recover, Rollback, Install
<1>2. CASE PowerLoss
  BY <1>2 DEF PowerLoss
<1>3. CASE UNCHANGED vars
  BY <1>3 DEF vars
<1>4. QED
  BY <1>1, <1>2, <1>3 DEF Next

-----------------------------------------------------------------------------
(* The last committed binary. *)

\* A step of an updater keeps what is known of the last committed binary, and of
\* every updater v.
LEMMA SafeStep ==
  ASSUME IInv, NEW u \in Updater,
         Execute(u) \/ Recover(u) \/ Rollback(u) \/ Install(u) \/ Stop(u),
         NEW v \in Updater
  PROVE  DiskInv' /\ UnsyncedInv' /\ HolderInv(v)' /\ (pc'[v] \in Locked <=> lock' = v)
<1> USE NobodyAssumption
<1> USE DEF IInv, LockInv, DiskInv, UnsyncedInv, HolderInv, Undoable, TypeOK, Absent,
            NoJournal, Durable, files, counters, locals, At, Unlocked, Locked,
            RecoverPcs, RollbackPcs, InstallPcs
<1>1. CASE Start(u)
  BY <1>1 DEF Start, Goto
<1>2. CASE Acquire(u)
  BY <1>2 DEF Acquire, Goto
<1>3. CASE AcquireRefused(u)
  BY <1>3 DEF AcquireRefused, Exit, Goto
<1>4. CASE ReadState(u)
  BY <1>4 DEF ReadState, Goto
<1>5. CASE Fetch(u)
  BY <1>5 DEF Fetch, Newer, Version, Goto
<1>6. CASE ManifestRefused(u)
  BY <1>6 DEF ManifestRefused, Exit, Goto
<1>7. CASE RecoverNothing(u)
  BY <1>7 DEF RecoverNothing, Recovered, Goto
<1>8. CASE RecoverDispatch(u)
  BY <1>8 DEF RecoverDispatch, FirstRepair, Journal, Phase, Goto
<1>9. CASE RecoverDropTarget(u)
  BY <1>9 DEF RecoverDropTarget, Goto
<1>10. CASE RecoverRestore(u)
  BY <1>10 DEF RecoverRestore, Goto
<1>11. CASE RecoverDropBackup(u)
  BY <1>11 DEF RecoverDropBackup, Goto
<1>12. CASE RecoverDropStage(u)
  BY <1>12 DEF RecoverDropStage, Goto
<1>13. CASE RestoreState(u)
  BY <1>13 DEF RestoreState, Goto
<1>14. CASE RecoverDropJournal(u)
  BY <1>14 DEF RecoverDropJournal, Recovered, Goto
<1>15. CASE RollbackRefused(u)
  BY <1>15 DEF RollbackRefused, Exit, Goto
<1>16. CASE RollbackClearFailed(u)
  BY <1>16 DEF RollbackClearFailed, Goto
<1>17. CASE RollbackQuarantine(u)
  BY <1>17 DEF RollbackQuarantine, Goto
<1>18. CASE RollbackPutBack(u)
  BY <1>18 DEF RollbackPutBack, Goto
<1>19. CASE RollbackDropFailed(u)
  BY <1>19 DEF RollbackDropFailed, AfterRollback, Goto
<1>20. CASE OrphansRefused(u)
  BY <1>20 DEF OrphansRefused, Exit, Goto
<1>21. CASE Prepare(u)
  BY <1>21 DEF Prepare, Record, Goto
<1>22. CASE Stage(u)
  BY <1>22 DEF Stage, Goto
<1>23. CASE RecordStaged(u)
  BY <1>23 DEF RecordStaged, Journalled, Record, Goto
<1>24. CASE RecordBackingUp(u)
  BY <1>24 DEF RecordBackingUp, Journalled, Record, Goto
<1>25. CASE ProbeFails(u)
  BY <1>25 DEF ProbeFails, Goto
<1>26. CASE RejectStage(u)
  BY <1>26 DEF RejectStage, Goto
<1>27. CASE BackUp(u)
  BY <1>27 DEF BackUp, Goto
<1>28. CASE RecordBackedUp(u)
  BY <1>28 DEF RecordBackedUp, Journalled, Record, Goto
<1>29. CASE Activate(u)
  BY <1>29 DEF Activate, Goto
<1>30. CASE RecordActivated(u)
  BY <1>30 DEF RecordActivated, Journalled, Record, Goto
<1>31. CASE PostHealthPasses(u)
  BY <1>31 DEF PostHealthPasses, Goto
<1>32. CASE PostHealthFails(u)
  BY <1>32 DEF PostHealthFails, Goto
<1>33. CASE WriteState(u)
  BY <1>33 DEF WriteState, Goto
<1>34. CASE Commit(u)
  BY <1>34 DEF Commit, Record, Goto
<1>35. CASE DropOld(u)
  BY <1>35 DEF DropOld, Goto
<1>36. CASE Finish(u)
  BY <1>36 DEF Finish, Goto
<1>37. CASE Sync(u)
  BY <1>37 DEF Sync, Exit, Goto
<1>38. CASE Stop(u)
  BY <1>38 DEF Stop, Exit, Goto
<1>39. QED
  BY <1>1, <1>1, <1>2, <1>3, <1>4, <1>5, <1>6, <1>7, <1>8, <1>9, <1>10, <1>11, <1>12, <1>13,
    <1>14, <1>15, <1>16, <1>17, <1>18, <1>19, <1>20, <1>21, <1>22, <1>23, <1>24, <1>25,
    <1>26, <1>27, <1>28, <1>29, <1>30, <1>31, <1>32, <1>33, <1>34, <1>35, <1>36, <1>37,
    <1>38
     DEF Execute, Recover, Rollback, Install

\* So does a power loss, whichever removals it undoes.
LEMMA PowerLossSafe ==
  ASSUME IInv, PowerLoss, NEW v \in Updater
  PROVE  DiskInv' /\ UnsyncedInv' /\ HolderInv(v)' /\ (pc'[v] \in Locked <=> lock' = v)
BY NobodyAssumption
   DEF PowerLoss, IInv, DiskInv, UnsyncedInv, HolderInv, Undoable, TypeOK, Absent, NoJournal,
       Durable, Locked, RecoverPcs, RollbackPcs, InstallPcs

\* The invariant holds of an untouched install.
LEMMA InvInit == Init => IInv
BY NobodyAssumption, VersionAssumption, FreshAssumption, BoundAssumption
   DEF Init, IInv, TypeOK, LockInv, DiskInv, UnsyncedInv, HolderInv, Undoable, File, Version,
       Absent, Journal, Phase, NoJournal, Durable, Unlocked, Locked, RecoverPcs, RollbackPcs,
       InstallPcs

\* Every step keeps the invariant.
LEMMA InvStep == IInv /\ [Next]_vars => IInv'
<1> SUFFICES ASSUME IInv, [Next]_vars PROVE IInv'
  OBVIOUS
<1>1. TypeOK'
  BY TypeStep DEF IInv
<1>2. ASSUME NEW u \in Updater,
             Execute(u) \/ Recover(u) \/ Rollback(u) \/ Install(u) \/ Stop(u)
      PROVE  IInv'
  <2>1. DiskInv' /\ UnsyncedInv'
    BY <1>2, SafeStep
  <2>2. \A v \in Updater : HolderInv(v)' /\ (pc'[v] \in Locked <=> lock' = v)
    BY <1>2, SafeStep
  <2>3. QED
    BY <1>1, <2>1, <2>2 DEF IInv, LockInv
<1>3. CASE PowerLoss
  <2>1. \A v \in Updater : HolderInv(v)' /\ (pc'[v] \in Locked <=> lock' = v)
    BY <1>3, PowerLossSafe
  <2>2. DiskInv' /\ UnsyncedInv'
    BY <1>3 DEF PowerLoss, IInv, DiskInv, UnsyncedInv, Undoable, TypeOK, Absent, NoJournal, Durable
  <2>3. QED
    BY <1>1, <2>1, <2>2 DEF IInv, LockInv
<1>4. CASE UNCHANGED vars
  BY <1>1, <1>4 DEF vars, IInv, LockInv, DiskInv, UnsyncedInv, HolderInv
<1>5. QED
  BY <1>2, <1>3, <1>4 DEF Next

\* The invariant says where the last committed binary is.
LEMMA InvKeepsGood == IInv => LastGoodKept
BY DEF IInv, TypeOK, DiskInv, LastGoodKept, Undoable, Absent

\* The variables keep their types, whatever the number of updaters.
THEOREM UpdateTypes == Spec => []TypeOK
<1>1. Init => TypeOK
  BY InvInit DEF IInv
<1>2. QED
  BY <1>1, TypeStep, PTL DEF Spec

\* The last committed binary is never lost: install, rollback and recover,
\* stopped anywhere, by any number of processes and any loss of power, leave
\* it at the target, or at the backup under a journal that restores it.
THEOREM UpdateKeepsLastGood == Spec => []LastGoodKept
<1>1. Spec => []IInv
  BY InvInit, InvStep, PTL DEF Spec
<1>2. QED
  BY <1>1, InvKeepsGood, PTL

-----------------------------------------------------------------------------
(* The recorded version, through every stop and every loss of power.          *)

\* The recorded version is the last committed binary's, or there is none.
StateIsGood == state \in {Absent, good}

\* What each phase of a journal j says of the version state.
StateAt(j) ==
  /\ j.phase = "Committed" => state = good
  /\ j.phase # "Activated" => StateIsGood
  /\ j.phase \in Undoable => j.previous_state \in {Absent, good}

\* A journal whose removal may be undone was removed from a right version state.
VersionInv ==
  /\ StateAt(journal)
  /\ unsynced.journal # NoJournal => StateIsGood /\ StateAt(unsynced.journal)

\* What each point of the locked code knows of it.
KnowsVersion(u) ==
  /\ pc[u] \in InstallPcs \ {"prepare", "dropOld", "finish", "sync"} =>
       previous[u] \in {Absent, good}
  /\ caller[u] = "activated" => pc[u] \in RollbackPcs \cup {"finish", "sync"} /\ StateIsGood
  /\ pc[u] \in {"postHealth", "dropStage", "dropJournal", "finish"} => StateIsGood
  /\ pc[u] = "commit" => state = candidate[u]

VInv == IInv /\ VersionInv /\ \A u \in Updater : KnowsVersion(u)

\* A step of an updater keeps what is known of the version state.
LEMMA VersionStep ==
  ASSUME VInv, NEW u \in Updater,
         Execute(u) \/ Recover(u) \/ Rollback(u) \/ Install(u) \/ Stop(u),
         NEW v \in Updater
  PROVE  VersionInv' /\ KnowsVersion(v)'
<1> USE NobodyAssumption
<1> USE DEF VInv, VersionInv, KnowsVersion, StateAt, StateIsGood, IInv, LockInv, DiskInv,
            UnsyncedInv, HolderInv, Undoable, TypeOK, Absent, NoJournal, Durable, files, counters,
            locals, At, Unlocked, Locked, RecoverPcs, RollbackPcs, InstallPcs
<1>1. CASE Start(u)
  BY <1>1 DEF Start, Goto
<1>2. CASE Acquire(u)
  BY <1>2 DEF Acquire, Goto
<1>3. CASE AcquireRefused(u)
  BY <1>3 DEF AcquireRefused, Exit, Goto
<1>4. CASE ReadState(u)
  BY <1>4 DEF ReadState, Goto
<1>5. CASE Fetch(u)
  BY <1>5 DEF Fetch, Newer, Version, Goto
<1>6. CASE ManifestRefused(u)
  BY <1>6 DEF ManifestRefused, Exit, Goto
<1>7. CASE RecoverNothing(u)
  BY <1>7 DEF RecoverNothing, Recovered, Goto
<1>8. CASE RecoverDispatch(u)
  BY <1>8 DEF RecoverDispatch, FirstRepair, Journal, Phase, Goto
<1>9. CASE RecoverDropTarget(u)
  BY <1>9 DEF RecoverDropTarget, Goto
<1>10. CASE RecoverRestore(u)
  BY <1>10 DEF RecoverRestore, Goto
<1>11. CASE RecoverDropBackup(u)
  BY <1>11 DEF RecoverDropBackup, Goto
<1>12. CASE RecoverDropStage(u)
  BY <1>12 DEF RecoverDropStage, Goto
<1>13. CASE RestoreState(u)
  BY <1>13 DEF RestoreState, Goto
<1>14. CASE RecoverDropJournal(u)
  BY <1>14 DEF RecoverDropJournal, Recovered, Goto
<1>15. CASE RollbackRefused(u)
  BY <1>15 DEF RollbackRefused, Exit, Goto
<1>16. CASE RollbackClearFailed(u)
  BY <1>16 DEF RollbackClearFailed, Goto
<1>17. CASE RollbackQuarantine(u)
  BY <1>17 DEF RollbackQuarantine, Goto
<1>18. CASE RollbackPutBack(u)
  BY <1>18 DEF RollbackPutBack, Goto
<1>19. CASE RollbackDropFailed(u)
  BY <1>19 DEF RollbackDropFailed, AfterRollback, Goto
<1>20. CASE OrphansRefused(u)
  BY <1>20 DEF OrphansRefused, Exit, Goto
<1>21. CASE Prepare(u)
  BY <1>21 DEF Prepare, Record, Goto
<1>22. CASE Stage(u)
  BY <1>22 DEF Stage, Goto
<1>23. CASE RecordStaged(u)
  BY <1>23 DEF RecordStaged, Journalled, Record, Goto
<1>24. CASE RecordBackingUp(u)
  BY <1>24 DEF RecordBackingUp, Journalled, Record, Goto
<1>25. CASE ProbeFails(u)
  BY <1>25 DEF ProbeFails, Goto
<1>26. CASE RejectStage(u)
  BY <1>26 DEF RejectStage, Goto
<1>27. CASE BackUp(u)
  BY <1>27 DEF BackUp, Goto
<1>28. CASE RecordBackedUp(u)
  BY <1>28 DEF RecordBackedUp, Journalled, Record, Goto
<1>29. CASE Activate(u)
  BY <1>29 DEF Activate, Goto
<1>30. CASE RecordActivated(u)
  BY <1>30 DEF RecordActivated, Journalled, Record, Goto
<1>31. CASE PostHealthPasses(u)
  BY <1>31 DEF PostHealthPasses, Goto
<1>32. CASE PostHealthFails(u)
  BY <1>32 DEF PostHealthFails, Goto
<1>33. CASE WriteState(u)
  BY <1>33 DEF WriteState, Goto
<1>34. CASE Commit(u)
  BY <1>34 DEF Commit, Record, Goto
<1>35. CASE DropOld(u)
  BY <1>35 DEF DropOld, Goto
<1>36. CASE Finish(u)
  BY <1>36 DEF Finish, Goto
<1>37. CASE Sync(u)
  BY <1>37 DEF Sync, Exit, Goto
<1>38. CASE Stop(u)
  BY <1>38 DEF Stop, Exit, Goto
<1>39. QED
  BY <1>1, <1>1, <1>2, <1>3, <1>4, <1>5, <1>6, <1>7, <1>8, <1>9, <1>10, <1>11, <1>12, <1>13,
    <1>14, <1>15, <1>16, <1>17, <1>18, <1>19, <1>20, <1>21, <1>22, <1>23, <1>24, <1>25,
    <1>26, <1>27, <1>28, <1>29, <1>30, <1>31, <1>32, <1>33, <1>34, <1>35, <1>36, <1>37,
    <1>38
     DEF Execute, Recover, Rollback, Install

\* So does a power loss: the journal is the one there is, or the one removed last.
LEMMA VersionPowerLoss ==
  ASSUME VInv, PowerLoss
  PROVE  VersionInv' /\ \A v \in Updater : KnowsVersion(v)'
<1>1. /\ journal' = journal \/ (journal' = unsynced.journal /\ unsynced.journal # NoJournal)
      /\ unsynced' = Durable /\ UNCHANGED <<state, good>>
  <2>1. PICK lost \in SUBSET {"stage", "backup", "failed", "journal"} :
          journal' = IF "journal" \in lost /\ unsynced["journal"] # Durable["journal"]
                     THEN unsynced["journal"] ELSE journal
    BY DEF PowerLoss
  <2>2. Durable["journal"] = NoJournal
    BY DEF Durable
  <2> QED  BY <2>1, <2>2 DEF PowerLoss
<1>2. VersionInv'
  BY <1>1 DEF VInv, VersionInv, StateAt, StateIsGood, Durable
<1>3. \A v \in Updater : KnowsVersion(v)'
  BY DEF PowerLoss, KnowsVersion, InstallPcs
<1> QED  BY <1>2, <1>3

LEMMA VersionInit == Init => VInv
<1> SUFFICES ASSUME Init PROVE VInv
  OBVIOUS
<1>1. IInv
  BY InvInit
<1>2. VersionInv /\ \A u \in Updater : KnowsVersion(u)
  BY DEF Init, VersionInv, KnowsVersion, StateAt, StateIsGood, Undoable, NoJournal, Durable,
         Absent, InstallPcs, RollbackPcs
<1> QED  BY <1>1, <1>2 DEF VInv

LEMMA VersionNext == VInv /\ [Next]_vars => VInv'
<1> SUFFICES ASSUME VInv, [Next]_vars PROVE VInv'
  OBVIOUS
<1>1. IInv'
  BY InvStep DEF VInv
<1>2. ASSUME NEW u \in Updater,
             Execute(u) \/ Recover(u) \/ Rollback(u) \/ Install(u) \/ Stop(u)
      PROVE  VersionInv' /\ \A v \in Updater : KnowsVersion(v)'
  BY <1>2, VersionStep
<1>3. ASSUME UNCHANGED vars
      PROVE  VersionInv' /\ \A v \in Updater : KnowsVersion(v)'
  BY <1>3 DEF vars, VInv, VersionInv, KnowsVersion, StateAt, StateIsGood
<1>4. ASSUME PowerLoss
      PROVE  VersionInv' /\ \A v \in Updater : KnowsVersion(v)'
  BY <1>4, VersionPowerLoss
<1> DEFINE Goal == VersionInv' /\ \A v \in Updater : KnowsVersion(v)'
<1>5. Goal
  <2> HIDE DEF Goal
  <2>1. ASSUME NEW u \in Updater,
               Execute(u) \/ Recover(u) \/ Rollback(u) \/ Install(u) \/ Stop(u)
        PROVE  Goal
    BY <1>2, <2>1 DEF Goal
  <2>2. (PowerLoss => Goal) /\ (UNCHANGED vars => Goal)
    BY <1>3, <1>4 DEF Goal
  <2> QED  BY <2>1, <2>2 DEF Next
<1> QED  BY <1>1, <1>5 DEF VInv

\* The journal goes only from points that know the version state to be right: the
\* two removals of the code, for a power loss removes none.
LEMMA JournalGoesWhole ==
  VInv /\ [Next]_vars =>
    (journal # NoJournal /\ journal' = NoJournal => state' \in {Absent, target'})
<1> SUFFICES ASSUME VInv, [Next]_vars, journal # NoJournal, journal' = NoJournal
             PROVE  state' \in {Absent, target'}
  OBVIOUS
<1>1. PICK u \in Updater : RecoverDropJournal(u) \/ Finish(u)
  <2>1. ASSUME NEW u \in Updater, Execute(u) \/ Rollback(u) \/ Stop(u) PROVE FALSE
    BY <2>1 DEF Execute, Rollback, Stop, files, Start, Acquire, AcquireRefused, ReadState, Fetch,
           ManifestRefused, RollbackRefused, RollbackClearFailed, RollbackQuarantine,
           RollbackPutBack, RollbackDropFailed
  <2>2. ASSUME NEW u \in Updater, Recover(u), ~RecoverDropJournal(u) PROVE FALSE
    BY <2>2 DEF Recover, files, RecoverNothing, RecoverDispatch, RecoverDropTarget, RecoverRestore,
           RecoverDropBackup, RecoverDropStage, RestoreState
  <2>3. ASSUME NEW u \in Updater, Install(u), ~Finish(u) PROVE FALSE
    BY <2>3 DEF Install, Journalled, Record, NoJournal, files, OrphansRefused, Prepare, Stage,
           RecordStaged, RecordBackingUp, ProbeFails, RejectStage, BackUp, RecordBackedUp,
           Activate, RecordActivated, PostHealthPasses, PostHealthFails, WriteState, Commit,
           DropOld, Sync
  <2>4. ~PowerLoss /\ ~UNCHANGED vars
    BY DEF PowerLoss, Durable, vars
  <2> QED  BY <2>1, <2>2, <2>3, <2>4 DEF Next
<1>2. /\ pc[u] \in {"dropJournal", "finish"} /\ UNCHANGED <<target, state>>
  BY <1>1 DEF RecoverDropJournal, Finish, At
<1>3. StateIsGood /\ (good # Absent => target = good)
  BY <1>2 DEF VInv, KnowsVersion, IInv, HolderInv
<1> QED  BY <1>2, <1>3 DEF StateIsGood, Absent

\* Whenever the journal goes, the recorded version is the target's: an update
\* undone after it wrote its own version put the old one back, whatever stopped
\* where, whatever removal a power loss undid, and of a first install too.
THEOREM UpdateStateFollowsTarget == Spec => StateFollowsTarget
<1>1. VInv /\ [Next]_vars =>
        [journal # NoJournal /\ journal' = NoJournal => state' \in {Absent, target'}]_vars
  BY JournalGoesWhole
<1>2. QED
  BY VersionInit, VersionNext, <1>1, PTL DEF Spec, StateFollowsTarget

-----------------------------------------------------------------------------
(* The whole install: an update that began with a binary, while the machine   *)
(* keeps its power.                                                           *)

\* What each phase of the journal says of the leftovers.
LeftoverInv ==
  /\ good # Absent
  /\ journal.phase \in {"none", "Prepared", "Staged"} => backup = Absent
  /\ journal.phase \in {"none", "Activated", "Committed"} => stage = Absent

\* What each point of the locked code knows of them.
WholeInv(u) ==
  /\ pc[u] \in {"install"} \cup InstallPcs => candidate[u] # Absent
  /\ caller[u] = "install" => candidate[u] # Absent
  /\ caller[u] = "activated" =>
       pc[u] \in RollbackPcs \cup {"finish", "sync"} /\ candidate[u] # Absent
  /\ pc[u] \in {"dropStage", "dropJournal", "finish"} => backup = Absent
  /\ pc[u] \in {"recordActivated", "dropJournal", "finish"} => stage = Absent

WInv ==
  /\ VInv
  /\ powerLosses = 0 => LeftoverInv /\ \A u \in Updater : WholeInv(u)

\* A step of an updater keeps what is known of the leftovers.
LEMMA WholeStep ==
  ASSUME WInv, powerLosses = 0, NEW u \in Updater,
         Execute(u) \/ Recover(u) \/ Rollback(u) \/ Install(u) \/ Stop(u),
         NEW v \in Updater
  PROVE  LeftoverInv' /\ WholeInv(v)'
<1> USE NobodyAssumption
<1> USE DEF WInv, VInv, WholeInv, LeftoverInv, IInv, LockInv, DiskInv, HolderInv, Undoable,
            TypeOK, Absent, NoJournal, files, counters, locals, At, Unlocked, Locked,
            RecoverPcs, RollbackPcs, InstallPcs
<1>1. CASE Start(u)
  BY <1>1 DEF Start, Goto
<1>2. CASE Acquire(u)
  BY <1>2 DEF Acquire, Goto
<1>3. CASE AcquireRefused(u)
  BY <1>3 DEF AcquireRefused, Exit, Goto
<1>4. CASE ReadState(u)
  BY <1>4 DEF ReadState, Goto
<1>5. CASE Fetch(u)
  BY <1>5 DEF Fetch, Newer, Version, Goto
<1>6. CASE ManifestRefused(u)
  BY <1>6 DEF ManifestRefused, Exit, Goto
<1>7. CASE RecoverNothing(u)
  BY <1>7 DEF RecoverNothing, Recovered, Goto
<1>8. CASE RecoverDispatch(u)
  BY <1>8 DEF RecoverDispatch, FirstRepair, Journal, Phase, Goto
<1>9. CASE RecoverDropTarget(u)
  BY <1>9 DEF RecoverDropTarget, Goto
<1>10. CASE RecoverRestore(u)
  BY <1>10 DEF RecoverRestore, Goto
<1>11. CASE RecoverDropBackup(u)
  BY <1>11 DEF RecoverDropBackup, Goto
<1>12. CASE RecoverDropStage(u)
  BY <1>12 DEF RecoverDropStage, Goto
<1>13. CASE RestoreState(u)
  BY <1>13 DEF RestoreState, Goto
<1>14. CASE RecoverDropJournal(u)
  BY <1>14 DEF RecoverDropJournal, Recovered, Goto
<1>15. CASE RollbackRefused(u)
  BY <1>15 DEF RollbackRefused, Exit, Goto
<1>16. CASE RollbackClearFailed(u)
  BY <1>16 DEF RollbackClearFailed, Goto
<1>17. CASE RollbackQuarantine(u)
  BY <1>17 DEF RollbackQuarantine, Goto
<1>18. CASE RollbackPutBack(u)
  BY <1>18 DEF RollbackPutBack, Goto
<1>19. CASE RollbackDropFailed(u)
  BY <1>19 DEF RollbackDropFailed, AfterRollback, Goto
<1>20. CASE OrphansRefused(u)
  BY <1>20 DEF OrphansRefused, Exit, Goto
<1>21. CASE Prepare(u)
  BY <1>21 DEF Prepare, Record, Goto
<1>22. CASE Stage(u)
  BY <1>22 DEF Stage, Goto
<1>23. CASE RecordStaged(u)
  BY <1>23 DEF RecordStaged, Journalled, Record, Goto
<1>24. CASE RecordBackingUp(u)
  BY <1>24 DEF RecordBackingUp, Journalled, Record, Goto
<1>25. CASE ProbeFails(u)
  BY <1>25 DEF ProbeFails, Goto
<1>26. CASE RejectStage(u)
  BY <1>26 DEF RejectStage, Goto
<1>27. CASE BackUp(u)
  BY <1>27 DEF BackUp, Goto
<1>28. CASE RecordBackedUp(u)
  BY <1>28 DEF RecordBackedUp, Journalled, Record, Goto
<1>29. CASE Activate(u)
  BY <1>29 DEF Activate, Goto
<1>30. CASE RecordActivated(u)
  BY <1>30 DEF RecordActivated, Journalled, Record, Goto
<1>31. CASE PostHealthPasses(u)
  BY <1>31 DEF PostHealthPasses, Goto
<1>32. CASE PostHealthFails(u)
  BY <1>32 DEF PostHealthFails, Goto
<1>33. CASE WriteState(u)
  BY <1>33 DEF WriteState, Goto
<1>34. CASE Commit(u)
  BY <1>34 DEF Commit, Record, Goto
<1>35. CASE DropOld(u)
  BY <1>35 DEF DropOld, Goto
<1>36. CASE Finish(u)
  BY <1>36 DEF Finish, Goto
<1>37. CASE Sync(u)
  BY <1>37 DEF Sync, Exit, Goto
<1>38. CASE Stop(u)
  BY <1>38 DEF Stop, Exit, Goto
<1>39. QED
  BY <1>1, <1>1, <1>2, <1>3, <1>4, <1>5, <1>6, <1>7, <1>8, <1>9, <1>10, <1>11, <1>12, <1>13,
    <1>14, <1>15, <1>16, <1>17, <1>18, <1>19, <1>20, <1>21, <1>22, <1>23, <1>24, <1>25,
    <1>26, <1>27, <1>28, <1>29, <1>30, <1>31, <1>32, <1>33, <1>34, <1>35, <1>36, <1>37,
    <1>38
     DEF Execute, Recover, Rollback, Install

\* An install that began with a binary starts whole.
LEMMA WholeInit == ~FreshInstall /\ Init => WInv
<1> SUFFICES ASSUME ~FreshInstall, Init PROVE WInv
  OBVIOUS
<1>1. VInv
  BY VersionInit
<1>2. LeftoverInv /\ \A u \in Updater : WholeInv(u)
  BY DEF Init, LeftoverInv, WholeInv, Undoable, NoJournal, Absent,
         InstallPcs, RollbackPcs
<1>3. QED
  BY <1>1, <1>2 DEF WInv

\* No updater's step counts as a power loss.
LEMMA UpdaterKeepsPower ==
  ASSUME NEW u \in Updater,
         Execute(u) \/ Recover(u) \/ Rollback(u) \/ Install(u) \/ Stop(u)
  PROVE  powerLosses' = powerLosses
<1>1. CASE Execute(u)
  BY <1>1 DEF Execute, counters, Start, Acquire, AcquireRefused, ReadState, Fetch,
         ManifestRefused
<1>2. CASE Recover(u)
  BY <1>2 DEF Recover, counters, RecoverNothing, RecoverDispatch, RecoverDropTarget,
         RecoverRestore, RecoverDropBackup, RecoverDropStage, RestoreState,
         RecoverDropJournal
<1>3. CASE Rollback(u)
  BY <1>3 DEF Rollback, counters, RollbackRefused, RollbackClearFailed, RollbackQuarantine,
         RollbackPutBack, RollbackDropFailed
<1>4. CASE Install(u)
  BY <1>4 DEF Install, Journalled, counters, OrphansRefused, Prepare, Stage, RecordStaged,
         RecordBackingUp, ProbeFails, RejectStage, BackUp, RecordBackedUp, Activate,
         RecordActivated, PostHealthPasses, PostHealthFails, WriteState, Commit, DropOld,
         Finish, Sync
<1>5. CASE Stop(u)
  BY <1>5 DEF Stop, counters
<1>6. QED
  BY <1>1, <1>2, <1>3, <1>4, <1>5

\* Every step keeps it so; a power loss ends what it promises.
LEMMA WholeNext == WInv /\ [Next]_vars => WInv'
<1> SUFFICES ASSUME WInv, [Next]_vars PROVE WInv'
  OBVIOUS
<1>1. VInv'
  BY VersionNext DEF WInv
<1>2. ASSUME NEW u \in Updater,
             Execute(u) \/ Recover(u) \/ Rollback(u) \/ Install(u) \/ Stop(u)
      PROVE  WInv'
  <2>1. CASE powerLosses = 0
    <3>1. LeftoverInv'
      BY <1>2, <2>1, WholeStep
    <3>2. \A v \in Updater : WholeInv(v)'
      BY <1>2, <2>1, WholeStep
    <3>3. QED
      BY <1>1, <3>1, <3>2 DEF WInv
  <2>2. CASE powerLosses # 0
    <3>1. powerLosses' = powerLosses
      BY <1>2, UpdaterKeepsPower
    <3>2. QED
      BY <1>1, <2>2, <3>1 DEF WInv
  <2>3. QED
    BY <2>1, <2>2
<1>3. CASE PowerLoss
  <2>1. powerLosses' # 0
    BY <1>3 DEF PowerLoss, WInv, VInv, IInv, TypeOK
  <2>2. QED
    BY <1>1, <2>1 DEF WInv
<1>4. CASE UNCHANGED vars
  BY <1>1, <1>4 DEF vars, WInv, LeftoverInv, WholeInv
<1>5. QED
  BY <1>2, <1>3, <1>4 DEF Next

\* With no journal and no updater at work the invariant leaves nothing over.
LEMMA WholeWhenSettled == WInv => SettledIsWhole
BY DEF WInv, VInv, VersionInv, StateAt, StateIsGood, IInv, TypeOK, DiskInv, LeftoverInv,
       SettledIsWhole, Undoable, NoJournal, Absent, Journal, Phase

\* An update that began with a binary, stopped anywhere, leaves the install
\* whole once no updater is at work and no journal is left, power losses apart.
THEOREM UpdateSettlesWhole ==
  ASSUME ~FreshInstall
  PROVE  Spec => []SettledIsWhole
<1>1. Init => WInv
  BY WholeInit
<1>2. WInv /\ [Next]_vars => WInv'
  BY WholeNext
<1>3. QED
  BY <1>1, <1>2, WholeWhenSettled, PTL DEF Spec
=============================================================================
