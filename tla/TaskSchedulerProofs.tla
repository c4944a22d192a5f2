------------------------ MODULE TaskSchedulerProofs ------------------------
(***************************************************************************)
(* Proofs about TaskScheduler, for any hosts, jobs, limits and bounds.     *)
(***************************************************************************)
EXTENDS TaskScheduler, TLAPS

\* What a call in progress knows of the job it is about.
Admitting == {"reclean", "take", "launch"}
Starting == {"truncate", "fill", "record"}
Stops == {"zombie", "gone"}

CallOK(h) ==
  /\ pc[h] \in Admitting \cup Starting =>
       mine[h] \in Job /\ owner[mine[h]] = h /\ record[mine[h]] = "Absent"
  /\ pc[h] \in Admitting => child[mine[h]] = "none"
  /\ pc[h] \in Starting => child[mine[h]] # "none"
  /\ pc[h] = "reap" =>
       mine[h] \in Job /\ owner[mine[h]] = h /\ record[mine[h]] # "Absent"
  /\ pc[h] = "recover" => \A j \in jobs[h] : record[j] # "Absent"
  /\ pc[h] = "cancelled" =>
       mine[h] \in Job /\ record[mine[h]] # "Absent" /\ child[mine[h]] \in Stops
  /\ pc[h] \in {"list", "recover", "clean"} /\ op[h] \notin {"spawn", "batch"} => mine[h] \in Job
  /\ pc[h] = "stamp" => mine[h] \in Job
  /\ pc[h] = "restamp" => mine[h] \in Job /\ keep[h] \in Ended /\ record[mine[h]] \in Ended

\* How a job's record, process and reaper go together.
JobOK(j) ==
  /\ owner[j] = None => record[j] = "Absent" /\ child[j] = "none"
  /\ record[j] # "Absent" => child[j] # "none"
  /\ record[j] \in Ended => child[j] \in Stops
  /\ reaper[j] # "none" => record[j] # "Absent"
  /\ reaper[j] \in {"readback", "end", "release", "done", "stuck"} => child[j] = "gone"
  /\ reaper[j] = "end" => verdict[j] \in Ended

\* A slot names a job only if the job took that slot and was started, and not
\* once its reaper is through.
SlotOK(p) ==
  slot[p] \in Job => held[slot[p]] = p /\ child[slot[p]] # "none" /\ reaper[slot[p]] # "done"

CallInv == \A h \in Host : CallOK(h)
JobInv == \A j \in Job : JobOK(j)
SlotInv == \A p \in Place : SlotOK(p)
IInv == TypeOK /\ CallInv /\ JobInv /\ SlotInv

\* The model's abbreviations are expanded in every step.
USE HostAssumption
    DEF At, InClean, Goto, Return, Refuse, Unwatch, hostVars, jobVars, callVars,
        Admitting, Starting, Stops, Ended, Cleaning

LEMMA InitIInv == Init => IInv
  <1> SUFFICES ASSUME Init PROVE IInv  OBVIOUS
  <1> USE DEF Init
  <1>1. TypeOK
    <2>1. up \subseteq Host /\ crashes \in 0..MaxCrashes /\ calls \in 0..MaxCalls
      BY BoundAssumption
    <2>2. /\ slot \in [Place -> {Empty, Torn} \cup Host \cup Job]
          /\ held \in [Job -> {0} \cup Place] /\ place \in [Host -> {0} \cup Place]
      OBVIOUS
    <2> QED BY <2>1, <2>2 DEF TypeOK, Status, Pc, Op
  <1>2. CallInv  BY DEF CallInv, CallOK
  <1>3. JobInv  BY DEF JobInv, JobOK
  <1>4. SlotInv  BY DEF SlotInv, SlotOK, Empty
  <1> QED BY <1>1, <1>2, <1>3, <1>4 DEF IInv

\* A step of a call that touches no record, job or slot keeps what is known
\* of them.
LEMMA Quiet ==
  ASSUME IInv, UNCHANGED <<record, jobVars, slot>>  PROVE JobInv' /\ SlotInv'
  BY DEF IInv, JobInv, JobOK, SlotInv, SlotOK

-----------------------------------------------------------------------------
(* Opening the store.                                                      *)

LEMMA StepBegin ==
  ASSUME IInv, NEW h \in Host, NEW o \in Calls, NEW j \in Job \cup {None}, Begin(h, o, j) 
      PROVE IInv'
  <1> USE DEF Begin
  <1>1. TypeOK'  BY CallAssumption, BoundAssumption DEF IInv, TypeOK, CallInv, CallOK,
      Status, Pc, Op
  <1>2. CallInv'  BY DEF IInv, TypeOK, CallInv, CallOK, JobInv, JobOK, Status
  <1> QED BY <1>1, <1>2, Quiet DEF IInv

LEMMA StepList ==
  ASSUME IInv, NEW h \in Host, List(h)  PROVE IInv'
  <1> USE DEF List
  <1>1. TypeOK'  BY DEF IInv, TypeOK, CallInv, CallOK, Status, Pc, Op
  <1>2. CallInv'  BY DEF IInv, TypeOK, CallInv, CallOK, JobInv, JobOK, Status
  <1> QED BY <1>1, <1>2, Quiet DEF IInv

LEMMA StepRecovered ==
  ASSUME IInv, NEW h \in Host, Recovered(h)  PROVE IInv'
  <1> USE DEF Recovered
  <1>1. TypeOK'  BY DEF IInv, TypeOK, CallInv, CallOK, Status, Pc, Op, Taken
  <1>2. CallInv'  BY DEF IInv, TypeOK, CallInv, CallOK, JobInv, JobOK, Status
  <1> QED BY <1>1, <1>2, Quiet DEF IInv

LEMMA StepFreeSlot ==
  ASSUME IInv, NEW h \in Host, FreeSlot(h)  PROVE IInv'
  <1> USE DEF FreeSlot
  <1>1. TypeOK'  BY DEF IInv, TypeOK, CallInv, CallOK, Status, Pc, Op
  <1>2. CallInv'  BY DEF IInv, TypeOK, CallInv, CallOK, JobInv, JobOK, Status
  <1>3. JobInv'  BY DEF IInv, TypeOK, CallInv, CallOK, JobInv, JobOK
  <1>4. SlotInv'  BY DEF IInv, TypeOK, CallInv, CallOK, JobInv, JobOK, SlotInv, SlotOK,
      Empty, Torn
  <1> QED BY <1>1, <1>2, <1>3, <1>4 DEF IInv

LEMMA StepCleaned ==
  ASSUME IInv, NEW h \in Host, Cleaned(h)  PROVE IInv'
  <1> USE DEF Cleaned, AfterClean
  <1>1. TypeOK'  BY LimitAssumption DEF IInv, TypeOK, CallInv, CallOK, Status, Pc, Op, Place
  <1>2. CallInv'  BY DEF IInv, TypeOK, CallInv, CallOK, JobInv, JobOK, Status, Op
  <1> QED BY <1>1, <1>2, Quiet DEF IInv

LEMMA StepRecover ==
  ASSUME IInv, NEW h \in Host, NEW j \in Job, Recover(h, j)  PROVE IInv'
  <1> USE DEF Recover, Write
  <1>1. TypeOK'
    <2>1. CASE Recoverable(j)
      <3>1. record' \in [Job -> Status]  BY <2>1 DEF IInv, TypeOK, Status
      <3>2. woken' = [k \in Host |-> woken[k] \/ pc[k] \in Watching]  BY <2>1
      <3>3. \A k \in Host : (woken[k] \/ pc[k] \in Watching) \in BOOLEAN  OBVIOUS
      <3>4. woken' \in [Host -> BOOLEAN]  BY <3>2, <3>3, Zenon
      <3> QED BY <3>1, <3>4 DEF IInv, TypeOK
    <2>2. CASE ~Recoverable(j)  BY <2>2 DEF IInv, TypeOK
    <2> QED BY <2>1, <2>2
  <1>2. CallInv'  BY DEF IInv, TypeOK, CallInv, CallOK, JobInv, JobOK, Status
  <1>3. JobInv'  BY DEF IInv, TypeOK, CallInv, CallOK, JobInv, JobOK, Recoverable, Dead
  <1>4. SlotInv'  BY DEF IInv, TypeOK, CallInv, CallOK, JobInv, JobOK, SlotInv, SlotOK,
      Empty, Torn
  <1> QED BY <1>1, <1>2, <1>3, <1>4 DEF IInv

LEMMA StepReadSlot ==
  ASSUME IInv, NEW h \in Host, NEW p \in Place, ReadSlot(h, p)  PROVE IInv'
  <1> USE DEF ReadSlot
  <1>1. TypeOK'  BY DEF IInv, TypeOK, CallInv, CallOK, Status, Pc, Op
  <1>2. CallInv'  BY DEF IInv, TypeOK, CallInv, CallOK, JobInv, JobOK, Status
  <1> QED BY <1>1, <1>2, Quiet DEF IInv

LEMMA StepReadDamaged ==
  ASSUME IInv, NEW h \in Host, NEW p \in Place, ReadDamaged(h, p)  PROVE IInv'
  <1> USE DEF ReadDamaged
  <1>1. TypeOK'  BY DEF IInv, TypeOK, CallInv, CallOK, Status, Pc, Op
  <1>2. CallInv'  BY DEF IInv, TypeOK, CallInv, CallOK, JobInv, JobOK, Status
  <1> QED BY <1>1, <1>2, Quiet DEF IInv

-----------------------------------------------------------------------------
(* spawn and batch.                                                        *)

LEMMA StepPolicy ==
  ASSUME IInv, NEW h \in Host, NEW j \in Job, NEW q \in Job \cup {None}, Policy(h, j, q) 
      PROVE IInv'
  <1> USE DEF Policy
  <1>1. TypeOK'  BY DEF IInv, TypeOK, CallInv, CallOK, Status, Pc, Op, Taken
  <1>2. CallInv'  BY DEF IInv, TypeOK, CallInv, CallOK, JobInv, JobOK, Status
  <1>3. JobInv'  BY DEF IInv, TypeOK, CallInv, CallOK, JobInv, JobOK
  <1>4. SlotInv'  BY DEF IInv, TypeOK, CallInv, CallOK, JobInv, JobOK, SlotInv, SlotOK,
      Empty, Torn
  <1> QED BY <1>1, <1>2, <1>3, <1>4 DEF IInv

LEMMA StepRefused ==
  ASSUME IInv, NEW h \in Host, Refused(h)  PROVE IInv'
  <1> USE DEF Refused
  <1>1. TypeOK'  BY DEF IInv, TypeOK, CallInv, CallOK, Status, Pc, Op
  <1>2. CallInv'  BY DEF IInv, TypeOK, CallInv, CallOK, JobInv, JobOK, Status
  <1> QED BY <1>1, <1>2, Quiet DEF IInv

LEMMA StepTake ==
  ASSUME IInv, NEW h \in Host, Take(h)  PROVE IInv'
  <1> USE DEF Take
  <1>1. TypeOK'  BY DEF IInv, TypeOK, CallInv, CallOK, Status, Pc, Op
  <1>2. CallInv'  BY DEF IInv, TypeOK, CallInv, CallOK, JobInv, JobOK, Status
  <1>3. JobInv'  BY DEF IInv, TypeOK, CallInv, CallOK, JobInv, JobOK
  <1>4. SlotInv'  BY DEF IInv, TypeOK, CallInv, CallOK, JobInv, JobOK, SlotInv, SlotOK,
      Empty, Torn
  <1> QED BY <1>1, <1>2, <1>3, <1>4 DEF IInv

LEMMA StepTakeNext ==
  ASSUME IInv, NEW h \in Host, TakeNext(h)  PROVE IInv'
  <1> USE DEF TakeNext
  <1>1. TypeOK'  BY LimitAssumption DEF IInv, TypeOK, CallInv, CallOK, Status, Pc, Op,
      LastPlace, Place
  <1>2. CallInv'  BY DEF IInv, TypeOK, CallInv, CallOK, JobInv, JobOK, Status
  <1> QED BY <1>1, <1>2, Quiet DEF IInv

LEMMA StepNoSlot ==
  ASSUME IInv, NEW h \in Host, NoSlot(h)  PROVE IInv'
  <1> USE DEF NoSlot
  <1>1. TypeOK'  BY DEF IInv, TypeOK, CallInv, CallOK, Status, Pc, Op
  <1>2. CallInv'  BY DEF IInv, TypeOK, CallInv, CallOK, JobInv, JobOK, Status
  <1> QED BY <1>1, <1>2, Quiet DEF IInv

LEMMA StepReleased ==
  ASSUME IInv, NEW h \in Host, Released(h)  PROVE IInv'
  <1> USE DEF Released
  <1>1. TypeOK'  BY DEF IInv, TypeOK, CallInv, CallOK, Status, Pc, Op
  <1>2. CallInv'  BY DEF IInv, TypeOK, CallInv, CallOK, JobInv, JobOK, Status
  <1>3. JobInv'  BY DEF IInv, TypeOK, CallInv, CallOK, JobInv, JobOK
  <1>4. SlotInv'  BY DEF IInv, TypeOK, CallInv, CallOK, JobInv, JobOK, SlotInv, SlotOK,
      Empty, Torn
  <1> QED BY <1>1, <1>2, <1>3, <1>4 DEF IInv

LEMMA StepLaunch ==
  ASSUME IInv, NEW h \in Host, Launch(h)  PROVE IInv'
  <1> USE DEF Launch
  <1>1. TypeOK'  BY DEF IInv, TypeOK, CallInv, CallOK, Status, Pc, Op
  <1>2. CallInv'  BY DEF IInv, TypeOK, CallInv, CallOK, JobInv, JobOK, Status
  <1>3. JobInv'  BY DEF IInv, TypeOK, CallInv, CallOK, JobInv, JobOK
  <1>4. SlotInv'  BY DEF IInv, TypeOK, CallInv, CallOK, JobInv, JobOK, SlotInv, SlotOK,
      Empty, Torn
  <1> QED BY <1>1, <1>2, <1>3, <1>4 DEF IInv

LEMMA StepTruncate ==
  ASSUME IInv, NEW h \in Host, Truncate(h)  PROVE IInv'
  <1> USE DEF Truncate
  <1>1. TypeOK'  BY DEF IInv, TypeOK, CallInv, CallOK, Status, Pc, Op
  <1>2. CallInv'  BY DEF IInv, TypeOK, CallInv, CallOK, JobInv, JobOK, Status
  <1>3. JobInv'  BY DEF IInv, TypeOK, CallInv, CallOK, JobInv, JobOK
  <1>4. SlotInv'  BY DEF IInv, TypeOK, CallInv, CallOK, JobInv, JobOK, SlotInv, SlotOK,
      Empty, Torn
  <1> QED BY <1>1, <1>2, <1>3, <1>4 DEF IInv

LEMMA StepFill ==
  ASSUME IInv, NEW h \in Host, Fill(h)  PROVE IInv'
  <1> USE DEF Fill, SlotOf
  <1>1. TypeOK'  BY DEF IInv, TypeOK, CallInv, CallOK, Status, Pc, Op
  <1>2. CallInv'  BY DEF IInv, TypeOK, CallInv, CallOK, JobInv, JobOK, Status
  <1>3. JobInv'  BY DEF IInv, TypeOK, CallInv, CallOK, JobInv, JobOK
  <1>4. SlotInv'  BY DEF IInv, TypeOK, CallInv, CallOK, JobInv, JobOK, SlotInv, SlotOK,
      Empty, Torn
  <1> QED BY <1>1, <1>2, <1>3, <1>4 DEF IInv

LEMMA StepRecord ==
  ASSUME IInv, NEW h \in Host, Record(h)  PROVE IInv'
  <1> USE DEF Record, Write
  <1>1. TypeOK'  BY DEF IInv, TypeOK, CallInv, CallOK, Status, Pc, Op
  <1>2. CallInv'  BY DEF IInv, TypeOK, CallInv, CallOK, JobInv, JobOK, Status
  <1>3. JobInv'  BY DEF IInv, TypeOK, CallInv, CallOK, JobInv, JobOK
  <1>4. SlotInv'  BY DEF IInv, TypeOK, CallInv, CallOK, JobInv, JobOK, SlotInv, SlotOK,
      Empty, Torn
  <1> QED BY <1>1, <1>2, <1>3, <1>4 DEF IInv

LEMMA StepReap ==
  ASSUME IInv, NEW h \in Host, Reap(h)  PROVE IInv'
  <1> USE DEF Reap
  <1>1. TypeOK'  BY DEF IInv, TypeOK, CallInv, CallOK, Status, Pc, Op
  <1>2. CallInv'  BY DEF IInv, TypeOK, CallInv, CallOK, JobInv, JobOK, Status
  <1>3. JobInv'  BY DEF IInv, TypeOK, CallInv, CallOK, JobInv, JobOK
  <1>4. SlotInv'  BY DEF IInv, TypeOK, CallInv, CallOK, JobInv, JobOK, SlotInv, SlotOK,
      Empty, Torn
  <1> QED BY <1>1, <1>2, <1>3, <1>4 DEF IInv

LEMMA StepSpawnFails ==
  ASSUME IInv, NEW h \in Host, SpawnFails(h)  PROVE IInv'
  <1> USE DEF SpawnFails
  <1>1. TypeOK'  BY DEF IInv, TypeOK, CallInv, CallOK, Status, Pc, Op
  <1>2. CallInv'  BY DEF IInv, TypeOK, CallInv, CallOK, JobInv, JobOK, Status
  <1> QED BY <1>1, <1>2, Quiet DEF IInv

LEMMA StepAnswerSpawned ==
  ASSUME IInv, NEW h \in Host, AnswerSpawned(h)  PROVE IInv'
  <1> USE DEF AnswerSpawned
  <1>1. TypeOK'  BY DEF IInv, TypeOK, CallInv, CallOK, Status, Pc, Op
  <1>2. CallInv'  BY DEF IInv, TypeOK, CallInv, CallOK, JobInv, JobOK, Status
  <1> QED BY <1>1, <1>2, Quiet DEF IInv

LEMMA StepSpawnNext ==
  ASSUME IInv, NEW h \in Host, SpawnNext(h)  PROVE IInv'
  <1> USE DEF SpawnNext
  <1>1. TypeOK'  BY DEF IInv, TypeOK, CallInv, CallOK, Status, Pc, Op
  <1>2. CallInv'  BY DEF IInv, TypeOK, CallInv, CallOK, JobInv, JobOK, Status
  <1> QED BY <1>1, <1>2, Quiet DEF IInv

LEMMA StepWaitFor ==
  ASSUME IInv, NEW h \in Host, NEW j \in Job, WaitFor(h, j)  PROVE IInv'
  <1> USE DEF WaitFor
  <1>1. TypeOK'  BY DEF IInv, TypeOK, CallInv, CallOK, Status, Pc, Op
  <1>2. CallInv'  BY DEF IInv, TypeOK, CallInv, CallOK, JobInv, JobOK, Status
  <1> QED BY <1>1, <1>2, Quiet DEF IInv

-----------------------------------------------------------------------------
(* poll.                                                                   *)

LEMMA StepPollEnded ==
  ASSUME IInv, NEW h \in Host, PollEnded(h)  PROVE IInv'
  <1> USE DEF PollEnded
  <1>1. TypeOK'  BY DEF IInv, TypeOK, CallInv, CallOK, Status, Pc, Op
  <1>2. CallInv'  BY DEF IInv, TypeOK, CallInv, CallOK, JobInv, JobOK, Status
  <1> QED BY <1>1, <1>2, Quiet DEF IInv

LEMMA StepNextWave ==
  ASSUME IInv, NEW h \in Host, NextWave(h)  PROVE IInv'
  <1> USE DEF NextWave
  <1>1. TypeOK'  BY DEF IInv, TypeOK, CallInv, CallOK, Status, Pc, Op
  <1>2. CallInv'  BY DEF IInv, TypeOK, CallInv, CallOK, JobInv, JobOK, Status
  <1> QED BY <1>1, <1>2, Quiet DEF IInv

LEMMA StepPollAbsent ==
  ASSUME IInv, NEW h \in Host, PollAbsent(h)  PROVE IInv'
  <1> USE DEF PollAbsent
  <1>1. TypeOK'  BY DEF IInv, TypeOK, CallInv, CallOK, Status, Pc, Op
  <1>2. CallInv'  BY DEF IInv, TypeOK, CallInv, CallOK, JobInv, JobOK, Status
  <1> QED BY <1>1, <1>2, Quiet DEF IInv

LEMMA StepPollRunning ==
  ASSUME IInv, NEW h \in Host, PollRunning(h)  PROVE IInv'
  <1> USE DEF PollRunning
  <1>1. TypeOK'  BY DEF IInv, TypeOK, CallInv, CallOK, Status, Pc, Op
  <1>2. CallInv'  BY DEF IInv, TypeOK, CallInv, CallOK, JobInv, JobOK, Status
  <1> QED BY <1>1, <1>2, Quiet DEF IInv

LEMMA StepSleep ==
  ASSUME IInv, NEW h \in Host, Sleep(h)  PROVE IInv'
  <1> USE DEF Sleep
  <1>1. TypeOK'  BY DEF IInv, TypeOK, CallInv, CallOK, Status, Pc, Op
  <1>2. CallInv'  BY DEF IInv, TypeOK, CallInv, CallOK, JobInv, JobOK, Status
  <1> QED BY <1>1, <1>2, Quiet DEF IInv

LEMMA StepWake ==
  ASSUME IInv, NEW h \in Host, Wake(h)  PROVE IInv'
  <1> USE DEF Wake
  <1>1. TypeOK'  BY DEF IInv, TypeOK, CallInv, CallOK, Status, Pc, Op
  <1>2. CallInv'  BY DEF IInv, TypeOK, CallInv, CallOK, JobInv, JobOK, Status
  <1> QED BY <1>1, <1>2, Quiet DEF IInv

LEMMA StepPollNext ==
  ASSUME IInv, NEW h \in Host, NEW j \in Job, PollNext(h, j)  PROVE IInv'
  <1> USE DEF PollNext
  <1>1. TypeOK'  BY DEF IInv, TypeOK, CallInv, CallOK, Status, Pc, Op
  <1>2. CallInv'  BY DEF IInv, TypeOK, CallInv, CallOK, JobInv, JobOK, Status
  <1> QED BY <1>1, <1>2, Quiet DEF IInv

-----------------------------------------------------------------------------
(* cancel, deliver and merge.                                              *)

LEMMA StepTargets ==
  ASSUME IInv, NEW h \in Host, Targets(h)  PROVE IInv'
  <1> USE DEF Targets
  <1>1. TypeOK'  BY DEF IInv, TypeOK, CallInv, CallOK, Status, Pc, Op, Family
  <1>2. CallInv'  BY DEF IInv, TypeOK, CallInv, CallOK, JobInv, JobOK, Status
  <1> QED BY <1>1, <1>2, Quiet DEF IInv

LEMMA StepCancelled ==
  ASSUME IInv, NEW h \in Host, Cancelled(h)  PROVE IInv'
  <1> USE DEF Cancelled, Write
  <1>1. TypeOK'  BY DEF IInv, TypeOK, CallInv, CallOK, Status, Pc, Op
  <1>2. CallInv'  BY DEF IInv, TypeOK, CallInv, CallOK, JobInv, JobOK, Status
  <1>3. JobInv'  BY DEF IInv, TypeOK, CallInv, CallOK, JobInv, JobOK
  <1>4. SlotInv'  BY DEF IInv, TypeOK, CallInv, CallOK, JobInv, JobOK, SlotInv, SlotOK,
      Empty, Torn
  <1> QED BY <1>1, <1>2, <1>3, <1>4 DEF IInv

LEMMA StepCancelDone ==
  ASSUME IInv, NEW h \in Host, CancelDone(h)  PROVE IInv'
  <1> USE DEF CancelDone
  <1>1. TypeOK'  BY DEF IInv, TypeOK, CallInv, CallOK, Status, Pc, Op
  <1>2. CallInv'  BY DEF IInv, TypeOK, CallInv, CallOK, JobInv, JobOK, Status
  <1> QED BY <1>1, <1>2, Quiet DEF IInv

LEMMA StepKill ==
  ASSUME IInv, NEW h \in Host, NEW j \in Job, Kill(h, j)  PROVE IInv'
  <1> USE DEF Kill, Killed, Stopped
  <1>1. TypeOK'  BY DEF IInv, TypeOK, CallInv, CallOK, Status, Pc, Op
  <1>2. CallInv'  BY DEF IInv, TypeOK, CallInv, CallOK, JobInv, JobOK, Status
  <1>3. JobInv'  BY DEF IInv, TypeOK, CallInv, CallOK, JobInv, JobOK
  <1>4. SlotInv'  BY DEF IInv, TypeOK, CallInv, CallOK, JobInv, JobOK, SlotInv, SlotOK,
      Empty, Torn
  <1> QED BY <1>1, <1>2, <1>3, <1>4 DEF IInv

LEMMA StepKillEnded ==
  ASSUME IInv, NEW h \in Host, NEW j \in Job, KillEnded(h, j)  PROVE IInv'
  <1> USE DEF KillEnded
  <1>1. TypeOK'  BY DEF IInv, TypeOK, CallInv, CallOK, Status, Pc, Op
  <1>2. CallInv'  BY DEF IInv, TypeOK, CallInv, CallOK, JobInv, JobOK, Status
  <1> QED BY <1>1, <1>2, Quiet DEF IInv

LEMMA StepKillAbsent ==
  ASSUME IInv, NEW h \in Host, NEW j \in Job, KillAbsent(h, j)  PROVE IInv'
  <1> USE DEF KillAbsent
  <1>1. TypeOK'  BY DEF IInv, TypeOK, CallInv, CallOK, Status, Pc, Op
  <1>2. CallInv'  BY DEF IInv, TypeOK, CallInv, CallOK, JobInv, JobOK, Status
  <1> QED BY <1>1, <1>2, Quiet DEF IInv

LEMMA StepStamp ==
  ASSUME IInv, NEW h \in Host, Stamp(h)  PROVE IInv'
  <1> USE DEF Stamp, Stampable
  <1>1. TypeOK'  BY DEF IInv, TypeOK, CallInv, CallOK, Status, Pc, Op
  <1>2. CallInv'  BY DEF IInv, TypeOK, CallInv, CallOK, JobInv, JobOK, Status
  <1> QED BY <1>1, <1>2, Quiet DEF IInv

LEMMA StepStampRefused ==
  ASSUME IInv, NEW h \in Host, StampRefused(h)  PROVE IInv'
  <1> USE DEF StampRefused
  <1>1. TypeOK'  BY DEF IInv, TypeOK, CallInv, CallOK, Status, Pc, Op
  <1>2. CallInv'  BY DEF IInv, TypeOK, CallInv, CallOK, JobInv, JobOK, Status
  <1> QED BY <1>1, <1>2, Quiet DEF IInv

LEMMA StepMergeConflicts ==
  ASSUME IInv, NEW h \in Host, MergeConflicts(h)  PROVE IInv'
  <1> USE DEF MergeConflicts
  <1>1. TypeOK'  BY DEF IInv, TypeOK, CallInv, CallOK, Status, Pc, Op
  <1>2. CallInv'  BY DEF IInv, TypeOK, CallInv, CallOK, JobInv, JobOK, Status
  <1> QED BY <1>1, <1>2, Quiet DEF IInv

LEMMA StepRestamp ==
  ASSUME IInv, NEW h \in Host, Restamp(h)  PROVE IInv'
  <1> USE DEF Restamp, Write
  <1>1. TypeOK'  BY DEF IInv, TypeOK, CallInv, CallOK, Status, Pc, Op
  <1>2. CallInv'  BY DEF IInv, TypeOK, CallInv, CallOK, JobInv, JobOK, Status
  <1>3. JobInv'  BY DEF IInv, TypeOK, CallInv, CallOK, JobInv, JobOK
  <1>4. SlotInv'  BY DEF IInv, TypeOK, CallInv, CallOK, JobInv, JobOK, SlotInv, SlotOK,
      Empty, Torn
  <1> QED BY <1>1, <1>2, <1>3, <1>4 DEF IInv

LEMMA StepCallFails ==
  ASSUME IInv, NEW h \in Host, CallFails(h)  PROVE IInv'
  <1> USE DEF CallFails
  <1>1. TypeOK'  BY DEF IInv, TypeOK, CallInv, CallOK, Status, Pc, Op
  <1>2. CallInv'  BY DEF IInv, TypeOK, CallInv, CallOK, JobInv, JobOK, Status
  <1> QED BY <1>1, <1>2, Quiet DEF IInv

-----------------------------------------------------------------------------
(* Children, reapers and crashes.                                          *)

LEMMA StepChildExits ==
  ASSUME IInv, NEW j \in Job, ChildExits(j)  PROVE IInv'
  <1> USE DEF ChildExits, Stopped
  <1>1. TypeOK'  BY DEF IInv, TypeOK, CallInv, CallOK, Status, Pc, Op
  <1>2. CallInv'  BY DEF IInv, TypeOK, CallInv, CallOK, JobInv, JobOK, Status
  <1>3. JobInv'  BY DEF IInv, TypeOK, CallInv, CallOK, JobInv, JobOK
  <1>4. SlotInv'  BY DEF IInv, TypeOK, CallInv, CallOK, JobInv, JobOK, SlotInv, SlotOK,
      Empty, Torn
  <1> QED BY <1>1, <1>2, <1>3, <1>4 DEF IInv

LEMMA StepReaperWaits ==
  ASSUME IInv, NEW j \in Job, ReaperWaits(j)  PROVE IInv'
  <1> USE DEF ReaperWaits, ReaperAt
  <1>1. TypeOK'  BY DEF IInv, TypeOK, CallInv, CallOK, Status, Pc, Op
  <1>2. CallInv'  BY DEF IInv, TypeOK, CallInv, CallOK, JobInv, JobOK, Status
  <1>3. JobInv'  BY DEF IInv, TypeOK, CallInv, CallOK, JobInv, JobOK
  <1>4. SlotInv'  BY DEF IInv, TypeOK, CallInv, CallOK, JobInv, JobOK, SlotInv, SlotOK,
      Empty, Torn
  <1> QED BY <1>1, <1>2, <1>3, <1>4 DEF IInv

LEMMA StepReaperReads ==
  ASSUME IInv, NEW j \in Job, ReaperReads(j)  PROVE IInv'
  <1> USE DEF ReaperReads, ReaperAt, Readback, Outcome
  <1>1. TypeOK'  BY DEF IInv, TypeOK, CallInv, CallOK, Status, Pc, Op
  <1>2. CallInv'  BY DEF IInv, TypeOK, CallInv, CallOK, JobInv, JobOK, Status
  <1>3. JobInv'  BY DEF IInv, TypeOK, CallInv, CallOK, JobInv, JobOK
  <1>4. SlotInv'  BY DEF IInv, TypeOK, CallInv, CallOK, JobInv, JobOK, SlotInv, SlotOK,
      Empty, Torn
  <1> QED BY <1>1, <1>2, <1>3, <1>4 DEF IInv

LEMMA StepReaperWrites ==
  ASSUME IInv, NEW j \in Job, ReaperWrites(j)  PROVE IInv'
  <1> USE DEF ReaperWrites, Write, ReaperAt
  <1>1. TypeOK'  BY DEF IInv, TypeOK, CallInv, CallOK, Status, Pc, Op
  <1>2. CallInv'  BY DEF IInv, TypeOK, CallInv, CallOK, JobInv, JobOK, Status
  <1>3. JobInv'  BY DEF IInv, TypeOK, CallInv, CallOK, JobInv, JobOK
  <1>4. SlotInv'  BY DEF IInv, TypeOK, CallInv, CallOK, JobInv, JobOK, SlotInv, SlotOK,
      Empty, Torn
  <1> QED BY <1>1, <1>2, <1>3, <1>4 DEF IInv

LEMMA StepReaperCannotWrite ==
  ASSUME IInv, NEW j \in Job, ReaperCannotWrite(j)  PROVE IInv'
  <1> USE DEF ReaperCannotWrite, Write, ReaperAt, AfterUnwritten
  <1>1. TypeOK'  BY DEF IInv, TypeOK, CallInv, CallOK, Status, Pc, Op
  <1>2. CallInv'  BY DEF IInv, TypeOK, CallInv, CallOK, JobInv, JobOK, Status
  <1>3. JobInv'  BY DEF IInv, TypeOK, CallInv, CallOK, JobInv, JobOK
  <1>4. SlotInv'  BY DEF IInv, TypeOK, CallInv, CallOK, JobInv, JobOK, SlotInv, SlotOK,
      Empty, Torn
  <1> QED BY <1>1, <1>2, <1>3, <1>4 DEF IInv

LEMMA StepReaperReleases ==
  ASSUME IInv, NEW j \in Job, ReaperReleases(j)  PROVE IInv'
  <1> USE DEF ReaperReleases, ReaperAt
  <1>1. TypeOK'  BY DEF IInv, TypeOK, CallInv, CallOK, Status, Pc, Op
  <1>2. CallInv'  BY DEF IInv, TypeOK, CallInv, CallOK, JobInv, JobOK, Status
  <1>3. JobInv'  BY DEF IInv, TypeOK, CallInv, CallOK, JobInv, JobOK
  <1>4. SlotInv'  BY DEF IInv, TypeOK, CallInv, CallOK, JobInv, JobOK, SlotInv, SlotOK,
      Empty, Torn
  <1> QED BY <1>1, <1>2, <1>3, <1>4 DEF IInv

LEMMA StepReaperCannotRelease ==
  ASSUME IInv, NEW j \in Job, ReaperCannotRelease(j)  PROVE IInv'
  <1> USE DEF ReaperCannotRelease, ReaperAt
  <1>1. TypeOK'  BY DEF IInv, TypeOK, CallInv, CallOK, Status, Pc, Op
  <1>2. CallInv'  BY DEF IInv, TypeOK, CallInv, CallOK, JobInv, JobOK, Status
  <1>3. JobInv'  BY DEF IInv, TypeOK, CallInv, CallOK, JobInv, JobOK
  <1>4. SlotInv'  BY DEF IInv, TypeOK, CallInv, CallOK, JobInv, JobOK, SlotInv, SlotOK,
      Empty, Torn
  <1> QED BY <1>1, <1>2, <1>3, <1>4 DEF IInv

LEMMA StepCrash ==
  ASSUME IInv, NEW h \in Host, Crash(h)  PROVE IInv'
  <1> USE DEF Crash
  <1>1. TypeOK'  BY BoundAssumption DEF IInv, TypeOK, CallInv, CallOK, Status, Pc, Op
  <1>2. CallInv'  BY DEF IInv, TypeOK, CallInv, CallOK, JobInv, JobOK, Status
  <1>3. JobInv'  BY DEF IInv, TypeOK, CallInv, CallOK, JobInv, JobOK
  <1>4. SlotInv'  BY DEF IInv, TypeOK, CallInv, CallOK, JobInv, JobOK, SlotInv, SlotOK,
      Empty, Torn
  <1> QED BY <1>1, <1>2, <1>3, <1>4 DEF IInv

-----------------------------------------------------------------------------
(* The specification.                                                      *)

LEMMA NextIInv == IInv /\ [Next]_vars => IInv'
  <1> SUFFICES ASSUME IInv, [Next]_vars PROVE IInv'  OBVIOUS
  <1>1. ASSUME NEW h \in Host, Open(h) PROVE IInv'
    BY <1>1, StepBegin, StepList, StepRecovered, StepFreeSlot, StepCleaned, StepRecover,
        StepReadSlot, StepReadDamaged DEF Open
  <1>2. ASSUME NEW h \in Host, Spawn(h) PROVE IInv'
    BY <1>2, StepPolicy, StepRefused, StepTake, StepTakeNext, StepNoSlot, StepReleased,
        StepLaunch, StepTruncate, StepFill, StepRecord, StepReap, StepSpawnFails,
            StepAnswerSpawned, StepSpawnNext, StepWaitFor DEF Spawn
  <1>3. ASSUME NEW h \in Host, Poll(h) PROVE IInv'
    BY <1>3, StepPollEnded, StepNextWave, StepPollAbsent, StepPollRunning, StepSleep,
        StepWake, StepPollNext DEF Poll
  <1>4. ASSUME NEW h \in Host, CancelOrStamp(h) PROVE IInv'
    BY <1>4, StepTargets, StepCancelled, StepCancelDone, StepKill, StepKillEnded,
        StepKillAbsent, StepStamp, StepStampRefused, StepMergeConflicts, StepRestamp DEF
            CancelOrStamp
  <1>5. ASSUME NEW h \in Host, CallFails(h) \/ Crash(h) PROVE IInv'
    BY <1>5, StepCallFails, StepCrash
  <1>6. ASSUME NEW j \in Job, ChildExits(j) \/ Reaper(j) PROVE IInv'
    BY <1>6, StepChildExits, StepReaperWaits, StepReaperReads, StepReaperWrites,
        StepReaperCannotWrite, StepReaperReleases, StepReaperCannotRelease DEF Reaper
  <1>7. CASE UNCHANGED vars
    BY <1>7 DEF vars, IInv, TypeOK, CallInv, CallOK, JobInv, JobOK, SlotInv, SlotOK
  <1> QED BY <1>1, <1>2, <1>3, <1>4, <1>5, <1>6, <1>7 DEF Next

LEMMA SpecIInv == Spec => []IInv
  BY InitIInv, NextIInv, PTL DEF Spec

-----------------------------------------------------------------------------
(* The properties.                                                         *)

\* Types of every variable, for any hosts, jobs, limits and failures: no place
\* beyond maxParallel is ever tried.
THEOREM TasksTypes == Spec => []TypeOK
  BY SpecIInv, PTL DEF IInv

\* No process outlives the record of its job's end.
THEOREM TasksEndedIsStopped == Spec => []EndedIsStopped
  <1>1. IInv => EndedIsStopped  BY DEF IInv, JobInv, JobOK, EndedIsStopped
  <1> QED BY <1>1, SpecIInv, PTL

\* A reaper that is through has given its job's slot back, whatever failed before
\* the removal of the slot; where the removal itself failed, the slot names a
\* process that is gone, for the next clean_slots to free.
THEOREM TasksSlotGivenBack == Spec => []SlotGivenBack
  <1>1. IInv => SlotGivenBack
    BY DEF IInv, TypeOK, JobInv, JobOK, SlotInv, SlotOK, SlotGivenBack, Dead
  <1> QED BY <1>1, SpecIInv, PTL

\* A record is written by few steps: only Record writes that a job runs, and
\* only over a record that is not there.
LEMMA RecordStep ==
  ASSUME IInv, [Next]_vars, NEW k \in Job
  PROVE  \/ record'[k] = record[k]
         \/ record'[k] \in Ended
         \/ record[k] = "Absent"
  <1>1. ASSUME NEW h \in Host, NEW j \in Job, Recover(h, j)
        PROVE  record'[k] = record[k] \/ record'[k] \in Ended
    BY <1>1 DEF Recover, Write, IInv, TypeOK
  <1>2. ASSUME NEW h \in Host, Record(h)
        PROVE  record'[k] = record[k] \/ record[k] = "Absent"
    BY <1>2 DEF Record, Write, IInv, TypeOK, CallInv, CallOK
  <1>3. ASSUME NEW h \in Host, Cancelled(h)
        PROVE  record'[k] = record[k] \/ record'[k] \in Ended
    BY <1>3 DEF Cancelled, Write, IInv, TypeOK
  <1>4. ASSUME NEW h \in Host, Restamp(h)
        PROVE  record'[k] = record[k] \/ record'[k] \in Ended
    BY <1>4 DEF Restamp, Write, IInv, TypeOK, CallInv, CallOK
  <1>5. ASSUME NEW j \in Job, ReaperWrites(j)
        PROVE  record'[k] = record[k] \/ record'[k] \in Ended
    BY <1>5 DEF ReaperWrites, ReaperAt, Write, IInv, TypeOK, JobInv, JobOK
  <1>6. ASSUME NEW h \in Host, Open(h) PROVE record' = record \/ \E j \in Job : Recover(h, j)
    BY <1>6 DEF Open, Begin, List, Recovered, FreeSlot, Cleaned, ReadSlot, ReadDamaged
  <1>7. ASSUME NEW h \in Host, Spawn(h) PROVE record' = record \/ Record(h)
    BY <1>7 DEF Spawn, Policy, Refused, Take, TakeNext, NoSlot, Released, Launch, Truncate,
        Fill,
                Reap, SpawnFails, AnswerSpawned, SpawnNext, WaitFor
  <1>8. ASSUME NEW h \in Host, Poll(h) PROVE record' = record
    BY <1>8 DEF Poll, PollEnded, NextWave, PollAbsent, PollRunning, Sleep, Wake, PollNext
  <1>9. ASSUME NEW h \in Host, CancelOrStamp(h)
        PROVE  record' = record \/ Cancelled(h) \/ Restamp(h)
    BY <1>9 DEF CancelOrStamp, Targets, CancelDone, Kill, KillEnded, KillAbsent, Stamp,
                StampRefused, MergeConflicts
  <1>10. ASSUME NEW j \in Job, ChildExits(j) \/ Reaper(j)
         PROVE  record' = record \/ ReaperWrites(j)
    BY <1>10 DEF ChildExits, Reaper, ReaperWaits, ReaperReads, ReaperCannotWrite, ReaperReleases,
             ReaperCannotRelease
  <1>11. ASSUME NEW h \in Host, CallFails(h) \/ Crash(h) PROVE record' = record
    BY <1>11 DEF CallFails, Crash
  <1>12. CASE UNCHANGED vars  BY <1>12 DEF vars
  <1> QED BY <1>1, <1>2, <1>3, <1>4, <1>5, <1>6, <1>7, <1>8, <1>9, <1>10, <1>11, <1>12 DEF Next

\* An end, once recorded, is never taken back, whichever of recover, cancel,
\* deliver, merge and the reaper writes last.
THEOREM TasksEndedForGood == Spec => EndedForGood
  <1>1. IInv /\ [Next]_vars => [\A j \in Job : record[j] \in Ended => record'[j] \in Ended]_vars
    BY RecordStep
  <1> QED BY <1>1, SpecIInv, PTL DEF Spec, EndedForGood

\* A poll that saw a running record stays on one, or is woken.
LEMMA NoLostWakeupStep ==
  ASSUME IInv, NoLostWakeup, [Next]_vars  PROVE NoLostWakeup'
  <1> USE DEF IInv, TypeOK, NoLostWakeup, Watching
  <1>1. ASSUME NEW h \in Host, Open(h) PROVE NoLostWakeup'
    <2>1. ASSUME NEW o \in Calls, NEW j \in Job \cup {None}, Begin(h, o, j) PROVE NoLostWakeup'
      BY <2>1 DEF Begin
    <2>2. CASE List(h)  BY <2>2 DEF List
    <2>3. CASE Recovered(h)  BY <2>3 DEF Recovered
    <2>4. CASE FreeSlot(h)  BY <2>4 DEF FreeSlot
    <2>5. CASE Cleaned(h)  BY <2>5 DEF Cleaned, AfterClean, Op
    <2>6. ASSUME NEW j \in Job, Recover(h, j) PROVE NoLostWakeup'
      <3>1. CASE Recoverable(j)
        <4>1. Write(j, "Interrupted") /\ UNCHANGED pc  BY <2>6, <3>1 DEF Recover
        <4>2. \A k \in Host : pc[k] \in {"seen", "wait"} => woken'[k]  BY <4>1 DEF Write
        <4> QED BY <4>1, <4>2
      <3>2. CASE ~Recoverable(j)  BY <2>6, <3>2 DEF Recover
      <3> QED BY <3>1, <3>2
    <2>7. ASSUME NEW p \in Place, ReadSlot(h, p) PROVE NoLostWakeup'
      BY <2>7 DEF ReadSlot
    <2>8. ASSUME NEW p \in Place, ReadDamaged(h, p) PROVE NoLostWakeup'
      BY <2>8 DEF ReadDamaged
    <2> QED BY <1>1, <2>1, <2>2, <2>3, <2>4, <2>5, <2>6, <2>7, <2>8 DEF Open
  <1>2. ASSUME NEW h \in Host, Spawn(h) PROVE NoLostWakeup'
    <2>1. ASSUME NEW j \in Job, NEW q \in Job \cup {None}, Policy(h, j, q) PROVE NoLostWakeup'
      BY <2>1 DEF Policy
    <2>2. CASE Refused(h)  BY <2>2 DEF Refused
    <2>3. CASE Take(h)  BY <2>3 DEF Take
    <2>4. CASE TakeNext(h)  BY <2>4 DEF TakeNext
    <2>5. CASE NoSlot(h)  BY <2>5 DEF NoSlot
    <2>6. CASE Released(h)  BY <2>6 DEF Released
    <2>7. CASE Launch(h)  BY <2>7 DEF Launch
    <2>8. CASE Truncate(h)  BY <2>8 DEF Truncate
    <2>9. CASE Fill(h)  BY <2>9 DEF Fill
    <2>10. CASE Record(h)  BY <2>10 DEF Record, Write
    <2>11. CASE Reap(h)  BY <2>11 DEF Reap
    <2>12. CASE SpawnFails(h)  BY <2>12 DEF SpawnFails
    <2>13. CASE AnswerSpawned(h)  BY <2>13 DEF AnswerSpawned
    <2>14. CASE SpawnNext(h)  BY <2>14 DEF SpawnNext
    <2>15. ASSUME NEW j \in Job, WaitFor(h, j) PROVE NoLostWakeup'
      BY <2>15 DEF WaitFor
    <2> QED BY <1>2, <2>1, <2>2, <2>3, <2>4, <2>5, <2>6, <2>7, <2>8, <2>9, <2>10, <2>11,
        <2>12, <2>13, <2>14, <2>15 DEF Spawn
  <1>3. ASSUME NEW h \in Host, Poll(h) PROVE NoLostWakeup'
    <2>1. CASE PollEnded(h)  BY <2>1 DEF PollEnded
    <2>2. CASE NextWave(h)  BY <2>2 DEF NextWave
    <2>3. CASE PollAbsent(h)  BY <2>3 DEF PollAbsent
    <2>4. CASE PollRunning(h)  BY <2>4 DEF PollRunning
    <2>5. CASE Wake(h)  BY <2>5 DEF Wake
    <2>6. ASSUME NEW j \in Job, PollNext(h, j) PROVE NoLostWakeup'
      BY <2>6 DEF PollNext
    <2>7. CASE Sleep(h)  BY <2>7 DEF Sleep
    <2> QED BY <1>3, <2>1, <2>2, <2>3, <2>4, <2>5, <2>6, <2>7 DEF Poll
  <1>4. ASSUME NEW h \in Host, CancelOrStamp(h) PROVE NoLostWakeup'
    <2>1. CASE Targets(h)  BY <2>1 DEF Targets
    <2>2. CASE Cancelled(h)  BY <2>2 DEF Cancelled, Write
    <2>3. CASE CancelDone(h)  BY <2>3 DEF CancelDone
    <2>4. ASSUME NEW j \in Job, Kill(h, j) PROVE NoLostWakeup'
      BY <2>4 DEF Kill
    <2>5. ASSUME NEW j \in Job, KillEnded(h, j) PROVE NoLostWakeup'
      BY <2>5 DEF KillEnded
    <2>6. ASSUME NEW j \in Job, KillAbsent(h, j) PROVE NoLostWakeup'
      BY <2>6 DEF KillAbsent
    <2>7. CASE Stamp(h)  BY <2>7 DEF Stamp
    <2>8. CASE StampRefused(h)  BY <2>8 DEF StampRefused
    <2>9. CASE MergeConflicts(h)  BY <2>9 DEF MergeConflicts
    <2>10. CASE Restamp(h)  BY <2>10 DEF Restamp, Write
    <2> QED BY <1>4, <2>1, <2>2, <2>3, <2>4, <2>5, <2>6, <2>7, <2>8, <2>9, <2>10 DEF
        CancelOrStamp
  <1>5. ASSUME NEW j \in Job, ChildExits(j) \/ Reaper(j) PROVE NoLostWakeup'
    <2>1. CASE ChildExits(j)  BY <2>1 DEF ChildExits
    <2>2. CASE ReaperWaits(j)  BY <2>2 DEF ReaperWaits, ReaperAt
    <2>3. CASE ReaperReads(j)  BY <2>3 DEF ReaperReads, ReaperAt
    <2>4. CASE ReaperWrites(j)  BY <2>4 DEF ReaperWrites, ReaperAt, Write
    <2>5. CASE ReaperCannotWrite(j)  BY <2>5 DEF ReaperCannotWrite, ReaperAt, Write
    <2>6. CASE ReaperReleases(j)  BY <2>6 DEF ReaperReleases, ReaperAt
    <2>7. CASE ReaperCannotRelease(j)  BY <2>7 DEF ReaperCannotRelease, ReaperAt
    <2> QED BY <1>5, <2>1, <2>2, <2>3, <2>4, <2>5, <2>6, <2>7 DEF Reaper
  <1>6. ASSUME NEW h \in Host, CallFails(h) \/ Crash(h) PROVE NoLostWakeup'
    <2>1. CASE CallFails(h)  BY <2>1 DEF CallFails
    <2>2. CASE Crash(h)  BY <2>2 DEF Crash
    <2> QED BY <1>6, <2>1, <2>2
  <1>7. CASE UNCHANGED vars  BY <1>7 DEF vars
  <1> QED BY <1>1, <1>2, <1>3, <1>4, <1>5, <1>6, <1>7 DEF Next

\* A poll never sleeps through the end it waits for.
THEOREM TasksNoLostWakeup == Spec => []NoLostWakeup
  <1>1. Init => NoLostWakeup  BY DEF Init, NoLostWakeup
  <1> QED BY <1>1, NoLostWakeupStep, SpecIInv, PTL DEF Spec

\* The two steps whose failure leaves a job without a reaper or its end
\* unwritten.
NeverFails == {"reap", "end"} \cap Failing = {}

LEMMA RunningIsReapedStep ==
  ASSUME IInv, RunningIsReaped, [Next]_vars, NeverFails  PROVE RunningIsReaped'
  <1> USE DEF IInv, TypeOK, RunningIsReaped, Reaped, NeverFails, CallInv, CallOK, JobInv, JobOK
  <1>1. ASSUME NEW h \in Host, Open(h) PROVE RunningIsReaped'
    <2>1. ASSUME NEW o \in Calls, NEW j \in Job \cup {None}, Begin(h, o, j) PROVE
        RunningIsReaped'
      BY <2>1 DEF Begin
    <2>2. CASE List(h)  BY <2>2 DEF List
    <2>3. CASE Recovered(h)  BY <2>3 DEF Recovered
    <2>4. CASE FreeSlot(h)  BY <2>4 DEF FreeSlot
    <2>5. CASE Cleaned(h)  BY <2>5 DEF Cleaned
    <2>6. ASSUME NEW j \in Job, Recover(h, j) PROVE RunningIsReaped'
      BY <2>6 DEF Recover, Write
    <2>7. ASSUME NEW p \in Place, ReadSlot(h, p) PROVE RunningIsReaped'
      BY <2>7 DEF ReadSlot
    <2>8. ASSUME NEW p \in Place, ReadDamaged(h, p) PROVE RunningIsReaped'
      BY <2>8 DEF ReadDamaged
    <2> QED BY <1>1, <2>1, <2>2, <2>3, <2>4, <2>5, <2>6, <2>7, <2>8 DEF Open
  <1>2. ASSUME NEW h \in Host, Spawn(h) PROVE RunningIsReaped'
    <2>1. ASSUME NEW j \in Job, NEW q \in Job \cup {None}, Policy(h, j, q) PROVE
        RunningIsReaped'
      BY <2>1 DEF Policy
    <2>2. CASE Refused(h)  BY <2>2 DEF Refused
    <2>3. CASE Take(h)  BY <2>3 DEF Take
    <2>4. CASE TakeNext(h)  BY <2>4 DEF TakeNext
    <2>5. CASE NoSlot(h)  BY <2>5 DEF NoSlot
    <2>6. CASE Released(h)  BY <2>6 DEF Released
    <2>7. CASE Launch(h)  BY <2>7 DEF Launch
    <2>8. CASE Truncate(h)  BY <2>8 DEF Truncate
    <2>9. CASE Fill(h)  BY <2>9 DEF Fill
    <2>10. CASE Record(h)  BY <2>10 DEF Record, Write
    <2>11. CASE Reap(h)  BY <2>11 DEF Reap
    <2>12. CASE SpawnFails(h)  BY <2>12 DEF SpawnFails
    <2>13. CASE AnswerSpawned(h)  BY <2>13 DEF AnswerSpawned
    <2>14. CASE SpawnNext(h)  BY <2>14 DEF SpawnNext
    <2>15. ASSUME NEW j \in Job, WaitFor(h, j) PROVE RunningIsReaped'
      BY <2>15 DEF WaitFor
    <2> QED BY <1>2, <2>1, <2>2, <2>3, <2>4, <2>5, <2>6, <2>7, <2>8, <2>9, <2>10, <2>11,
        <2>12, <2>13, <2>14, <2>15 DEF Spawn
  <1>3. ASSUME NEW h \in Host, Poll(h) PROVE RunningIsReaped'
    <2>1. CASE PollEnded(h)  BY <2>1 DEF PollEnded
    <2>2. CASE NextWave(h)  BY <2>2 DEF NextWave
    <2>3. CASE PollAbsent(h)  BY <2>3 DEF PollAbsent
    <2>4. CASE PollRunning(h)  BY <2>4 DEF PollRunning
    <2>5. CASE Wake(h)  BY <2>5 DEF Wake
    <2>6. ASSUME NEW j \in Job, PollNext(h, j) PROVE RunningIsReaped'
      BY <2>6 DEF PollNext
    <2>7. CASE Sleep(h)  BY <2>7 DEF Sleep
    <2> QED BY <1>3, <2>1, <2>2, <2>3, <2>4, <2>5, <2>6, <2>7 DEF Poll
  <1>4. ASSUME NEW h \in Host, CancelOrStamp(h) PROVE RunningIsReaped'
    <2>1. CASE Targets(h)  BY <2>1 DEF Targets
    <2>2. CASE Cancelled(h)  BY <2>2 DEF Cancelled, Write
    <2>3. CASE CancelDone(h)  BY <2>3 DEF CancelDone
    <2>4. ASSUME NEW j \in Job, Kill(h, j) PROVE RunningIsReaped'
      BY <2>4 DEF Kill
    <2>5. ASSUME NEW j \in Job, KillEnded(h, j) PROVE RunningIsReaped'
      BY <2>5 DEF KillEnded
    <2>6. ASSUME NEW j \in Job, KillAbsent(h, j) PROVE RunningIsReaped'
      BY <2>6 DEF KillAbsent
    <2>7. CASE Stamp(h)  BY <2>7 DEF Stamp
    <2>8. CASE StampRefused(h)  BY <2>8 DEF StampRefused
    <2>9. CASE MergeConflicts(h)  BY <2>9 DEF MergeConflicts
    <2>10. CASE Restamp(h)  BY <2>10, SMTT(60) DEF Restamp, Write
    <2> QED BY <1>4, <2>1, <2>2, <2>3, <2>4, <2>5, <2>6, <2>7, <2>8, <2>9, <2>10 DEF
        CancelOrStamp
  <1>5. ASSUME NEW j \in Job, ChildExits(j) \/ Reaper(j) PROVE RunningIsReaped'
    <2>1. CASE ChildExits(j)  BY <2>1 DEF ChildExits
    <2>2. CASE ReaperWaits(j)  BY <2>2 DEF ReaperWaits, ReaperAt
    <2>3. CASE ReaperReads(j)  BY <2>3 DEF ReaperReads, ReaperAt
    <2>4. CASE ReaperWrites(j)  BY <2>4 DEF ReaperWrites, ReaperAt, Write
    <2>5. CASE ReaperCannotWrite(j)  BY <2>5 DEF ReaperCannotWrite, ReaperAt, Write
    <2>6. CASE ReaperReleases(j)  BY <2>6 DEF ReaperReleases, ReaperAt
    <2>7. CASE ReaperCannotRelease(j)  BY <2>7 DEF ReaperCannotRelease, ReaperAt
    <2> QED BY <1>5, <2>1, <2>2, <2>3, <2>4, <2>5, <2>6, <2>7 DEF Reaper
  <1>6. ASSUME NEW h \in Host, CallFails(h) \/ Crash(h) PROVE RunningIsReaped'
    <2>1. CASE CallFails(h)  BY <2>1 DEF CallFails
    <2>2. CASE Crash(h)  BY <2>2 DEF Crash
    <2> QED BY <1>6, <2>1, <2>2
  <1>7. CASE UNCHANGED vars  BY <1>7 DEF vars
  <1> QED BY <1>1, <1>2, <1>3, <1>4, <1>5, <1>6, <1>7 DEF Next

\* A record that says running has a reaper on its way, while its host runs and
\* its reaper can be started and can write.
THEOREM TasksRunningIsReaped == ASSUME NeverFails PROVE Spec => []RunningIsReaped
  <1>1. Init => RunningIsReaped  BY DEF Init, RunningIsReaped, Reaped
  <1>2. IInv /\ RunningIsReaped /\ [Next]_vars => RunningIsReaped'
    BY NeverFails, RunningIsReapedStep
  <1> QED BY <1>1, <1>2, SpecIInv, PTL DEF Spec
=============================================================================
