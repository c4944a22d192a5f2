--------------------------- MODULE TaskScheduler ---------------------------
(***************************************************************************)
(* The task scheduler (rust/task_runtime/scheduler): jobs run as child     *)
(* processes, recorded in a directory that several jeden processes share,  *)
(* and admitted through maxParallel slot files.                            *)
(*                                                                         *)
(* A host is a jeden process; it makes one tool call at a time, and each   *)
(* call opens the store again.  Nothing locks the directory: a call is a   *)
(* sequence of file operations, each one step here, and the steps of       *)
(* calls, of reapers (one thread per job, in the host that started it) and *)
(* of children interleave.  A host may crash at any step; the pid of a     *)
(* process that is gone never comes back.                                  *)
(***************************************************************************)
EXTENDS Integers, FiniteSets

CONSTANTS
  Host,         \* jeden processes
  Job,          \* job ids: each is given to one job only
  None,         \* no job, no host, no process
  MaxParallel,  \* taskScheduler.maxParallel
  MaxChildren,  \* taskScheduler.maxChildren
  MaxCrashes,   \* bound: hosts that crash
  Calls,        \* the calls hosts make, of those Op lists
  MaxCalls,     \* bound: how many they make
  Failing       \* the steps at which the file system may fail

ASSUME HostAssumption ==
  /\ Host \cap Job = {} /\ None \notin Host \cup Job
  /\ {"Empty", "Torn"} \cap (Host \cup Job) = {}
ASSUME FiniteAssumption == IsFiniteSet(Host) /\ IsFiniteSet(Job)
ASSUME LimitAssumption == MaxParallel \in Nat \ {0} /\ MaxChildren \in Nat \ {0}
ASSUME BoundAssumption == MaxCrashes \in Nat /\ MaxCalls \in Nat
ASSUME CallAssumption == Calls \subseteq {"spawn", "batch", "poll", "cancel", "stamp"}
\* "prepare" is all of a spawn from its slot to its process: staging file,
\* workspace, session directory, sandbox, start; "release" is the removal of a
\* slot, by a spawn that failed or by a reaper; "call" is any other step of a call.
ASSUME FailingAssumption ==
  Failing \subseteq {"call", "prepare", "release", "truncate", "fill", "record", "reap",
                     "wait", "readback", "end"}

Ended == {"Succeeded", "Failed", "Cancelled", "Interrupted"}
Status == {"Absent", "Running"} \cup Ended

Place == 1..MaxParallel
Empty == "Empty"
Torn == "Torn"      \* truncated, not yet written again

Op == {"spawn", "batch", "poll", "cancel", "stamp"}   \* stamp: deliver and merge
Cleaning == {"clean", "reclean"}
Pc == Cleaning \cup
      {"idle", "list", "recover", "policy", "take", "launch", "truncate", "fill", "record",
       "reap", "next", "read", "seen", "wait", "targets", "kill", "cancelled", "stamp", "restamp"}

VARIABLES
  up,           \* the hosts that run
  crashes,      \* how many do not
  calls,        \* how many calls began
  record,       \* per job: the status of its record; the pid is there iff it is Running
  parent,       \* per job: parent_job
  child,        \* per job: its process
  owner,        \* per job: the host that admitted it, None for an id not given yet
  held,         \* per job: the place of the slot it took, 0 before
  reaper,       \* per job: where its reaper is
  verdict,      \* per job: the status its reaper is about to write
  slot,         \* per place: the process its file names
  pc, op, mine, \* per host: where its call is, which it is, the job it is about
  jobs,         \* per host: the jobs its call has yet to go through
  places,       \* per host: the slot files its cleaning has yet to read
  place,        \* per host: the slot file about to be freed or linked
  keep,         \* per host: the status a stamp read
  woken         \* per host: whether its watch has an event waiting

jobVars == <<parent, child, owner, held, reaper, verdict>>
callVars == <<pc, op, mine, jobs, places, place, keep>>
hostVars == <<up, crashes, calls>>
vars == <<hostVars, record, jobVars, slot, callVars, woken>>

Init ==
  /\ up = Host
  /\ crashes = 0
  /\ calls = 0
  /\ record = [j \in Job |-> "Absent"]
  /\ parent = [j \in Job |-> None]
  /\ child = [j \in Job |-> "none"]
  /\ owner = [j \in Job |-> None]
  /\ held = [j \in Job |-> 0]
  /\ reaper = [j \in Job |-> "none"]
  /\ verdict = [j \in Job |-> "Running"]
  /\ slot = [p \in Place |-> Empty]
  /\ pc = [h \in Host |-> "idle"]
  /\ op = [h \in Host |-> "poll"]
  /\ mine = [h \in Host |-> None]
  /\ jobs = [h \in Host |-> {}]
  /\ places = [h \in Host |-> {}]
  /\ place = [h \in Host |-> 0]
  /\ keep = [h \in Host |-> "Absent"]
  /\ woken = [h \in Host |-> FALSE]

-----------------------------------------------------------------------------
(* What the steps share.                                                   *)

\* The process a slot names does not exist.  One that exited and was not
\* waited for yet still does.
Dead(x) ==
  \/ x \in Host /\ x \notin up
  \/ x \in Job /\ child[x] = "gone"

\* A poll's watch is armed before its first read of the record.
WatchingLate == {"wait"}
Watching == {"read", "seen", "wait"}

\* A record is written whole, by a rename every armed watch tells of.
Write(j, status) ==
  /\ record' = [record EXCEPT ![j] = status]
  /\ woken' = [h \in Host |-> woken[h] \/ pc[h] \in Watching]

Goto(h, label) == pc' = [pc EXCEPT ![h] = label]

\* The call ends: it answers, and what it had in memory is gone.
Return(h) ==
  /\ Goto(h, "idle")
  /\ mine' = [mine EXCEPT ![h] = None]
  /\ jobs' = [jobs EXCEPT ![h] = {}]
  /\ places' = [places EXCEPT ![h] = {}]
  /\ place' = [place EXCEPT ![h] = 0]
  /\ keep' = [keep EXCEPT ![h] = "Absent"]
  /\ op' = [op EXCEPT ![h] = "poll"]

At(h, label) == h \in up /\ pc[h] = label

-----------------------------------------------------------------------------
(* Opening the store: recover, then clean the slots.                       *)

Begin(h, o, j) ==
  /\ At(h, "idle") /\ calls < MaxCalls
  /\ o \in {"spawn", "batch"} <=> j = None
  /\ calls' = calls + 1
  /\ Goto(h, "list")
  /\ op' = [op EXCEPT ![h] = o]
  /\ mine' = [mine EXCEPT ![h] = j]
  /\ UNCHANGED <<up, crashes, record, jobVars, slot, jobs, places, place, keep, woken>>

\* recover lists the records; it then looks only at those it read as running.
List(h) ==
  /\ At(h, "list")
  /\ Goto(h, "recover")
  /\ jobs' = [jobs EXCEPT ![h] = {j \in Job : record[j] = "Running"}]
  /\ UNCHANGED <<hostVars, record, jobVars, slot, op, mine, places, place, keep,
                 woken>>

RecoverableUnchecked(j) == TRUE
Recoverable(j) == Dead(j)

\* It writes from the list, whatever the record says by now.
Recover(h, j) ==
  /\ At(h, "recover") /\ j \in jobs[h]
  /\ jobs' = [jobs EXCEPT ![h] = @ \ {j}]
  /\ IF Recoverable(j) THEN Write(j, "Interrupted") ELSE UNCHANGED <<record, woken>>
  /\ UNCHANGED <<hostVars, jobVars, slot, pc, op, mine, places, place, keep>>

Taken == {p \in Place : slot[p] # Empty}

Recovered(h) ==
  /\ At(h, "recover") /\ jobs[h] = {}
  /\ Goto(h, "clean")
  /\ places' = [places EXCEPT ![h] = Taken]
  /\ UNCHANGED <<hostVars, record, jobVars, slot, op, mine, jobs, place, keep,
                 woken>>

InClean(h) == h \in up /\ pc[h] \in Cleaning

\* clean_slots reads a slot file ...
ReadSlot(h, p) ==
  /\ InClean(h) /\ place[h] = 0 /\ p \in places[h]
  /\ slot[p] # Torn
  /\ places' = [places EXCEPT ![h] = @ \ {p}]
  /\ place' = [place EXCEPT ![h] = IF Dead(slot[p]) THEN p ELSE 0]
  /\ UNCHANGED <<hostVars, record, jobVars, slot, pc, op, mine, jobs, keep, woken>>

\* ... refuses one that names no holder ...
ReadDamaged(h, p) ==
  /\ InClean(h) /\ place[h] = 0 /\ p \in places[h]
  /\ slot[p] = Torn
  /\ Return(h)
  /\ UNCHANGED <<hostVars, record, jobVars, slot, woken>>

\* ... and removes, by its path, one whose holder was dead.
FreeSlot(h) ==
  /\ InClean(h) /\ place[h] # 0
  /\ slot' = [slot EXCEPT ![place[h]] = Empty]
  /\ place' = [place EXCEPT ![h] = 0]
  /\ UNCHANGED <<hostVars, record, jobVars, pc, op, mine, jobs, places, keep, woken>>

\* Where a call goes once the store is open, and once reserve_slot has cleaned.
AfterClean(h) ==
  IF pc[h] = "reclean" THEN "take"
  ELSE CASE op[h] \in {"spawn", "batch"} -> "policy"
         [] op[h] = "poll" -> "read"
         [] op[h] = "cancel" -> "targets"
         [] op[h] = "stamp" -> "stamp"

Cleaned(h) ==
  /\ InClean(h) /\ place[h] = 0 /\ places[h] = {}
  /\ Goto(h, AfterClean(h))
  /\ place' = [place EXCEPT ![h] = IF pc[h] = "reclean" THEN 1 ELSE 0]
  /\ UNCHANGED <<hostVars, record, jobVars, slot, op, mine, jobs, places, keep, woken>>

-----------------------------------------------------------------------------
(* spawn, and batch, which spawns a wave and then polls it.                *)

Refuse(h) ==
  /\ Return(h)
  /\ UNCHANGED <<hostVars, record, jobVars, slot, woken>>

Children(q) == {j \in Job : record[j] # "Absent" /\ parent[j] = q}

\* validate_policy, then the new job's id.  A batch gives its jobs no parent.
\* The agent's definition and the depth may refuse any spawn.
Admissible(q) == q # None => record[q] # "Absent" /\ Cardinality(Children(q)) < MaxChildren

Policy(h, j, q) ==
  /\ At(h, "policy") /\ owner[j] = None
  /\ op[h] = "batch" => q = None
  /\ Admissible(q)
  /\ Goto(h, "reclean")
  /\ mine' = [mine EXCEPT ![h] = j]
  /\ owner' = [owner EXCEPT ![j] = h]
  /\ parent' = [parent EXCEPT ![j] = q]
  /\ places' = [places EXCEPT ![h] = Taken]
  /\ UNCHANGED <<hostVars, record, child, held, reaper, verdict, slot, op, jobs, place, keep,
                 woken>>

Refused(h) == At(h, "policy") /\ Refuse(h)

\* reserve_slot links the staged file to the first place that is free.
Take(h) ==
  /\ At(h, "take")
  /\ slot[place[h]] = Empty
  /\ slot' = [slot EXCEPT ![place[h]] = h]
  /\ held' = [held EXCEPT ![mine[h]] = place[h]]
  /\ place' = [place EXCEPT ![h] = 0]
  /\ Goto(h, "launch")
  /\ UNCHANGED <<hostVars, record, parent, child, owner, reaper, verdict, op, mine, jobs,
                 places, keep, woken>>

OnePlaceMore == MaxParallel + 1
LastPlace == MaxParallel

TakeNext(h) ==
  /\ At(h, "take")
  /\ slot[place[h]] # Empty /\ place[h] < LastPlace
  /\ place' = [place EXCEPT ![h] = @ + 1]
  /\ UNCHANGED <<hostVars, record, jobVars, slot, pc, op, mine, jobs, places, keep,
                 woken>>

NoSlot(h) ==
  /\ At(h, "take")
  /\ slot[place[h]] # Empty /\ place[h] = LastPlace
  /\ Refuse(h)

\* A step before the child started failed: the slot is given back, or, when it
\* cannot be removed either, goes on naming the host.
Released(h) ==
  /\ At(h, "launch") /\ "prepare" \in Failing
  /\ \/ slot' = [slot EXCEPT ![held[mine[h]]] = Empty]
     \/ "release" \in Failing /\ UNCHANGED slot
  /\ Return(h)
  /\ UNCHANGED <<hostVars, record, jobVars, woken>>

Launch(h) ==
  /\ At(h, "launch")
  /\ child' = [child EXCEPT ![mine[h]] = "alive"]
  /\ Goto(h, "truncate")
  /\ UNCHANGED <<hostVars, record, parent, owner, held, reaper, verdict, slot, op, mine, jobs,
                 places, place, keep, woken>>

\* The slot's file is written over in place: fs::write truncates it and then
\* writes the child's pid into it.
SlotOf(h) == held[mine[h]]

Truncate(h) ==
  /\ At(h, "truncate")
  /\ slot' = [slot EXCEPT ![SlotOf(h)] = Torn]
  /\ Goto(h, "fill")
  /\ UNCHANGED <<hostVars, record, jobVars, op, mine, jobs, places, place, keep, woken>>

Fill(h) ==
  /\ At(h, "fill")
  /\ slot' = [slot EXCEPT ![SlotOf(h)] = mine[h]]
  /\ Goto(h, "record")
  /\ UNCHANGED <<hostVars, record, jobVars, op, mine, jobs, places, place, keep, woken>>

Record(h) ==
  /\ At(h, "record")
  /\ Write(mine[h], "Running")
  /\ Goto(h, "reap")
  /\ UNCHANGED <<hostVars, jobVars, slot, op, mine, jobs, places, place, keep>>

Reap(h) ==
  /\ At(h, "reap")
  /\ reaper' = [reaper EXCEPT ![mine[h]] = "wait"]
  /\ jobs' = [jobs EXCEPT ![h] = @ \cup {mine[h]}]
  /\ Goto(h, "next")
  /\ UNCHANGED <<hostVars, record, parent, child, owner, held, verdict, slot, op, mine, places,
                 place, keep, woken>>

\* A step after the child started failed: the call ends there and leaves
\* what it did.
SpawnFails(h) ==
  /\ h \in up
  /\ pc[h] \in {"truncate", "fill", "record", "reap"} \cap Failing
  /\ Refuse(h)

\* After a spawn: answer its record, wait for it, or spawn the batch's next.
AnswerSpawned(h) ==
  /\ At(h, "next") /\ op[h] = "spawn"
  /\ Return(h)
  /\ UNCHANGED <<hostVars, record, jobVars, slot, woken>>

SpawnNext(h) ==
  /\ At(h, "next") /\ op[h] = "batch" /\ Cardinality(jobs[h]) < MaxParallel
  /\ Goto(h, "policy")
  /\ UNCHANGED <<hostVars, record, jobVars, slot, op, mine, jobs, places, place, keep,
                 woken>>

WaitFor(h, j) ==
  /\ At(h, "next") /\ j \in jobs[h]
  /\ mine' = [mine EXCEPT ![h] = j]
  /\ jobs' = [jobs EXCEPT ![h] = @ \ {j}]
  /\ Goto(h, "read")
  /\ UNCHANGED <<hostVars, record, jobVars, slot, op, places, place, keep, woken>>

-----------------------------------------------------------------------------
(* poll.                                                                   *)

Unwatch(h) == woken' = [woken EXCEPT ![h] = FALSE]

\* A record that ended ends the poll ...
PollEnded(h) ==
  /\ At(h, "read") /\ record[mine[h]] \in Ended
  /\ op[h] = "batch" => jobs[h] = {}
  /\ Unwatch(h)
  /\ Return(h)
  /\ UNCHANGED <<hostVars, record, jobVars, slot>>

\* ... and a batch polls the next job of its wave, or spawns its next wave.
PollNext(h, j) ==
  /\ At(h, "read") /\ record[mine[h]] \in Ended
  /\ op[h] = "batch" /\ j \in jobs[h]
  /\ Unwatch(h)
  /\ mine' = [mine EXCEPT ![h] = j]
  /\ jobs' = [jobs EXCEPT ![h] = @ \ {j}]
  /\ UNCHANGED <<hostVars, record, jobVars, slot, pc, op, places, place, keep>>

NextWave(h) ==
  /\ At(h, "read") /\ record[mine[h]] \in Ended
  /\ op[h] = "batch" /\ jobs[h] = {}
  /\ Unwatch(h)
  /\ Goto(h, "policy")
  /\ UNCHANGED <<hostVars, record, jobVars, slot, op, mine, jobs, places, place, keep>>

PollAbsent(h) ==
  /\ At(h, "read") /\ record[mine[h]] = "Absent"
  /\ Unwatch(h)
  /\ Return(h)
  /\ UNCHANGED <<hostVars, record, jobVars, slot>>

PollRunning(h) ==
  /\ At(h, "read") /\ record[mine[h]] = "Running"
  /\ Goto(h, "seen")
  /\ UNCHANGED <<hostVars, record, jobVars, slot, op, mine, jobs, places, place, keep,
                 woken>>

Sleep(h) ==
  /\ At(h, "seen")
  /\ Goto(h, "wait")
  /\ UNCHANGED <<hostVars, record, jobVars, slot, op, mine, jobs, places, place, keep,
                 woken>>

Wake(h) ==
  /\ At(h, "wait") /\ woken[h]
  /\ Unwatch(h)
  /\ Goto(h, "read")
  /\ UNCHANGED <<hostVars, record, jobVars, slot, op, mine, jobs, places, place, keep>>

-----------------------------------------------------------------------------
(* cancel, deliver and merge.                                              *)

\* The job and every job listed below it.
Family(j) ==
  LET closed == {S \in SUBSET Job : j \in S /\ \A k \in Job :
                   record[k] # "Absent" /\ parent[k] \in S => k \in S}
  IN  {k \in Job : \A S \in closed : k \in S}

Targets(h) ==
  /\ At(h, "targets")
  /\ jobs' = [jobs EXCEPT ![h] = Family(mine[h])]
  /\ Goto(h, "kill")
  /\ UNCHANGED <<hostVars, record, jobVars, slot, op, mine, places, place, keep, woken>>

\* A process waits, as a zombie, for its parent to wait for it; one whose
\* parent is gone is waited for at once.
Stopped(j) == IF owner[j] \in up THEN "zombie" ELSE "gone"
Killed(j) == IF child[j] = "alive" THEN Stopped(j) ELSE child[j]

\* A target that runs is killed with its group ...
Kill(h, j) ==
  /\ At(h, "kill") /\ j \in jobs[h] /\ record[j] = "Running"
  /\ child' = [child EXCEPT ![j] = Killed(j)]
  /\ mine' = [mine EXCEPT ![h] = j]
  /\ Goto(h, "cancelled")
  /\ UNCHANGED <<hostVars, record, parent, owner, held, reaper, verdict, slot, op, jobs, places,
                 place, keep, woken>>

KillEnded(h, j) ==
  /\ At(h, "kill") /\ j \in jobs[h] /\ record[j] \in Ended
  /\ jobs' = [jobs EXCEPT ![h] = @ \ {j}]
  /\ UNCHANGED <<hostVars, record, jobVars, slot, pc, op, mine, places, place, keep,
                 woken>>

KillAbsent(h, j) ==
  /\ At(h, "kill") /\ j \in jobs[h] /\ record[j] = "Absent"
  /\ Refuse(h)

\* ... and recorded as cancelled, over whatever its record says by now.
Cancelled(h) ==
  /\ At(h, "cancelled")
  /\ Write(mine[h], "Cancelled")
  /\ jobs' = [jobs EXCEPT ![h] = @ \ {mine[h]}]
  /\ Goto(h, "kill")
  /\ UNCHANGED <<hostVars, jobVars, slot, op, mine, places, place, keep>>

CancelDone(h) ==
  /\ At(h, "kill") /\ jobs[h] = {}
  /\ Return(h)
  /\ UNCHANGED <<hostVars, record, jobVars, slot, woken>>

\* deliver and merge read a record, refuse one that has not ended, and write
\* it back with delivered or mergedAt set.
StampableAlways(status) == status # "Absent"
Stampable(status) == status \in Ended

Stamp(h) ==
  /\ At(h, "stamp") /\ Stampable(record[mine[h]])
  /\ keep' = [keep EXCEPT ![h] = record[mine[h]]]
  /\ Goto(h, "restamp")
  /\ UNCHANGED <<hostVars, record, jobVars, slot, op, mine, jobs, places, place, woken>>

StampRefused(h) ==
  /\ At(h, "stamp") /\ ~Stampable(record[mine[h]])
  /\ Refuse(h)

\* merge applies the captured patch between its read and its write, and may
\* find that it conflicts.
MergeConflicts(h) == At(h, "restamp") /\ Refuse(h)

Restamp(h) ==
  /\ At(h, "restamp")
  /\ Write(mine[h], keep[h])
  /\ Return(h)
  /\ UNCHANGED <<hostVars, jobVars, slot>>

\* Whatever else a call reads, writes, removes or waits for may fail: the call
\* ends there and leaves what it did.
CallFails(h) ==
  /\ "call" \in Failing
  /\ h \in up
  /\ pc[h] \in Cleaning \cup {"list", "recover", "take", "read", "seen", "wait", "targets",
                            "kill", "cancelled", "stamp", "restamp"}
  /\ Return(h)
  /\ Unwatch(h)
  /\ UNCHANGED <<hostVars, record, jobVars, slot>>

-----------------------------------------------------------------------------
(* Children, their reapers, and crashes.                                   *)

ChildExits(j) ==
  /\ child[j] = "alive"
  /\ child' = [child EXCEPT ![j] = Stopped(j)]
  /\ UNCHANGED <<hostVars, record, parent, owner, held, reaper, verdict, slot, callVars, woken>>

ReaperAt(j, label) == reaper[j] = label /\ owner[j] \in up

ReaperWaits(j) ==
  /\ ReaperAt(j, "wait") /\ child[j] = "zombie"
  /\ child' = [child EXCEPT ![j] = "gone"]
  /\ reaper' = [reaper EXCEPT ![j] = "readback"]
  /\ UNCHANGED <<hostVars, record, parent, owner, held, verdict, slot, callVars, woken>>

\* The record is read back to learn whether it was cancelled; one that cannot
\* be read counts as not cancelled.  What was not cancelled succeeded or failed, by
\* its exit code, its output's contract and its captures; where the wait told no
\* exit code, it was interrupted.
Outcome == {"Succeeded", "Failed"} \cup (IF "wait" \in Failing THEN {"Interrupted"} ELSE {})
Readback(j) ==
  IF record[j] = "Cancelled"
  THEN {"Cancelled"} \cup (IF "readback" \in Failing THEN Outcome ELSE {})
  ELSE Outcome

ReaperReads(j) ==
  /\ ReaperAt(j, "readback")
  /\ \E status \in Readback(j) : verdict' = [verdict EXCEPT ![j] = status]
  /\ reaper' = [reaper EXCEPT ![j] = "end"]
  /\ UNCHANGED <<hostVars, record, parent, child, owner, held, slot, callVars, woken>>

ReaperWrites(j) ==
  /\ ReaperAt(j, "end")
  /\ Write(j, verdict[j])
  /\ reaper' = [reaper EXCEPT ![j] = "release"]
  /\ verdict' = [verdict EXCEPT ![j] = "Running"]
  /\ UNCHANGED <<hostVars, parent, child, owner, held, slot, callVars>>

\* The end of a job that cannot be written is only said; the slot's removal
\* is tried either way.
AfterUnwrittenNothing == "done"
AfterUnwritten == "release"

ReaperCannotWrite(j) ==
  /\ ReaperAt(j, "end") /\ "end" \in Failing
  /\ reaper' = [reaper EXCEPT ![j] = AfterUnwritten]
  /\ UNCHANGED <<hostVars, record, parent, child, owner, held, verdict, slot, callVars, woken>>

\* The slot file is removed by its path, whoever it names by now.
ReaperReleases(j) ==
  /\ ReaperAt(j, "release")
  /\ slot' = [slot EXCEPT ![held[j]] = Empty]
  /\ reaper' = [reaper EXCEPT ![j] = "done"]
  /\ UNCHANGED <<hostVars, record, parent, child, owner, held, verdict, callVars, woken>>

\* A slot that cannot be removed is only said, and stays.
ReaperCannotRelease(j) ==
  /\ ReaperAt(j, "release") /\ "release" \in Failing
  /\ reaper' = [reaper EXCEPT ![j] = "stuck"]
  /\ UNCHANGED <<hostVars, record, parent, child, owner, held, verdict, slot, callVars, woken>>

\* A host that crashes takes its call and its reapers with it.  Its children
\* go on; those that exited already are waited for by the system.
Crash(h) ==
  /\ h \in up /\ crashes < MaxCrashes
  /\ up' = up \ {h}
  /\ crashes' = crashes + 1
  /\ child' = [j \in Job |-> IF owner[j] = h /\ child[j] = "zombie" THEN "gone" ELSE child[j]]
  /\ Return(h)
  /\ Unwatch(h)
  /\ UNCHANGED <<calls, record, parent, owner, held, reaper, verdict, slot>>

-----------------------------------------------------------------------------
Open(h) ==
  \/ \E o \in Calls, j \in Job \cup {None} : Begin(h, o, j)
  \/ List(h) \/ Recovered(h) \/ FreeSlot(h) \/ Cleaned(h)
  \/ \E j \in Job : Recover(h, j)
  \/ \E p \in Place : ReadSlot(h, p) \/ ReadDamaged(h, p)

Spawn(h) ==
  \/ \E j \in Job, q \in Job \cup {None} : Policy(h, j, q)
  \/ Refused(h) \/ Take(h) \/ TakeNext(h) \/ NoSlot(h)
  \/ Released(h) \/ Launch(h) \/ Truncate(h) \/ Fill(h) \/ Record(h) \/ Reap(h)
  \/ SpawnFails(h) \/ AnswerSpawned(h) \/ SpawnNext(h)
  \/ \E j \in Job : WaitFor(h, j)

Poll(h) ==
  \/ PollEnded(h) \/ NextWave(h) \/ PollAbsent(h) \/ PollRunning(h) \/ Sleep(h) \/ Wake(h)
  \/ \E j \in Job : PollNext(h, j)

CancelOrStamp(h) ==
  \/ Targets(h) \/ Cancelled(h) \/ CancelDone(h)
  \/ \E j \in Job : Kill(h, j) \/ KillEnded(h, j) \/ KillAbsent(h, j)
  \/ Stamp(h) \/ StampRefused(h) \/ MergeConflicts(h) \/ Restamp(h)

Reaper(j) ==
  \/ ReaperWaits(j) \/ ReaperReads(j) \/ ReaperWrites(j) \/ ReaperCannotWrite(j)
  \/ ReaperReleases(j) \/ ReaperCannotRelease(j)

Next ==
  \/ \E h \in Host :
       Open(h) \/ Spawn(h) \/ Poll(h) \/ CancelOrStamp(h) \/ CallFails(h) \/ Crash(h)
  \/ \E j \in Job : ChildExits(j) \/ Reaper(j)

Spec == Init /\ [][Next]_vars

\* Threads that run keep running: a reaper goes on, a call that started a
\* child goes on to start its reaper, and a poll goes on when it is woken.
FairSpec ==
  /\ Spec
  /\ \A j \in Job : WF_vars(Reaper(j))
  /\ \A h \in Host : WF_vars(Truncate(h) \/ Fill(h) \/ Record(h) \/ Reap(h)) /\ WF_vars(Poll(h))

-----------------------------------------------------------------------------
(* What holds.                                                             *)

\* Every variable has its type.
TypeOK ==
  /\ up \subseteq Host /\ crashes \in 0..MaxCrashes /\ calls \in 0..MaxCalls
  /\ record \in [Job -> Status]
  /\ parent \in [Job -> Job \cup {None}]
  /\ child \in [Job -> {"none", "alive", "zombie", "gone"}]
  /\ owner \in [Job -> Host \cup {None}]
  /\ held \in [Job -> {0} \cup Place]
  /\ reaper \in [Job -> {"none", "wait", "readback", "end", "release", "done", "stuck"}]
  /\ verdict \in [Job -> {"Running"} \cup Ended]
  /\ slot \in [Place -> {Empty, Torn} \cup Host \cup Job]
  /\ pc \in [Host -> Pc] /\ op \in [Host -> Op]
  /\ mine \in [Host -> Job \cup {None}]
  /\ jobs \in [Host -> SUBSET Job]
  /\ places \in [Host -> SUBSET Place]
  /\ place \in [Host -> {0} \cup Place]
  /\ keep \in [Host -> Status]
  /\ woken \in [Host -> BOOLEAN]

\* A record that ended never says running again, whichever of recover, cancel,
\* deliver, merge and the reaper writes it last, from however old a read.
EndedForGood == [][\A j \in Job : record[j] \in Ended => record'[j] \in Ended]_vars

\* A job whose record ended has no process running any more: neither a cancel
\* nor a recovery in another host leaves one behind.
EndedIsStopped == \A j \in Job : record[j] \in Ended => child[j] \in {"zombie", "gone"}

\* A poll that read a running record and has no event waiting sleeps, or will,
\* on a record that runs: no write falls between its read and its sleep unseen.
NoLostWakeup ==
  \A h \in Host : pc[h] \in {"seen", "wait"} /\ ~woken[h] => record[mine[h]] = "Running"

\* The reaper of a job is on its way: it waits for the job or writes its end, or
\* the call that started the job is about to start it.
Reaped(j) ==
  /\ owner[j] \in up
  /\ \/ reaper[j] \in {"wait", "readback", "end"}
     \/ pc[owner[j]] = "reap" /\ mine[owner[j]] = j

\* While the host that started a job runs, a record that says running has a
\* reaper on the way to end it, whatever other calls write meanwhile.
RunningIsReaped ==
  \A j \in Job : record[j] = "Running" /\ owner[j] \in up => Reaped(j)

\* A reaper that is through has left no slot to its job, even when the job's
\* end could not be written; where the slot itself could not be removed, it
\* names a process that is gone, which the next call's clean_slots frees: the
\* job holds no place of maxParallel for ever.
SlotGivenBack ==
  \A j \in Job : reaper[j] \in {"done", "stuck"} =>
    \A p \in Place : slot[p] = j => reaper[j] = "stuck" /\ Dead(j)

\* A poll of a job whose process has exited returns, or moves on to another
\* job of its batch, unless the job lost its reaper: its host was stopped, or
\* could not start the reaper or write the end.
Polling(h, j) == pc[h] \in {"read", "seen", "wait"} /\ mine[h] = j
PollReturns ==
  \A h \in Host, j \in Job :
    Polling(h, j) /\ child[j] \in {"zombie", "gone"}
      ~> ~Polling(h, j) \/ (record[j] = "Running" /\ ~Reaped(j))

-----------------------------------------------------------------------------
(* What the documentation says and the code does not keep.                 *)

\* At most maxParallel tasks run at once (types.rs:6, admission.rs:179).
ParallelKept == Cardinality({j \in Job : child[j] = "alive"}) <= MaxParallel
=============================================================================
