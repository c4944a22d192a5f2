# jeden in TLA+

jeden is a coding-agent harness: a Rust program that runs conversations with a
model, records them, runs the tools the model asks for, and does so from a
terminal, from an editor, or as a headless daemon. Most of it is sequential. The
parts below are not: several processes, threads or machines act on the same
files or the same state, any of them may stop anywhere, and what they promise
has to hold all the same. Those parts are what this directory specifies.

The code is the reference: definitions keep its names, and `PROJECT.json` gives
the lines every definition stands for.

| module | models | proved in |
|---|---|---|
| `UpdateTransaction` | `jeden update`: replacing the binary, with its journal and its recovery | `UpdateTransactionProofs` |
| `FleetCoordinator` | the coordinator of a fleet: jobs, workers, fenced leases | `FleetCoordinatorProofs` |
| `FencedJobs` | what a coordinator promises, without workers, clocks or calls | (implemented by `FleetCoordinator`) |
| `TaskScheduler` | tasks as child processes over one directory shared by several jeden processes | `TaskSchedulerProofs` |
| `RpcService` | prompts submitted to the daemon: idempotency records, quota, executor, drain, streams | `RpcServiceProofs` |
| `KeyedPrompts` | what the daemon promises under an idempotency key, without callers, threads or records | (implemented by `RpcService`) |
| `SessionLedger` | a session's transcript, its pending file actions, and who appends to it | `SessionLedgerProofs` |
| `AgentTurn` | a conversation's window beside what its ledger replays, and the loop of a turn | `AgentTurnProofs` |
| `CompletionLedger` | what a session owes its user: requests, tasks, reviews, asks and answers | `CompletionLedgerProofs` |

`MCUpdate`, `MCFleet`, `MCTasks`, `MCRpc`, `MCSession`, `MCTurn` and `MCCompletion` are
the instances for TLC; each `.cfg` is one run.

## The system

**Update** (`rust/update`). State: four files beside the installed binary
(target, stage, backup, quarantine), a journal with a phase, the recorded version,
and a lock the operating system frees when its holder exits. Operations:
`execute` (recover, fetch, install), `recover`, `rollback`. Hard: a process may
be killed, or the machine lose its power, between any two file operations, and
the next updater has only the journal. Correct when the last committed binary is
never lost and a settled install has nothing left over.

**Fleet coordinator** (`rust/task_runtime/fleet`). State: one durable document
of workers, jobs, attempts, leases and events. Operations: registration,
submission, assignment (a placement read under one lock and used under the
next), and the calls of workers: acknowledge, heartbeat, events, commit, fail,
confirm, adopt; expiry of leases; a restart. Hard: a worker's call arrives late,
twice, or after its job went to another; each caller brings its own clock; a
cancellation races a success. Correct when only the latest lease acts.

**Task scheduler** (`rust/task_runtime/scheduler`). State: a directory of job
records and slot files, the child processes, one reaper thread per job, and a
directory watch per poll. Operations: spawn, batch, poll, deliver, merge,
cancel, and the recovery every call begins with. Hard: nothing locks the
directory. Correct when at most `maxParallel` tasks run, a poll sees the end it
waits for, and no process outlives its record.

**Headless daemon** (`rust/rpc`). State: an idempotency record per key on disk,
event streams on disk, a bounded queue with its threads, permits per tenant, and
results kept in memory when they could not be written. Operations: `submit_work`
with its refusals and their rollback, a worker's prompt with a forwarder thread
beside it, the drain. Hard: retries with one key from several connections, storage
that fails before or after it took effect, a drain between the steps of a submit,
a panic, a restart. Correct when a key is prompted at most once, a recorded answer
stays, and nothing started is lost.

**Session ledger** (`rust/session`, `rust/cli/reports/sessions`). State: an append-only
transcript of events that name their parents, the payload files of pending actions, a
lock per process, and a migration file. Operations: append, checkpoint, rewind; a
pending file action is previewed, claimed, applied to its target without the lock, and
completed, or discarded; an older transcript is migrated by its first append. Hard: a
write is cut anywhere, one byte before its newline too; two threads claim, discard and
rewind over one preview; another jeden process does the same with a lock of its own. Correct
when an action replaces its target at most once, and nothing that is still to be
resolved is lost.

**Conversation** (`rust/agent/conversation`). State: the window of messages the model is
sent, beside the events from which `replay_entries` would rebuild it, and within a turn
its step, what is left of its routes, and the corrections made. Operations: a turn with
its model calls, promotions, corrections, withheld answers, tools, pruning and
compactions; between turns checkpoints, rewinds, children, handoffs and resumes. Hard:
window and events are written one by one and each may be the last; a failed call is
retried in five ways; a batch of tools is answered by one message and may be cancelled
halfway. Correct when a resumed conversation is the one that was, and a turn ends.

**Completion ledger** (`rust/completion`). State: per session the requests and tasks of
`completion.json` with a revision, and one register of asks for the machine. Operations: requests
are captured and planned, tasks added, advanced and withdrawn, reviewed and closed; the
operator pauses, resumes, cancels, reports defects and answers, from other processes.
Hard: every write is one step of a file lock, but an operation is several, over two
files, and the operator comes in between. Correct when a pause stays in force, what is
completed was done, and an answer reaches what was asked.

The first four do not call each other. They share one primitive, the durable
replacement of a file (`rust/durable`, `rust/platform/unix/atomicfs.rs`): it is
atomic, and it may report a failure after it took effect. The last three are layers of one
process: a turn appends what it does to the session's ledger, and asks the completion
ledger whether its answer may stand. They meet in the model as they do in the code: `AgentTurn`
takes an append for one step and a review for a choice, `SessionLedger` and
`CompletionLedger` take a caller that may do anything at any time. The daemon's prompts
and the terminal's turns run this same code, which calls the task scheduler as a tool.
`PROJECT.json` lists the other components with the reason each is not modelled.

## The models

**UpdateTransaction.** An updater is a process and `pc` is its place in `execute`,
`recover_exclusive`, `rollback` or `install`. Each action is one durable effect
(a rename, a removal, a journal write), so that every point at which a process can
stop is a state. `Stop` stands for a kill and for an I/O error returned with `?`:
both leave the same files and free the lock. `PowerLoss` stops everybody and may
bring back any removal not synced yet (`unsynced`). A binary is its version number.
Health probes answer either way. Manifests, signatures and archives are reduced to
the choice of a newer version.

**FleetCoordinator.** One action per `transact`, since the store applies it to a copy under
its mutex and installs the copy whole. `assign` is two steps: `Place` puts a placement
into `decisions`, `Assign` uses it at any later time. Messages need no variable: a
worker knows what its offer said, so every action takes any job, any attempt ever
made and any clock value, which is what delayed, repeated and reordered calls amount
to. Left out: heartbeat times, diagnostics, version negotiation, and the contents of
inputs and outputs.

**TaskScheduler.** A host is a jeden process with one tool call at a time. Each file
operation is an action; the slot is written in place (`Truncate`, `Fill`), so another
process may read it torn (`ReadDamaged`). `child` and `owner` say whether a process is
alive, a zombie its living parent has not waited for, or gone: a zombie still counts as
alive to `process_alive`, and the code's behaviour depends on it. `woken` is the event a
watch holds; a poll reads (`read`), decides to sleep (`seen`) and sleeps (`wait`), and its
watch is armed from the first of these. `Failing` names the steps that may fail in a
run, the wait for a child and the removal of a slot among them; a slot left behind names its
job, or the host when no child was started. The list a call reads is one snapshot. It is the unix build, and pids are not reused.

**RpcService.** A caller is a connection in `submit_work`; each critical section of a
lock and each operation of a channel is an action. A worker thread goes through
take, prompt, (error event), join of its forwarder, completion, release of the permit,
and the count of pending jobs. `Left` is the queue when a thread ends: the last one
drops it with its jobs. `Restart` stops the daemon anywhere; only `record`, `kept` and
`ended` survive. Left out: cancel, the checks that only refuse, other tenants (no step
relates two), the session a prompt runs in, and the loading of a stream after a
restart.

**SessionLedger.** A thread is a caller of the session's functions; the lock its process
holds spans an append from the first read to its last effect, so the actions between
`Begin` and `Return` are what another *process* can see in between, and a claim, its
replacement and its completion are three calls between which anybody may act. A second process may
run whole turns on the transcript (`jeden todo continue --session`, a daemon that opened its
directory); `overlapped` records that two processes were in a claim, a discard or a rewind at once,
which no lock prevents. An event is its place,
its maker, its parent and its kind. `tail` is how the transcript ends: a write that
failed leaves nothing, a part of its line, or all of it but the newline. A call the code
refuses before its first effect is no step. Left out: the mirror in `state.json`, which
nothing reads back, the files of imported sessions, and the contents of entries.

**AgentTurn.** A message is what it is (a request, a result, a correction, a summary), and
a window a sequence of these. `replayed` is what `replay_entries` would make of the
ledger; every action adds to both what the code adds to both, in its order, and `Resume`
puts one in place of the other, anywhere. `apart` holds while a failed compaction or plan
has left them different, which the code accepts. What a review of the completion ledger
says is a choice. Left out: turns that only ask the model, the chat memory, appends that
fail (`SessionLedger`), an unbounded step budget, the base system prompt and the
completion authority, which are stated anew, and local execution.

**CompletionLedger.** One action per `store::update`. A conversation (`at`) reads a revision
and the register, and applies its review only at that revision; the register is written
after it (`CommitLinks`), or never (`CommitFails`). The operator's answer (`operator`) is recorded,
then goes to one place after the other, each of which may fail. Left out: blockers (a session may be reviewed at any
time), evidence and criteria (a review says
what they allow), estimates, dates and phases, the exact words of a status, the mirror of
asks at an external service, questions asked while a turn runs, to-do files of older
versions, and items skipped because their text is there already. `Plan` is one step although
the code inspects and then writes, since the write is refused at any other revision.

## What is checked

Every bound is a constant of the module and is a guard of the action it limits.

| run | instance | shows |
|---|---|---|
| `update` | 2 updaters, 3 versions, 3 runs, 2 stops, 1 power loss | `LastGoodKept`, `SettledIsWhole`, `StateFollowsTarget` |
| `fleet` | 1 job with 2 events and 2 attempts, 2 workers that register again with other capacities and inputs, 2 clock values | `RunningIsHeld`, `OutcomeIsLatest`, `LeaseIsLatest`, `SupersededFailed`, `EventsGapless`, `TerminalIsFinal`, `CancelledNotRetried`, and the refinement `FencedSpec` |
| `tasks` | 2 hosts, 1 of which may crash, 2 jobs over 1 slot, 2 calls of every kind, every step may fail, the removal of a slot too | `EndedIsStopped`, `NoLostWakeup`, `SlotGivenBack`, `EndedForGood` |
| `tasks_live` | 1 host, 2 jobs, 2 slots, 3 calls that spawn and wait | `PollReturns` |
| `rpc` | 2 connections, 2 keys, 2 requests, 1 thread, 1 place in the queue, quota 1, 1 event per prompt, a drain, a restart, a panic, every storage failure | `OneRequestPerKey`, `PermitsHeld`, `StartedGoesOn`, `StartedIsDone`, `DrainEnds`, and the refinement `KeyedSpec` |
| `session` | 2 threads of one process, a second process that previews, claims, discards and rewinds too, 1 pending action, 5 lines, 1 failure or crash, 1 outside edit | `AppliedOnce`, `ClaimOnLineage`, `PreviewHasPayload` |
| `turn` | 2 turns of up to 3 steps, batches of 2 tools, 1 route to promote to, 1 repeatable failure of each kind, 1 checkpoint, windows of 2 messages at a turn's start | `ReplayKeeps`, `BudgetIsAnswers`, `TurnEnds` |
| `completion` | a session of 2 requests and 2 tasks written 4 times, a child that may inherit it at any time, 2 asks, an operator | `PausedStopsWork`, `CompletedIsDone`, `AnswerRecorded`, `TerminalStays` |

Every run but `tasks_live` checks its module's `TypeOK` as well; that of
`CompletionLedger` also says that every operation leaves what `validate()` accepts.

Why these bounds are enough to be worth running. *Update*: one run to install, one stopped
in the middle, one that recovers and is stopped again; two updaters contend for the lock.
*Fleet*: two attempts are what a superseded one needs, two workers what a stale holder
needs, two clock values what an early and a late caller need. *Tasks*: two calls let one
host spawn and crash while another recovers, polls or cancels; two jobs over one slot fill
it. *Daemon*: two requests are what it takes to exceed a quota of one and to retry a key;
one panic ends the only thread. *Session*: five lines hold a checkpoint, a preview, a
claim, a rewind and an end; a second failure adds only the same tails again. *Turn*: three
steps are a failure, its correction and the answer; the second turn sees what the first
one left, a batch cut short among it. *Completion*: four writes are a request, its task,
its review and what comes after; two asks let an answer be recorded while a review that read the
register without it is being committed. The theorems carry what is proved beyond these bounds.

Deadlock is not checked: each of these systems may stop (nothing left to update, all
jobs ended, all calls answered, the daemon drained, nobody asking anything), and the
bounds end the rest.

### Disagreements

Four runs look for what a document or a comment says and the code does not keep; TLC
finds each violated.

- `fleet_cancel`, `CancelledNeverSucceeds`: an acknowledgement after a cancel sets the
  phase back to Running; the commit the cancel should refuse is then accepted.
- `tasks_parallel`, `ParallelKept`: a slot file is removed by its path twice; the second
  removal takes the slot of the job that reserved it in between.
- `session_tail`, `HistoryReads`: a last line that lost only its newline is read as whole; the
  next append continues it, and the two make one line no later read accepts. The documentation
  says such a transcript is read up to its last valid event and refuses appends.
- `asks_answer`, `AnswerFitsAsk`: a review is in the session before the register knows of its
  asks; an answer to the earlier ask, given in between, is put under the later one.

Others were seen while modelling and are listed as hazards without a run. Of an update: a
recovery stopped after the backup went back leaves a journal that every later one
refuses. Of the daemon: a drain that waits for ever after a panic; sessions opened twice at
once; a failed prompt's end on its stream before its events. Of a session: two processes that
run turns on one transcript can claim the same action, rewind past each other's claims, or append
with the same number. Of the completion ledger:
every control covers a request whose tasks are all cancelled, one not planned yet too; a
request paused and then cancelled task by task stays paused for good; of one answer to two
tasks of a session, the second is refused, by the revision the first one wrote, and waits until
somebody continues the work.

### Fairness

`UpdateTransaction` and `FleetCoordinator` have none, and no liveness is claimed:
an update runs when someone asks for it, and nothing in the repository calls
`expire_leases` on its own.

`TaskScheduler!FairSpec` is weak fairness of each reaper thread, of the calls that have
started a child until its reaper runs, and of polls (which only run on when they
were woken). These are threads that are not blocked, so the operating system runs them.
Children need not exit and hosts need not call; `PollReturns` is of a job whose process
exited. It is stated without crashes: the reaper of a crashed host is gone, and nothing
wakes its pollers until another call recovers the job.

`RpcService!FairSpec` is weak fairness of a call once it began, of a thread of the
executor, of a forwarder and of the drain, none of which blocks on anything
but the others. That a prompt ends is assumed (it is an answer of a model), and that
it does not panic: a panic takes its thread's pending unit with it, and the drain
then waits for ever.

`AgentTurn!FairSpec` is weak fairness of the turn's thread: it runs on, and the model and
its tools answer or fail, in any way. The model's failures must differ to go on: each
different one is corrected once, and `Cause` and `Answer` are finite. `SessionLedger` and
`CompletionLedger` have none: their callers come when they come.

## What is proved

All theorems hold for every value of the constants under the modules' named assumptions.
Each rests on an inductive invariant, stated in conjuncts that are named for what they say.

**UpdateTransactionProofs.** `LastGoodKept` is not inductive: whether the backup or the
target holds the last committed binary depends on the journal's phase and on where
the lock's holder is. `IInv` adds `LockInv` (the holder is the one updater in the
locked code), `DiskInv` (what a phase says of the two files), `UnsyncedInv` (what a power
loss may bring back) and `HolderInv` (what each point of the code knows).
`UpdateKeepsLastGood` follows. `VInv` adds what each phase of the journal, and of a journal whose
removal a power loss may undo, says of the recorded version; it has no hypothesis, so that
`UpdateStateFollowsTarget` holds through every power loss, and of a first install. `WInv` adds
what is left beside the target. `UpdateSettlesWhole` follows for an install that already has a
binary (`~FreshInstall`) and for as long as the machine keeps its power, which its property says:
a stopped first install leaves a binary nobody committed, and a power loss can bring back a
stage that no journal names.

**FleetCoordinatorProofs.** `IInv` is `TypeOK`, `JobInv` of every job, and `RunningIsHeld`.
`JobInv` says that tokens are attempt numbers, superseded attempts failed, and a lease,
if there is one, is the latest attempt's. The counters need lemmas on cardinalities: a
step moves a job into or out of the set a worker holds, and `expire_leases` moves
many. `FleetKeepsPromise` proves that the coordinator implements `FencedJobs`, initial
states and every step, with the refinement mapping `FencedSpec` uses. `FleetEventsGapless` has an
invariant of its own: the sequences recorded of an attempt are 1 to some count, so that
the maximum `record_event` takes is that count.

**TaskSchedulerProofs.** `IInv` is `TypeOK`, `CallInv` (what each point of a call knows of
its job), `JobInv` (what a reaper's place says of record, process and slot) and `SlotInv`.
`EndedIsStopped`, `SlotGivenBack` and `EndedForGood` follow (a slot that could not be removed
names a process `JobInv` says is gone); `NoLostWakeup` and
`RunningIsReaped` are inductive relative to it. `TasksRunningIsReaped` assumes that reapers
start and can write (`NeverFails`): a failure there leaves a job without one.

**RpcServiceProofs.** None of the properties is inductive. `IInv` says what a request that
waits in a call or in the queue has to itself (`Waiting`: the record of its key, no
prompt, no answer, an empty stream), that no two hands hold the same one (`CallInv`,
`QueueInv`), that what was prompted, answered or kept in memory under a key is what its
record names (`KeyInv`), and how the counters are made up (`PermitInv`, `PendingInv`, with a
lemma on sets that differ in one element). `OneRequestPerKey`, `PermitsHeld` and
`RpcCompletedForGood` follow; `TypeOK` needs all of it, since that a count stays above zero is
`PermitInv`, and that a stream keeps no more than was published is `WorkerInv`.
`RpcStartedGoesOn` and `RpcDoneHasEnded` are inductive relative to it, the second where
appends do not fail: an end that was not appended is on no stream. `RpcKeepsPromise` proves
that the service implements `KeyedPrompts`: the record's request is the key's holder, and a
result is on disk or only in memory. That a key is given up before its prompt only is
`Waiting`, and that an answer is the holder's is `KeyInv`; every other step is a stutter.

**SessionLedgerProofs.** The first invariant holds for any processes: `Types`, `LockHeld` (a
thread in an append holds its process's lock), `CallAt` (what each point of a call knows),
`LegacyIsOld`, `Fresh` (an identity not given yet is nowhere, and one whose preview is not
written yet is its writer's) and `OverIsGone`: of an action that was claimed, discarded or
lost its payload, the transcript names the end or no preview, or it does not read for good.
`SessionTypes` and `SessionPreviewHasPayload` follow. The second, `SInv`, holds until
two processes decide at once (`overlapped`): `NotSpentYet` (a
claim or discard on its way finds its action unspent), `OneClaim`, `RewindWaits` (no rewind
while a claim is open) and `ClaimsOnLine` (open claims are on the lineage, of the whole
transcript and of what is left without a bare last line). `SessionAppliedOnce` and
`SessionClaimOnLineage` follow, with the same condition in their statements. It is needed: the append
lock is one process's, and without it TLC violates both properties within seconds. Processes that
take turns, in any order and any number, are covered. The lineage is a recursive function, and what it contains and
what an append does to it are lemmas by induction.

**AgentTurnProofs.** `IInv` has the window's types (`WindowTypes`: whatever an action appends,
prunes or puts in place of the last answer is a window again), the turn's (`LoopTypes`),
and `Budget`: before a call as many answers were read as steps went by, and from a reply
on one more. It is not `BudgetIsAnswers` itself, which speaks only of the end, but what each place
of the loop owes for it. `BudgetPaysAnswers` and `TurnTypeCorrect` follow for any number of
steps, routes, failures and tools. `ReplayKeeps` speaks of two places only; `Follows` says what
ledger and window owe each other at every place: they are even, or the ledger is ahead by the
task being planned, the answer under way, or the result of a batch that ran, which needs that
the recorder awaits as many results as tools are left. `Kept` is a recursive
function on windows; that it distributes over an append and that pruning changes nothing it
keeps are lemmas by induction. `ReplayKeepsExchange` follows.

**CompletionLedgerProofs.** `IInv` is `Owed` (what each session owes: every task's request is
there, planned ones have tasks, completed ones are covered and done, a paused request's
open tasks are paused, a defect is of an original), `Types`, and `Agreed` (the register
knows the ask at every place, and what is being handed or delivered to tasks is answered). The first is of one session at a time, so that a step's case is one session's requests and tasks before
and after it. `TypeCorrect`, `PausedHolds`, `CompletedHolds`, `AnsweredHolds`, `TerminalHolds` and
`DefectsHold` follow, the last for a loop of the code that has no bound of its own.

`FencesGrow`, `RunningIsReaped`, `CompletedForGood`, `DoneHasEnded` and `DefectOfOriginal` are proved
and no run checks them: the runs spend their time on what is not proved.

Induction over a window or a transcript is by the lemma `Numbers`, of a set of numbers that
has the first and with each the next, from the least element every set of numbers has; the
recursive functions are shown to exist before anything is said of them.

Only model-checked: liveness (`PollReturns`, `StartedIsDone`, `DrainEnds`, `TurnEnds`), which is
out of the prover's reach under fairness. Every invariant and every action property a run
checks is the statement of a theorem; the four disagreements are TLC's counterexamples.

## Not modelled

The program has some 108 000 lines. Most of them are drawing, command-line and text
(`rust/tui`, `rust/cli`, translations), requests to other programs and services
(model providers, tool servers, a container runtime), and generated or vendored data:
their states are one step long, and what could be wrong there is in the text. The stores
below have states worth a model and none yet:

1. the replay journal over a restart with a torn last line, and the registry of daemon
   sessions (create and open, two at once, with the quota);
2. questions of a prompt that wait for an answer, a cancel or the end of input
   (`rust/rpc/server/parking.rs`);
3. the mailbox of tasks (`rust/task_runtime/local/mailbox.rs`): claims by rename;
4. operator memory and its outbox, requests of autonomy, the collaboration relay;
5. the hillclimb ledger, the content-addressed store, migrations.

The imports of other programs' sessions are left out of `SessionLedger`.

## Running

`tlc -workers 2 -config MCFleet.cfg MCFleet` checks a run, `tlapm FleetCoordinatorProofs.tla`
the proofs. Every run ends within a few minutes.
