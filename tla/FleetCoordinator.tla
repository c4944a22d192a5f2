-------------------------- MODULE FleetCoordinator --------------------------
(***************************************************************************)
(* The fleet coordinator (rust/task_runtime/fleet/coordinator): jobs,      *)
(* workers, and the fenced leases under which workers run jobs.            *)
(*                                                                         *)
(* Every operation is one `transact`: under the store's mutex it changes a *)
(* copy, writes it whole, and installs it; a refused operation changes     *)
(* nothing.  `assign` is two of them: it places under one lock and assigns *)
(* under the next, with the decision in between in the caller's hands.     *)
(*                                                                         *)
(* Workers hold what their offers said, so a call may arrive at any time,  *)
(* twice, out of order, and from any attempt there ever was.  Each caller  *)
(* passes its own `now`: the clocks of two calls need not agree.           *)
(***************************************************************************)
EXTENDS Integers, Sequences, FiniteSets

CONSTANTS
  Job,            \* job ids
  Worker,         \* worker ids: numbers, so that they have an order
  Descriptor,     \* what a worker may declare: [max_parallel, fits, cas_objects]
  Time,           \* the values `now` takes
  LeaseMs,        \* how long a lease lasts
  EventPhase,     \* the attempt phases workers report
  MaxAttempts,    \* bound: attempts of one job
  MaxEvents,      \* bound: event sequence numbers
  MaxIncarnation, \* bound: incarnations of a worker
  MaxEpoch        \* bound: openings of the coordinator

ASSUME SetAssumption == IsFiniteSet(Job) /\ Worker \subseteq Nat
ASSUME TimeAssumption == Time \subseteq Nat /\ LeaseMs \in Nat
ASSUME BoundAssumption ==
  /\ MaxAttempts \in Nat /\ MaxEvents \in Nat
  /\ MaxIncarnation \in Nat /\ MaxEpoch \in Nat
\* fits: the jobs whose other constraints it meets; cas_objects: the jobs
\* whose input it holds already.
ASSUME DescriptorAssumption ==
  Descriptor \subseteq [max_parallel : Nat, fits : SUBSET Job, cas_objects : SUBSET Job]

AttemptPhase == {"Offered", "Accepted", "Materializing", "Running", "Uploading",
                 "CommitReady", "Succeeded", "Failed", "Cancelled"}
ASSUME EventPhaseAssumption == EventPhase \subseteq AttemptPhase

Leased == {"Assigned", "Running", "Cancelling"}
Terminal == {"Cancelled", "Succeeded", "Failed"}
JobPhase == {"Pending"} \cup Leased \cup Terminal
NotSubmitted == "NotSubmitted"

Attempt == [worker_id : Worker, fencing_token : Nat, phase : AttemptPhase]
Lease == [attempt : Nat \ {0}, worker_id : Worker, fencing_token : Nat, expires_at : Nat]
NoLease == [attempt |-> 0]
NoDescriptor == [max_parallel |-> 0, fits |-> {}, cas_objects |-> {}]
Event == [attempt : Nat, sequence : Nat, phase : EventPhase]

VARIABLES
  epoch,          \* coordinator_epoch
  incarnation,    \* per worker: its hello's incarnation, 0 before it registers
  descriptor,     \* per worker: its hello's descriptor
  running,        \* per worker: the counter of its running jobs
  phase,          \* per job
  attempts,       \* per job: attempt n is the n-th
  lease,          \* per job: its lease or NoLease
  outcome,        \* per job: the attempt whose output it is, or 0
  events,         \* per job: the recorded events
  next_fencing_token,
  cancel_requested,
  decisions       \* placements some caller of assign has read

workerVars == <<incarnation, descriptor, running>>
vars == <<epoch, incarnation, descriptor, running, phase, attempts, lease, outcome, events,
          next_fencing_token, cancel_requested, decisions>>

\* A state that does not exist starts at the first epoch, and opening takes
\* the next.
FirstEpoch == 1 + 1

Init ==
  /\ epoch = FirstEpoch
  /\ incarnation = [w \in Worker |-> 0]
  /\ descriptor = [w \in Worker |-> NoDescriptor]
  /\ running = [w \in Worker |-> 0]
  /\ phase = [j \in Job |-> NotSubmitted]
  /\ attempts = [j \in Job |-> <<>>]
  /\ lease = [j \in Job |-> NoLease]
  /\ outcome = [j \in Job |-> 0]
  /\ events = [j \in Job |-> {}]
  /\ next_fencing_token = [j \in Job |-> 1]
  /\ cancel_requested = [j \in Job |-> FALSE]
  /\ decisions = {}

Last(s) == s[Len(s)]
Capacity(w) == descriptor[w].max_parallel

\* A store opened again reads what the last transaction wrote, in the next
\* epoch; the callers of the process before are gone.
Open ==
  /\ epoch < MaxEpoch
  /\ epoch' = epoch + 1
  /\ decisions' = {}
  /\ UNCHANGED <<workerVars, phase, attempts, lease, outcome, events, next_fencing_token,
                 cancel_requested>>

\* The jobs worker w holds.
Held(w) == {j \in Job : lease[j] # NoLease /\ lease[j].worker_id = w /\ phase[j] \notin Terminal}

\* A hello is refused when its incarnation is older than the recorded one;
\* otherwise it replaces the record and the running jobs are counted again.
RegisterWorker(w, inc, desc) ==
  /\ inc >= incarnation[w]
  /\ incarnation' = [incarnation EXCEPT ![w] = inc]
  /\ descriptor' = [descriptor EXCEPT ![w] = desc]
  /\ running' = [running EXCEPT ![w] = Cardinality(Held(w))]
  /\ UNCHANGED <<epoch, phase, attempts, lease, outcome, events, next_fencing_token,
                 cancel_requested, decisions>>

\* A job id submitted again is answered or refused and changes nothing.
Submit(j) ==
  /\ phase[j] = NotSubmitted
  /\ phase' = [phase EXCEPT ![j] = "Pending"]
  /\ UNCHANGED <<epoch, workerVars, attempts, lease, outcome, events, next_fencing_token,
                 cancel_requested, decisions>>

-----------------------------------------------------------------------------
(* Placement and assignment. *)

\* The hard constraints: descriptor, and a free slot of a declared capacity.
Eligible(j) ==
  {w \in Worker : incarnation[w] # 0 /\ j \in descriptor[w].fits /\ running[w] < Capacity(w)}

HoldsInput(w, j) == j \in descriptor[w].cas_objects
FreeSlots(w) == Capacity(w) - running[w]

\* The rank: holding the input, then free slots, then less running; equal
\* ranks go to the smaller id.
Outranks(w, v, j) ==
  \/ HoldsInput(w, j) /\ ~HoldsInput(v, j)
  \/ /\ HoldsInput(w, j) <=> HoldsInput(v, j)
     /\ \/ FreeSlots(w) > FreeSlots(v)
        \/ FreeSlots(w) = FreeSlots(v) /\ running[w] < running[v]
        \/ FreeSlots(w) = FreeSlots(v) /\ running[w] = running[v] /\ w < v

Selected(w, j) == w \in Eligible(j) /\ \A v \in Eligible(j) \ {w} : Outranks(w, v, j)

\* assign reads its placement under the store's lock and lets the lock go.
Place(j) ==
  /\ phase[j] # NotSubmitted
  /\ \E w \in Worker :
       /\ Selected(w, j)
       /\ <<j, w>> \notin decisions
       /\ decisions' = decisions \cup {<<j, w>>}
  /\ UNCHANGED <<epoch, workerVars, phase, attempts, lease, outcome, events,
                 next_fencing_token, cancel_requested>>

\* Mutant: a job may be offered again while its cancellation is under way.
OfferableWhileCancelling(j) == phase[j] \in {"Pending", "Cancelling"}

\* Only a pending job no one holds is offered.
Offerable(j) == phase[j] = "Pending" /\ lease[j] = NoLease

\* The token after the one this offer takes.
NextFence(j) == next_fencing_token[j] + 1

\* The caller assigns to the worker it read earlier; nothing of that worker's
\* capacity is looked at again.  Any number of callers may hold the decision.
Assign(j, w, now) ==
  /\ <<j, w>> \in decisions
  /\ Offerable(j)
  /\ Len(attempts[j]) < MaxAttempts
  /\ LET fence == next_fencing_token[j]
     IN /\ attempts' = [attempts EXCEPT ![j] = Append(@,
             [worker_id |-> w, fencing_token |-> fence, phase |-> "Offered"])]
        /\ lease' = [lease EXCEPT ![j] =
             [attempt |-> Len(attempts[j]) + 1, worker_id |-> w, fencing_token |-> fence,
              expires_at |-> now + LeaseMs]]
  /\ next_fencing_token' = [next_fencing_token EXCEPT ![j] = NextFence(j)]
  /\ phase' = [phase EXCEPT ![j] = "Assigned"]
  /\ running' = [running EXCEPT ![w] = @ + 1]
  /\ UNCHANGED <<epoch, incarnation, descriptor, outcome, events, cancel_requested, decisions>>

-----------------------------------------------------------------------------
(* What workers report, with the credentials of attempt n of job j. *)

\* Mutant: whoever holds a lease answers for the job.
AnyHoldsLease(j, n) == lease[j] # NoLease

\* current_job_mut_allow_cancelling: the job's lease is this attempt's.
HoldsLease(j, n) ==
  /\ lease[j] # NoLease
  /\ lease[j].fencing_token = attempts[j][n].fencing_token
  /\ lease[j].worker_id = attempts[j][n].worker_id
  /\ lease[j].attempt = n

\* current_job_mut: and it has not run out.
HoldsLiveLease(j, n, now) == HoldsLease(j, n) /\ lease[j].expires_at > now

SetAttemptPhase(j, p) ==
  attempts' = [attempts EXCEPT ![j][Len(attempts[j])].phase = p]

\* Mutant: the slot is given back twice.
TwoLess(w) == running' = [running EXCEPT ![w] = @ - 2]

\* worker.running.saturating_sub.
OneLess(w) == running' = [running EXCEPT ![w] = IF @ = 0 THEN 0 ELSE @ - 1]

\* The phase is set whatever it was.
Acknowledge(j, n, now) ==
  /\ HoldsLiveLease(j, n, now)
  /\ phase' = [phase EXCEPT ![j] = "Running"]
  /\ SetAttemptPhase(j, "Accepted")
  /\ UNCHANGED <<epoch, workerVars, lease, outcome, events, next_fencing_token,
                 cancel_requested, decisions>>

Extended(j, now) == lease' = [lease EXCEPT ![j].expires_at = now + LeaseMs]

Heartbeat(j, n, now) ==
  /\ HoldsLiveLease(j, n, now)
  /\ Extended(j, now)
  /\ UNCHANGED <<epoch, workerVars, phase, attempts, outcome, events, next_fencing_token,
                 cancel_requested, decisions>>

EventsOf(j, n) == {e \in events[j] : e.attempt = n}
Sequences(es) == {e.sequence : e \in es}

\* Mutant: any sequence not used before is accepted.
NewerSequence(j, n) == {s \in 1..MaxEvents : s \notin Sequences(EventsOf(j, n))}

\* An attempt's events are numbered from the first, without gaps.
NextSequence(j, n) ==
  {s \in 1..MaxEvents :
     s = IF EventsOf(j, n) = {} THEN 1
         ELSE 1 + CHOOSE m \in Sequences(EventsOf(j, n)) :
                    \A k \in Sequences(EventsOf(j, n)) : k <= m}

\* A sequence recorded before is answered `false` or refused as reused; one
\* that leaves a gap is refused.
RecordEvent(j, n, s, p, now) ==
  /\ HoldsLiveLease(j, n, now)
  /\ s \in NextSequence(j, n)
  /\ SetAttemptPhase(j, p)
  /\ events' = [events EXCEPT ![j] = @ \cup {[attempt |-> n, sequence |-> s, phase |-> p]}]
  /\ UNCHANGED <<epoch, workerVars, phase, lease, outcome, next_fencing_token,
                 cancel_requested, decisions>>

\* The job leaves its lease in a terminal phase.
End(j, n, jobPhase, attemptPhase) ==
  /\ phase' = [phase EXCEPT ![j] = jobPhase]
  /\ lease' = [lease EXCEPT ![j] = NoLease]
  /\ SetAttemptPhase(j, attemptPhase)
  /\ OneLess(attempts[j][n].worker_id)
  /\ UNCHANGED <<epoch, incarnation, descriptor, events, next_fencing_token,
                 cancel_requested, decisions>>

\* The output is in the content store; one that is not is refused.
Commit(j, n, now) ==
  /\ HoldsLiveLease(j, n, now)
  /\ phase[j] # "Cancelling"
  /\ phase[j] \notin Terminal
  /\ outcome' = [outcome EXCEPT ![j] = n]
  /\ End(j, n, "Succeeded", "Succeeded")

Fail(j, n, now) ==
  /\ HoldsLiveLease(j, n, now)
  /\ phase[j] # "Cancelling"
  /\ End(j, n, "Failed", "Failed")
  /\ UNCHANGED outcome

-----------------------------------------------------------------------------
(* Cancellation, expiry, adoption. *)

\* Mutant: a finished job can still be cancelled.
CancellableOnce(j) == phase[j] # NotSubmitted /\ ~cancel_requested[j]

\* A terminal job, and one asked to stop before, answer `false`.
Cancellable(j) ==
  phase[j] # NotSubmitted /\ phase[j] \notin Terminal /\ ~cancel_requested[j]

Cancel(j) ==
  /\ Cancellable(j)
  /\ cancel_requested' = [cancel_requested EXCEPT ![j] = TRUE]
  /\ phase' = [phase EXCEPT ![j] = IF @ = "Pending" THEN "Cancelled" ELSE "Cancelling"]
  /\ UNCHANGED <<epoch, workerVars, attempts, lease, outcome, events, next_fencing_token,
                 decisions>>

\* Allowed after the lease ran out.
ConfirmCancelled(j, n) ==
  /\ HoldsLease(j, n)
  /\ phase[j] = "Cancelling"
  /\ End(j, n, "Cancelled", "Cancelled")
  /\ UNCHANGED outcome

Expired(now) ==
  {j \in Job : phase[j] \notin Terminal /\ lease[j] # NoLease /\ lease[j].expires_at <= now}

\* Mutant: a job whose lease ran out is offered again, cancelled or not.
RetriedAlways(j) == "Pending"

\* Mutant: the job keeps the phase it had under the lease.
UnmovedByExpiry(j) == phase[j]

\* Cancelled when it was asked to stop, else offered again.
AfterExpiry(j) == IF cancel_requested[j] THEN "Cancelled" ELSE "Pending"

\* Mutant: the worker's counter keeps the jobs whose leases ran out.
NoneLost(w, E) == 0

LostBy(w, E) == Cardinality({j \in E : lease[j].worker_id = w})

\* Every lease that ran out, in one pass.
ExpireLeases(now) ==
  /\ Expired(now) # {}
  /\ phase' = [j \in Job |-> IF j \in Expired(now) THEN AfterExpiry(j) ELSE phase[j]]
  /\ lease' = [j \in Job |-> IF j \in Expired(now) THEN NoLease ELSE lease[j]]
  /\ attempts' = [j \in Job |->
       IF j \in Expired(now)
       THEN [attempts[j] EXCEPT ![Len(attempts[j])].phase = "Failed"]
       ELSE attempts[j]]
  /\ running' = [w \in Worker |->
       LET lost == LostBy(w, Expired(now))
       IN IF lost > running[w] THEN 0 ELSE running[w] - lost]
  /\ UNCHANGED <<epoch, incarnation, descriptor, outcome, events, next_fencing_token,
                 cancel_requested, decisions>>

\* A worker that comes back with its offer's credentials keeps its lease.
Adopt(j, n, now) ==
  /\ HoldsLiveLease(j, n, now)
  /\ Extended(j, now)
  /\ UNCHANGED <<epoch, workerVars, phase, attempts, outcome, events, next_fencing_token,
                 cancel_requested, decisions>>

-----------------------------------------------------------------------------

\* A call with the credentials some offer of job j carried.
WorkerCall(j, n, now) ==
  \/ Acknowledge(j, n, now) \/ Heartbeat(j, n, now) \/ Commit(j, n, now) \/ Fail(j, n, now)
  \/ ConfirmCancelled(j, n) \/ Adopt(j, n, now)
  \/ \E s \in 1..MaxEvents, p \in EventPhase : RecordEvent(j, n, s, p, now)

JobStep(j) ==
  \/ Submit(j) \/ Place(j) \/ Cancel(j)
  \/ \E w \in Worker, now \in Time : Assign(j, w, now)
  \/ \E n \in DOMAIN attempts[j], now \in Time : WorkerCall(j, n, now)

Next ==
  \/ \E j \in Job : JobStep(j)
  \/ \E w \in Worker, inc \in 1..MaxIncarnation, desc \in Descriptor :
       RegisterWorker(w, inc, desc)
  \/ \E now \in Time : ExpireLeases(now)
  \/ Open

Spec == Init /\ [][Next]_vars

-----------------------------------------------------------------------------
(* Properties. *)

\* The values the variables range over.
TypeOK ==
  /\ epoch \in Nat
  /\ incarnation \in [Worker -> 0..MaxIncarnation]
  /\ descriptor \in [Worker -> Descriptor \cup {NoDescriptor}]
  /\ running \in [Worker -> Nat]
  /\ phase \in [Job -> JobPhase \cup {NotSubmitted}]
  /\ attempts \in [Job -> Seq(Attempt)]
  /\ lease \in [Job -> Lease \cup {NoLease}]
  /\ outcome \in [Job -> Nat]
  /\ events \in [Job -> SUBSET Event]
  /\ next_fencing_token \in [Job -> Nat \ {0}]
  /\ cancel_requested \in [Job -> BOOLEAN]
  /\ decisions \subseteq Job \X Worker

\* A job is leased exactly while it is assigned, running or cancelling, and
\* the lease is the latest attempt's: no earlier attempt can answer for it.
LeaseIsLatest ==
  \A j \in Job :
    /\ phase[j] \in Leased <=> lease[j] # NoLease
    /\ lease[j] # NoLease =>
         /\ lease[j].attempt = Len(attempts[j])
         /\ lease[j].attempt # 0
         /\ lease[j].worker_id = Last(attempts[j]).worker_id
         /\ lease[j].fencing_token = Last(attempts[j]).fencing_token

\* Every attempt's token is larger than the tokens of the attempts before it,
\* and smaller than the one the next attempt will take.
FencesGrow ==
  \A j \in Job : \A n \in DOMAIN attempts[j] :
    /\ attempts[j][n].fencing_token < next_fencing_token[j]
    /\ \A m \in 1..(n - 1) : attempts[j][m].fencing_token < attempts[j][n].fencing_token

\* A worker's counter is the number of jobs it holds: no re-registration,
\* expiry or late answer leaks a slot or frees one twice.
RunningIsHeld == \A w \in Worker : running[w] = Cardinality(Held(w))

\* An attempt that was superseded, or whose job waits for the next one, failed.
SupersededFailed ==
  \A j \in Job : \A n \in DOMAIN attempts[j] :
    n < Len(attempts[j]) \/ phase[j] = "Pending" => attempts[j][n].phase = "Failed"

\* A job has an outcome exactly when it succeeded, and it is the latest attempt's.
OutcomeIsLatest ==
  \A j \in Job :
    /\ outcome[j] # 0 <=> phase[j] = "Succeeded"
    /\ outcome[j] # 0 => outcome[j] = Len(attempts[j]) /\ lease[j] = NoLease

\* The recorded events of an attempt are numbered 1, 2, ... with one event
\* for each number, whatever was repeated, delayed or came out of order.
EventsGapless ==
  \A j \in Job : \A e \in events[j] :
    /\ e.attempt \in DOMAIN attempts[j]
    /\ \A s \in 1..(e.sequence) : \E d \in EventsOf(j, e.attempt) : d.sequence = s
    /\ \A d \in EventsOf(j, e.attempt) : d.sequence = e.sequence => d = e

\* A terminal job stays what it is, with its outcome and its attempts.
TerminalIsFinal ==
  [][\A j \in Job : phase[j] \in Terminal =>
       /\ phase'[j] = phase[j] /\ outcome'[j] = outcome[j]
       /\ attempts'[j] = attempts[j] /\ events'[j] = events[j]]_vars

\* A job whose cancellation was accepted is never offered to a worker again.
CancelledNotRetried ==
  [][\A j \in Job : cancel_requested[j] => Len(attempts'[j]) = Len(attempts[j])]_vars

\* The abstract promise, with the token of the latest attempt and the token
\* of the lease.
Fenced == INSTANCE FencedJobs WITH
  token <- [j \in Job |-> next_fencing_token[j] - 1],
  holder <- [j \in Job |-> IF lease[j] = NoLease THEN 0 ELSE lease[j].fencing_token],
  winner <- [j \in Job |-> IF outcome[j] = 0 THEN 0 ELSE attempts[j][outcome[j]].fencing_token],
  stopping <- cancel_requested,
  end <- [j \in Job |->
            IF phase[j] = "Succeeded" THEN "done" ELSE IF phase[j] = "Failed" THEN "failed"
            ELSE IF phase[j] = "Cancelled" THEN "cancelled" ELSE "open"]

\* The coordinator keeps the promise of FencedJobs.
FencedSpec == Fenced!Spec

\* A job whose cancellation was accepted does not succeed: commit answers
\* "job is cancelling" (lifecycle.rs:148).
CancelledNeverSucceeds ==
  \A j \in Job : cancel_requested[j] => phase[j] # "Succeeded"
=============================================================================
