----------------------------- MODULE RpcService -----------------------------
(***************************************************************************)
(* Prompts submitted to the headless daemon: submit_work of the session    *)
(* service (rust/rpc/service/execution.rs), the idempotency records        *)
(* (rust/rpc/idempotency.rs), the bounded executor and its drain           *)
(* (rust/rpc/daemon/executor.rs), and the stream each request's events are *)
(* kept on (rust/rpc/service/backend.rs prompt, rust/rpc/replay).          *)
(*                                                                         *)
(* Connections call at once, each one call at a time, and may repeat any   *)
(* key.  The records and the streams are on disk; all the rest is the      *)
(* daemon's memory, which a restart loses.  One action is one critical     *)
(* section of a lock or one operation of a channel.                        *)
(*                                                                         *)
(* One tenant: no step relates the records, permits or streams of two.     *)
(* A request is the number drawn for it; the instance stamp in its id      *)
(* keeps the numbers of two daemons apart, so the counter goes on.         *)
(***************************************************************************)
EXTENDS Naturals, FiniteSets, Sequences

CONSTANTS
  Caller,       \* the connections that call submit_work
  Key,          \* the idempotency keys they call it with
  Worker,       \* the executor's threads
  QueuePlaces,  \* the places of the executor's queue
  MaxActive,    \* max_active_requests of the tenant
  Failing,      \* the storage operations that may fail
  MaxRequests,  \* bound: requests drawn
  MaxEvents,    \* bound: events of one prompt before its last
  MaxRestarts,  \* bound: daemons stopped anywhere and started again
  MaxPanics     \* bound: prompts that panic

ASSUME SetAssumption == IsFiniteSet(Caller) /\ IsFiniteSet(Worker)
ASSUME LimitAssumption == QueuePlaces \in Nat \ {0} /\ MaxActive \in Nat
ASSUME FailingAssumption == Failing \subseteq {"read", "write", "remove", "complete", "append"}
ASSUME BoundAssumption ==
  MaxRequests \in Nat /\ MaxEvents \in Nat /\ MaxRestarts \in Nat /\ MaxPanics \in Nat

Request == 1..MaxRequests
NoRequest == 0

\* The durable record of a key.
Record == [state : {"active", "completed"}, request : Request]
NoRecord == [state |-> "none", request |-> NoRequest]
Active(r) == [state |-> "active", request |-> r]
Completed(r) == [state |-> "completed", request |-> r]

VARIABLES
  record,      \* on disk, per key
  kept, ended, \* on disk, per request: events of its stream, whether it ended
  keyOf,       \* per request drawn so far: the key of the call it was drawn for
  unrecorded,  \* per key: the finished request whose result is only in memory
  active,      \* active_requests of the tenant
  readiness, sender, pending, queue, \* the executor
  worker, job, \* per worker: where it is, its request
  sent, forwarded, \* per request: events published and events forwarded
  pc, mine,    \* per caller: where its call is, its request
  drain,       \* where the one drain is
  started,     \* history: the requests this daemon answered as started
  ran, given,  \* history, per key: the requests prompted, and answered as completed
  restarts, panics \* counters of the bounds

disk == <<record, kept, ended>>
pool == <<readiness, sender, pending, queue>>
threads == <<worker, job>>
prompts == <<sent, forwarded>>
calls == <<pc, mine>>
history == <<started, ran, given>>
bounds == <<restarts, panics>>
vars == <<disk, keyOf, unrecorded, active, pool, threads, prompts, calls, drain,
          history, bounds>>

\* A caller between the record it wrote and the answer.
Holding == {"reserve", "ready", "clone", "send", "abandon"}
\* A caller that holds the tenant's permit.
Permitted == {"ready", "clone", "send"}
\* A worker with a job whose result is not recorded yet.
Prompting == {"prompt", "emit", "join", "complete"}
\* A worker that takes no more jobs.
Dead == {"exited", "panicked"}

Init ==
  /\ record = [k \in Key |-> NoRecord]
  /\ kept = [r \in Request |-> 0] /\ ended = [r \in Request |-> FALSE]
  /\ keyOf = <<>>
  /\ unrecorded = [k \in Key |-> NoRequest]
  /\ active = 0
  /\ readiness = "Ready" /\ sender = TRUE /\ pending = 0 /\ queue = <<>>
  /\ worker = [w \in Worker |-> "recv"] /\ job = [w \in Worker |-> NoRequest]
  /\ pc = [c \in Caller |-> "idle"] /\ mine = [c \in Caller |-> NoRequest]
  /\ sent = [r \in Request |-> 0] /\ forwarded = [r \in Request |-> 0]
  /\ drain = "no"
  /\ started = {} /\ ran = [k \in Key |-> {}] /\ given = [k \in Key |-> {}]
  /\ restarts = 0 /\ panics = 0

At(c, label) == pc[c] = label
Goto(c, label) == pc' = [pc EXCEPT ![c] = label]
Return(c) == Goto(c, "idle") /\ mine' = [mine EXCEPT ![c] = NoRequest]

-----------------------------------------------------------------------------
(* submit_work.  Every call draws a request, whatever becomes of it.        *)

Drawable == Len(keyOf) < MaxRequests
Drawn == Len(keyOf) + 1

\* No record under the key: it is written, and the call goes on.
BeginStart(c, k) ==
  /\ At(c, "idle") /\ Drawable /\ record[k] = NoRecord
  /\ keyOf' = Append(keyOf, k)
  /\ record' = [record EXCEPT ![k] = Active(Drawn)]
  /\ mine' = [mine EXCEPT ![c] = Drawn]
  /\ Goto(c, "reserve")
  /\ UNCHANGED <<kept, ended, unrecorded, active, pool, threads, prompts, drain, history, bounds>>

\* The record could not be written: refused, whether or not it was by then.
BeginUnwritten(c, k) ==
  /\ "write" \in Failing
  /\ At(c, "idle") /\ Drawable /\ record[k] = NoRecord
  /\ keyOf' = Append(keyOf, k)
  /\ \/ record' = [record EXCEPT ![k] = Active(Drawn)]
     \/ UNCHANGED record
  /\ UNCHANGED <<kept, ended, unrecorded, active, pool, threads, prompts, calls, drain, history,
                 bounds>>

\* Mutant: a record that could not be read is taken for none.
BeginUnreadableStarts(c, k) ==
  /\ "read" \in Failing
  /\ At(c, "idle") /\ Drawable /\ record[k] # NoRecord
  /\ keyOf' = Append(keyOf, k)
  /\ record' = [record EXCEPT ![k] = Active(Drawn)]
  /\ mine' = [mine EXCEPT ![c] = Drawn]
  /\ Goto(c, "reserve")
  /\ UNCHANGED <<kept, ended, unrecorded, active, pool, threads, prompts, drain, history, bounds>>

\* The record could not be read: refused.
BeginUnreadable(c, k) ==
  /\ "read" \in Failing
  /\ At(c, "idle") /\ Drawable /\ record[k] # NoRecord
  /\ keyOf' = Append(keyOf, k)
  /\ UNCHANGED <<disk, unrecorded, active, pool, threads, prompts, calls, drain, history,
                 bounds>>

\* Another request has the key.
BeginReattach(c, k) ==
  /\ At(c, "idle") /\ Drawable /\ record[k].state = "active"
  /\ keyOf' = Append(keyOf, k)
  /\ mine' = [mine EXCEPT ![c] = record[k].request]
  /\ Goto(c, "lookup")
  /\ UNCHANGED <<disk, unrecorded, active, pool, threads, prompts, drain, history, bounds>>

\* The key's request is done: its result is the answer.
BeginCompleted(c, k) ==
  /\ At(c, "idle") /\ Drawable /\ record[k].state = "completed"
  /\ keyOf' = Append(keyOf, k)
  /\ given' = [given EXCEPT ![k] = @ \cup {record[k].request}]
  /\ UNCHANGED <<disk, unrecorded, active, pool, threads, prompts, calls, drain, started,
                 ran, bounds>>

\* Before it is reattached, a result kept in memory is looked for under the key.
Lookup(c) ==
  LET k == keyOf[mine[c]] IN
  /\ At(c, "lookup")
  /\ given' = [given EXCEPT ![k] = @ \cup ({unrecorded[k]} \ {NoRequest})]
  /\ Return(c)
  /\ UNCHANGED <<disk, keyOf, unrecorded, active, pool, threads, prompts, drain, started,
                 ran, bounds>>

\* Mutant: the quota is passed by one.
ReserveOneMore(c) ==
  /\ At(c, "reserve") /\ active <= MaxActive
  /\ active' = active + 1
  /\ Goto(c, "ready")
  /\ UNCHANGED <<disk, keyOf, unrecorded, pool, threads, prompts, mine, drain, history,
                 bounds>>

Reserve(c) ==
  /\ At(c, "reserve") /\ active < MaxActive
  /\ active' = active + 1
  /\ Goto(c, "ready")
  /\ UNCHANGED <<disk, keyOf, unrecorded, pool, threads, prompts, mine, drain, history,
                 bounds>>

\* quota_exceeded.
OverQuota(c) ==
  /\ At(c, "reserve") /\ active >= MaxActive
  /\ Goto(c, "abandon")
  /\ UNCHANGED <<disk, keyOf, unrecorded, active, pool, threads, prompts, mine, drain,
                 history, bounds>>

\* Mutant: the permit is not given back.
NotTakenKept(c) ==
  /\ Goto(c, "abandon")
  /\ UNCHANGED <<disk, keyOf, unrecorded, active, pool, threads, prompts, mine, drain,
                 history, bounds>>

\* The job that was not taken is dropped, and its permit with it.
NotTaken(c) ==
  /\ active' = active - 1
  /\ Goto(c, "abandon")
  /\ UNCHANGED <<disk, keyOf, unrecorded, pool, threads, prompts, mine, drain, history,
                 bounds>>

Pass(c, label) ==
  /\ Goto(c, label)
  /\ UNCHANGED <<disk, keyOf, unrecorded, active, pool, threads, prompts, mine, drain,
                 history, bounds>>

\* submit reads the readiness, clones the sender, and sends, each on its own.
Ready(c) == At(c, "ready") /\ readiness = "Ready" /\ Pass(c, "clone")
NotReady(c) == At(c, "ready") /\ readiness # "Ready" /\ NotTaken(c)
CloneSender(c) == At(c, "clone") /\ sender /\ Pass(c, "send")
SenderGone(c) == At(c, "clone") /\ ~sender /\ NotTaken(c)

\* The queue has a place, and a thread that may take from it.
Sendable == Len(queue) < QueuePlaces /\ \E w \in Worker : worker[w] \notin Dead

Send(c) ==
  /\ At(c, "send") /\ Sendable
  /\ queue' = Append(queue, mine[c])
  /\ pending' = pending + 1
  /\ started' = started \cup {mine[c]}
  /\ Return(c)
  /\ UNCHANGED <<disk, keyOf, unrecorded, active, readiness, sender, threads, prompts,
                 drain, ran, given, bounds>>

\* Backpressure, or no thread is left.
SendRefused(c) == At(c, "send") /\ ~Sendable /\ NotTaken(c)

\* What abandon requires of the record it removes.
Abandonable(c) == record[keyOf[mine[c]]] = Active(mine[c])

\* The call is refused; the key is free again ...
Abandon(c) ==
  /\ At(c, "abandon") /\ Abandonable(c)
  /\ record' = [record EXCEPT ![keyOf[mine[c]]] = NoRecord]
  /\ Return(c)
  /\ UNCHANGED <<kept, ended, keyOf, unrecorded, active, pool, threads, prompts, drain,
                 history, bounds>>

\* ... or, when that fails, may keep a record nobody is behind.
AbandonFails(c) ==
  /\ "remove" \in Failing
  /\ At(c, "abandon")
  /\ \/ Abandonable(c) /\ record' = [record EXCEPT ![keyOf[mine[c]]] = NoRecord]
     \/ UNCHANGED record
  /\ Return(c)
  /\ UNCHANGED <<kept, ended, keyOf, unrecorded, active, pool, threads, prompts, drain, history,
                 bounds>>

-----------------------------------------------------------------------------
(* A worker and the job it runs.                                            *)

\* Mutant: no job is taken once a drain began.
TakeableReady(w) == worker[w] = "recv" /\ queue # <<>> /\ readiness = "Ready"

Takeable(w) == worker[w] = "recv" /\ queue # <<>>

Take(w) ==
  LET r == Head(queue) IN
  /\ Takeable(w)
  /\ queue' = Tail(queue)
  /\ job' = [job EXCEPT ![w] = r]
  /\ worker' = [worker EXCEPT ![w] = "prompt"]
  /\ ran' = [ran EXCEPT ![keyOf[r]] = @ \cup {r}]
  /\ UNCHANGED <<disk, keyOf, unrecorded, active, readiness, sender, pending, prompts,
                 calls, drain, started, given, bounds>>

Step(w, from, to) == worker[w] = from /\ worker' = [worker EXCEPT ![w] = to]

\* The session publishes an event of the prompt to the subscription.
Publish(w) ==
  /\ worker[w] = "prompt" /\ sent[job[w]] < MaxEvents
  /\ sent' = [sent EXCEPT ![job[w]] = @ + 1]
  /\ UNCHANGED <<disk, keyOf, unrecorded, active, pool, threads, forwarded, calls,
                 drain, history, bounds>>

\* The prompt is over; its last event, result or error, was published.  After
\* an error the worker appends a terminal event of its own.
PromptEnds(w) ==
  /\ Step(w, "prompt", "join") \/ Step(w, "prompt", "emit")
  /\ UNCHANGED <<disk, keyOf, unrecorded, active, pool, job, prompts, calls, drain, history,
                 bounds>>

\* An event that cannot be appended is lost.
Unappended == "append" \in Failing

\* The end of a request's stream, unless it has one.
End(r) ==
  \/ ended' = [ended EXCEPT ![r] = TRUE]
  \/ Unappended /\ UNCHANGED ended

\* It does so beside the forwarder; the second of the two is refused.
EmitError(w) ==
  /\ Step(w, "emit", "join")
  /\ End(job[w])
  /\ UNCHANGED <<record, kept, keyOf, unrecorded, active, pool, job, prompts, calls, drain,
                 history, bounds>>

\* The forwarder of a running prompt appends the next event; a stream that
\* ended refuses it.
Forward(w) ==
  LET r == job[w] IN
  /\ worker[w] \in {"prompt", "emit", "join", "panicked"}
  /\ forwarded[r] < sent[r]
  /\ forwarded' = [forwarded EXCEPT ![r] = @ + 1]
  /\ \/ ~ended[r] /\ kept' = [kept EXCEPT ![r] = @ + 1]
     \/ (ended[r] \/ Unappended) /\ UNCHANGED kept
  /\ UNCHANGED <<record, ended, keyOf, unrecorded, active, pool, threads, sent,
                 calls, drain, history, bounds>>

\* It stops at the terminal event.
ForwardEnd(w) ==
  LET r == job[w] IN
  /\ worker[w] \in {"emit", "join"}
  /\ forwarded[r] = sent[r]
  /\ forwarded' = [forwarded EXCEPT ![r] = @ + 1]
  /\ End(r)
  /\ UNCHANGED <<record, kept, keyOf, unrecorded, active, pool, threads, sent,
                 calls, drain, history, bounds>>

Forwarded(w) == forwarded[job[w]] > sent[job[w]]

JoinForwarder(w) ==
  /\ Step(w, "join", "complete") /\ Forwarded(w)
  /\ UNCHANGED <<disk, keyOf, unrecorded, active, pool, job, prompts, calls, drain, history,
                 bounds>>

\* The result is recorded under the key ...
Complete(w) ==
  LET r == job[w] IN
  /\ Step(w, "complete", "release")
  /\ record[keyOf[r]] = Active(r)
  /\ record' = [record EXCEPT ![keyOf[r]] = Completed(r)]
  /\ UNCHANGED <<kept, ended, keyOf, unrecorded, active, pool, job, prompts, calls, drain,
                 history, bounds>>

\* Mutant: a result that cannot be recorded gives the key up.
CompleteFailsFrees(w) ==
  LET r == job[w] IN
  /\ "complete" \in Failing
  /\ Step(w, "complete", "release")
  /\ record' = [record EXCEPT ![keyOf[r]] = NoRecord]
  /\ unrecorded' = [unrecorded EXCEPT ![keyOf[r]] = r]
  /\ UNCHANGED <<kept, ended, keyOf, active, pool, job, prompts, calls, drain, history,
                 bounds>>

\* ... or, when that fails, before or after the record was replaced, in memory.
CompleteFails(w) ==
  LET r == job[w] IN
  /\ "complete" \in Failing
  /\ Step(w, "complete", "release")
  /\ \/ record[keyOf[r]] = Active(r) /\ record' = [record EXCEPT ![keyOf[r]] = Completed(r)]
     \/ UNCHANGED record
  /\ unrecorded' = [unrecorded EXCEPT ![keyOf[r]] = r]
  /\ UNCHANGED <<kept, ended, keyOf, active, pool, job, prompts, calls, drain, history,
                 bounds>>

\* The job is dropped, and its permit with it.
Release(w) ==
  /\ Step(w, "release", "pop")
  /\ active' = active - 1
  /\ UNCHANGED <<disk, keyOf, unrecorded, pool, job, prompts, calls, drain, history, bounds>>

\* Mutant: an ended job stays counted.
PopUncounted(w) ==
  /\ Step(w, "pop", "recv")
  /\ job' = [job EXCEPT ![w] = NoRequest]
  /\ UNCHANGED <<disk, keyOf, unrecorded, active, pool, prompts, calls, drain, history,
                 bounds>>

Pop(w) ==
  /\ Step(w, "pop", "recv")
  /\ pending' = pending - 1
  /\ job' = [job EXCEPT ![w] = NoRequest]
  /\ UNCHANGED <<disk, keyOf, unrecorded, active, readiness, sender, queue, prompts, calls,
                 drain, history, bounds>>

\* The queue when thread w takes no more jobs: the last one drops it.
Left(w) == IF \A v \in Worker \ {w} : worker[v] \in Dead THEN <<>> ELSE queue

\* Mutant: a thread stops at the drain, whatever is queued.
ExitAtDrain(w) ==
  /\ Step(w, "recv", "exited")
  /\ ~sender
  /\ queue' = Left(w)
  /\ UNCHANGED <<disk, keyOf, unrecorded, active, readiness, sender, pending, job, prompts,
                 calls, drain, history, bounds>>

\* Every sender is gone and the queue is empty.
Exit(w) ==
  /\ Step(w, "recv", "exited")
  /\ queue = <<>> /\ ~sender /\ \A c \in Caller : ~At(c, "send")
  /\ UNCHANGED <<disk, keyOf, unrecorded, active, pool, job, prompts, calls, drain, history,
                 bounds>>

\* A prompt that panics ends its thread: its permit is given back, and those of
\* the jobs dropped with the queue.
Panic(w) ==
  /\ panics < MaxPanics
  /\ Step(w, "prompt", "panicked")
  /\ queue' = Left(w)
  /\ active' = active - 1 - (Len(queue) - Len(queue'))
  /\ panics' = panics + 1
  /\ UNCHANGED <<disk, keyOf, unrecorded, readiness, sender, pending, job, prompts, calls,
                 drain, history, restarts>>

-----------------------------------------------------------------------------
(* The drain, which serve starts once, and a daemon that stops anywhere.     *)

DrainKeeps ==
  UNCHANGED <<disk, keyOf, unrecorded, active, pending, queue, threads, prompts, calls,
              history, bounds>>

DrainStarts ==
  /\ drain = "no"
  /\ drain' = "wait" /\ readiness' = "Draining" /\ UNCHANGED sender
  /\ DrainKeeps

Idle == pending = 0

DrainWaits ==
  /\ drain = "wait" /\ Idle
  /\ drain' = "take" /\ UNCHANGED <<readiness, sender>>
  /\ DrainKeeps

DrainTakesSender ==
  /\ drain = "take"
  /\ drain' = "join" /\ sender' = FALSE /\ UNCHANGED readiness
  /\ DrainKeeps

DrainJoins ==
  /\ drain = "join" /\ \A w \in Worker : worker[w] = "exited"
  /\ drain' = "done" /\ readiness' = "Stopped" /\ UNCHANGED sender
  /\ DrainKeeps

\* Only what is on disk outlives the daemon.
Restart ==
  /\ restarts < MaxRestarts
  /\ restarts' = restarts + 1
  /\ unrecorded' = [k \in Key |-> NoRequest]
  /\ active' = 0
  /\ readiness' = "Ready" /\ sender' = TRUE /\ pending' = 0 /\ queue' = <<>>
  /\ worker' = [w \in Worker |-> "recv"] /\ job' = [w \in Worker |-> NoRequest]
  /\ pc' = [c \in Caller |-> "idle"] /\ mine' = [c \in Caller |-> NoRequest]
  /\ sent' = [r \in Request |-> 0] /\ forwarded' = [r \in Request |-> 0]
  /\ drain' = "no" /\ started' = {}
  /\ UNCHANGED <<disk, keyOf, ran, given, panics>>

-----------------------------------------------------------------------------
Begin(c) ==
  \E k \in Key : BeginStart(c, k) \/ BeginUnwritten(c, k) \/ BeginUnreadable(c, k)
                 \/ BeginReattach(c, k) \/ BeginCompleted(c, k)

Proceed(c) ==
  \/ Lookup(c) \/ Reserve(c) \/ OverQuota(c) \/ Ready(c) \/ NotReady(c) \/ CloneSender(c)
  \/ SenderGone(c) \/ Send(c) \/ SendRefused(c) \/ Abandon(c) \/ AbandonFails(c)

Run(w) ==
  \/ Take(w) \/ PromptEnds(w) \/ EmitError(w) \/ JoinForwarder(w) \/ Complete(w) \/ CompleteFails(w)
  \/ Release(w) \/ Pop(w) \/ Exit(w)

Forwarding(w) == Forward(w) \/ ForwardEnd(w)

DrainProceeds == DrainWaits \/ DrainTakesSender \/ DrainJoins

Next ==
  \/ \E c \in Caller : Begin(c) \/ Proceed(c)
  \/ \E w \in Worker : Run(w) \/ Forwarding(w) \/ Publish(w) \/ Panic(w)
  \/ DrainStarts \/ DrainProceeds \/ Restart

Spec == Init /\ [][Next]_vars

\* Threads that run keep running, and prompts come to an end: a call goes on to
\* its answer, a worker to its next job, a forwarder to the last event, and the
\* drain to what it waits for.
FairSpec ==
  /\ Spec
  /\ \A c \in Caller : WF_vars(Proceed(c))
  /\ \A w \in Worker : WF_vars(Run(w)) /\ WF_vars(Forwarding(w))
  /\ WF_vars(DrainProceeds)

-----------------------------------------------------------------------------
(* What holds.                                                              *)

\* Every variable has its type; neither the queue nor the tenant's requests
\* outgrow their limits.
TypeOK ==
  /\ record \in [Key -> Record \cup {NoRecord}]
  /\ kept \in [Request -> 0..MaxEvents] /\ ended \in [Request -> BOOLEAN]
  /\ keyOf \in Seq(Key) /\ Len(keyOf) <= MaxRequests
  /\ unrecorded \in [Key -> Request \cup {NoRequest}]
  /\ active \in 0..MaxActive
  /\ readiness \in {"Ready", "Draining", "Stopped"} /\ sender \in BOOLEAN
  /\ pending \in Nat
  /\ queue \in Seq(Request) /\ Len(queue) <= QueuePlaces
  /\ worker \in [Worker -> {"recv", "release", "pop"} \cup Prompting \cup Dead]
  /\ job \in [Worker -> Request \cup {NoRequest}]
  /\ sent \in [Request -> 0..MaxEvents] /\ forwarded \in [Request -> 0..MaxEvents + 1]
  /\ pc \in [Caller -> {"idle", "lookup"} \cup Holding]
  /\ mine \in [Caller -> Request \cup {NoRequest}]
  /\ drain \in {"no", "wait", "take", "join", "done"}
  /\ started \subseteq Request
  /\ ran \in [Key -> SUBSET Request] /\ given \in [Key -> SUBSET Request]
  /\ restarts \in 0..MaxRestarts /\ panics \in 0..MaxPanics

\* A key is prompted at most once, and every result answered under it is that
\* request's: whatever is retried, refused, restarted or not written.
OneRequestPerKey == \A k \in Key : \A r, q \in ran[k] \cup given[k] : r = q

\* A recorded result stays, and with it the answer to every later retry.
CompletedForGood ==
  [][\A k \in Key : record[k].state = "completed" => record'[k] = record[k]]_vars

\* The promise under a key: its record says whose it is, and a result is on disk or
\* only in this daemon's memory.
Keyed == INSTANCE KeyedPrompts WITH
  drawn <- Len(keyOf),
  holder <- [k \in Key |-> record[k].request],
  prompted <- ran,
  result <- [k \in Key |-> IF record[k].state = "completed" THEN "disk"
                           ELSE IF unrecorded[k] # NoRequest THEN "memory" ELSE "none"]

\* The service keeps the promise of KeyedPrompts: whatever is retried, refused, lost or
\* not written, a key is given up only before its prompt, prompted once, and every
\* retry that is answered gets that prompt's result.
KeyedSpec == Keyed!Spec

\* The tenant's requests are counted as long as a call or a job holds their
\* permit: refused, finished and panicked ones give it back.
PermitsHeld ==
  active = Cardinality({c \in Caller : pc[c] \in Permitted}) + Len(queue)
           + Cardinality({w \in Worker : worker[w] \in Prompting \cup {"release"}})

Done(r) == \E k \in Key : record[k] = Completed(r) \/ unrecorded[k] = r

\* A request answered as started is queued, run or done, also when a drain came
\* between its submit's steps: only a panic takes one away.
StartedGoesOn ==
  \A r \in started :
    \/ Done(r)
    \/ \E i \in 1..Len(queue) : queue[i] = r
    \/ \E w \in Worker : job[w] = r
    \/ \E w \in Worker : worker[w] = "panicked"

\* The stream of a request that is done has its end: who polls it comes to it.
DoneHasEnded == \A r \in Request : Done(r) => ended[r]

\* A request answered as started is done one day, in a daemon that is not stopped
\* first and loses no thread to a panic.
StartedIsDone == \A r \in Request : r \in started ~> Done(r) \/ r \notin started \/ panics > 0

\* A drain comes to its end, unless the daemon is stopped or lost a thread.
DrainEnds == drain = "wait" ~> drain # "wait" \/ panics > 0
=============================================================================
