--------------------------- MODULE CompletionLedger ---------------------------
(* What a session still owes its user (rust/completion): completion.json holds *)
(* the requests and their tasks, operator-asks.json, one for the machine, what *)
(* the operator was asked and what he answered. A turn plans requests, works   *)
(* on tasks and has them reviewed; the operator adds, pauses, resumes, cancels,*)
(* reports defects and answers, from other processes, at any time.             *)
(*                                                                             *)
(* Every change of completion.json is store::update: one step under a file     *)
(* lock, refused when its caller names another revision. Between the steps of  *)
(* one operation the others run, and the process may stop.                     *)
EXTENDS Naturals, FiniteSets

CONSTANTS
  Session,       \* session directories
  Request,       \* the requests of a session, numbered as they are captured
  Task,          \* ids of tasks
  Ask,           \* ids of asks
  Word,          \* what may be asked, up to same_words
  None,
  MaxRevision    \* bound: how often the state of each session is written

ASSUME RequestAssumption == Request \subseteq Nat
ASSUME IdAssumption == Request \cap Task = {}
ASSUME BoundAssumption == MaxRevision \in [Session -> Nat]

Terminal == {"Done", "Cancelled"}
\* Pending is also in_progress and verification_requested: only the agent's own
\* display of its plan tells them apart.
Status == {"Pending", "Done", "Blocked", "Paused", "Cancelled"}

\* completed is completed_at; estimates and other dates are left out.
WorkRequest == [planned : BOOLEAN, paused : BOOLEAN, covered : BOOLEAN, completed : BOOLEAN]
\* A task whose defect_of is not None is of kind defect. ask and answer are its
\* operator_request: answer names the ask of the register it answers.
WorkTask == [request : Request, defect_of : Request \cup Task \cup {None},
             origin : {"User", "Agent"}, status : Status,
             ask : Word \cup {None}, answer : Ask \cup {None}]
\* word is the ask in its first words, wordings are those of its occurrences.
OperatorAsk == [word : Word, wordings : SUBSET Word, answered : BOOLEAN]

ASSUME NoneAssumption ==
  /\ None \notin Request \cup Task \cup Ask \cup Word
  /\ None \notin WorkRequest /\ None \notin WorkTask /\ None \notin OperatorAsk

At == {"idle", "work", "apply", "commit", "hand"}

VARIABLES
  request,    \* per session and request: None before it is captured
  task,       \* per session and id: None before it is a task
  revision,   \* per session
  asks,       \* per id: the ask in the register, None before
  place,      \* per session and task: the ask whose occurrence names it last (for_task)
  at,         \* per session: where its conversation is
  read,       \* ... the revision it read
  seen,       \* ... the register it read, while a review is applied and committed
  links,      \* ... what it will write to the register, or hand to tasks
  operator    \* the operator's answer under way

state == <<request, task, revision>>
register == <<asks, place>>
conversation == <<at, read, seen, links>>
vars == <<state, register, conversation, operator>>

NoAsks == [a \in Ask |-> None]
\* An answer under way: its ask, the session and revision it was given from
\* (None for one given to the register), and the places it is still to reach.
Idle == [ask |-> None, session |-> None, revision |-> 0, recorded |-> FALSE, left |-> {}]

Init ==
  /\ request = [s \in Session |-> [q \in Request |-> None]]
  /\ task = [s \in Session |-> [t \in Task |-> None]]
  /\ revision = [s \in Session |-> 0]
  /\ asks = NoAsks
  /\ place = [s \in Session |-> [t \in Task |-> None]]
  /\ at = [s \in Session |-> "idle"]
  /\ read = [s \in Session |-> 0]
  /\ seen = [s \in Session |-> NoAsks]
  /\ links = [s \in Session |-> {}]
  /\ operator = Idle

-----------------------------------------------------------------------------
(* Reading a state.                                                           *)

Requests(s) == {q \in Request : request[s][q] # None}
Tasks(s) == {t \in Task : task[s][t] # None}
Free(s) == Task \ Tasks(s)
Open(s) == {t \in Tasks(s) : task[s][t].status \notin Terminal}
OwnedIn(T, q) == {t \in Task : T[t] # None /\ T[t].request = q}
Owned(s, q) == OwnedIn(task[s], q)
Waits(w) == w.status = "Blocked" /\ w.ask # None /\ w.answer = None

Active(s) == {q \in Requests(s) : ~request[s][q].covered /\ ~request[s][q].paused}
Unplanned(s) == {q \in Requests(s) : ~request[s][q].planned /\ ~request[s][q].paused}

NewTask(q, of, who, st) ==
  [request |-> q, defect_of |-> of, origin |-> who, status |-> st, ask |-> None, answer |-> None]

\* A session at its bound begins nothing, for it could write none of it.
Writable(s) == revision[s] < MaxRevision[s]

\* store::update: whatever it leaves of requests and tasks, the revision moves.
Update(s, requests, tasks) ==
  /\ Writable(s)
  /\ revision' = [revision EXCEPT ![s] = @ + 1]
  /\ request' = [request EXCEPT ![s] = requests]
  /\ task' = [task EXCEPT ![s] = tasks]

Quiet == UNCHANGED <<register, conversation, operator>>

-----------------------------------------------------------------------------
(* Requests and tasks: what the operator does, from a state it has just read. *)

\* todo add, or a new turn.
Capture(s, q) ==
  /\ q \notin Requests(s) /\ \A p \in Requests(s) : p < q
  /\ Update(s, [request[s] EXCEPT ![q] =
                  [planned |-> FALSE, paused |-> FALSE, covered |-> FALSE, completed |-> FALSE]],
            task[s])
  /\ Quiet

\* Every control ends by covering the requests whose tasks are all cancelled.
Swept(R, T) ==
  [q \in Request |->
     IF /\ R[q] # None /\ OwnedIn(T, q) # {}
        /\ \A t \in OwnedIn(T, q) : T[t].status = "Cancelled"
     THEN [R[q] EXCEPT !.covered = TRUE] ELSE R[q]]

\* Mutant: tasks that ended move too.
MovedEnded(T, chosen, st) ==
  [t \in Task |-> IF t \in chosen THEN [T[t] EXCEPT !.status = st] ELSE T[t]]

\* The open tasks of T that are in chosen take a status.
Moved(T, chosen, st) ==
  [t \in Task |-> IF t \in chosen /\ T[t].status \notin Terminal
                  THEN [T[t] EXCEPT !.status = st] ELSE T[t]]

Controlled(s, R, T) == Update(s, Swept(R, T), T) /\ Quiet

ControlRequest(s, q, paused, st) ==
  /\ q \in Requests(s) /\ ~request[s][q].covered
  /\ Controlled(s, [request[s] EXCEPT ![q].paused = paused], Moved(task[s], Owned(s, q), st))

PauseRequest(s, q) == ControlRequest(s, q, TRUE, "Paused")
ResumeRequest(s, q) == ControlRequest(s, q, FALSE, "Pending")

\* Mutant: a request cancelled before it was planned is left without a task.
CancelRequestBare(s, q) ==
  /\ q \in Requests(s) /\ ~request[s][q].covered
  /\ Controlled(s, [request[s] EXCEPT ![q] = [@ EXCEPT !.planned = TRUE, !.paused = FALSE, !.covered = TRUE]],
                Moved(task[s], Owned(s, q), "Cancelled"))

\* A request cancelled before it was planned gets a cancelled task to hold.
CancelRequest(s, q) ==
  /\ q \in Requests(s) /\ ~request[s][q].covered
  /\ LET R == [request[s] EXCEPT ![q] = [@ EXCEPT !.planned = TRUE, !.paused = FALSE, !.covered = TRUE]]
         T == Moved(task[s], Owned(s, q), "Cancelled")
     IN \/ request[s][q].planned /\ Controlled(s, R, T)
        \/ /\ ~request[s][q].planned
           /\ \E t \in Free(s) : Controlled(s, R, [T EXCEPT ![t] = NewTask(q, None, "User", "Cancelled")])

ControlTask(s, t, st) ==
  /\ t \in Open(s)
  /\ st = "Pending" => ~request[s][task[s][t].request].paused
  /\ Controlled(s, request[s], Moved(task[s], {t}, st))

-----------------------------------------------------------------------------
(* A defect reopens the task, or the request, that it was first reported of.  *)

IsTask(T, x) == x \in Task /\ T[x] # None
\* Every link of the chain of defects is followed: DefectOfOriginal says there is one.
Original(T, x) == IF IsTask(T, x) /\ T[x].defect_of # None THEN T[x].defect_of ELSE x

NotCancelled(T, x) == IsTask(T, x) => T[x].status # "Cancelled"

Reopenable(R, T, x) ==
  LET o == Original(T, x) IN
  /\ IsTask(T, x) \/ (x \in Request /\ R[x] # None)
  /\ NotCancelled(T, x) /\ NotCancelled(T, o)
  /\ o \in Request /\ R[o].planned => \E t \in OwnedIn(T, o) : T[t].status # "Cancelled"

Owner(T, o) == IF IsTask(T, o) THEN T[o].request ELSE o

\* Mutant: a defect resumes what the operator paused.
RepairResumes(R, T, o) == "Pending"

\* What reopened and repairing tasks become: an operator's pause stays in force.
RepairStatus(R, T, o) ==
  IF R[Owner(T, o)].paused \/ (IsTask(T, o) /\ T[o].status = "Paused") THEN "Paused" ELSE "Pending"

Reopened(R, T, o) ==
  [t \in Task |->
     IF /\ T[t] # None /\ (t = o \/ T[t].request = o)
        /\ T[t].status \notin {"Cancelled", "Paused"}
     THEN [T[t] EXCEPT !.status = RepairStatus(R, T, o)] ELSE T[t]]

\* Mutant: reopened work keeps the time it was completed.
UncoveredOnly(R, q) == [R EXCEPT ![q] = [@ EXCEPT !.covered = FALSE]]

\* Reopened work is not complete.
Uncovered(R, q) == [R EXCEPT ![q] = [@ EXCEPT !.covered = FALSE, !.completed = FALSE]]

ReportDefect(s, x) ==
  LET R == request[s]
      T == task[s]
      o == Original(T, x)
  IN /\ Reopenable(R, T, x)
     /\ \E t \in Free(s) :
          Update(s, Uncovered(R, Owner(T, o)),
                 [Reopened(R, T, o) EXCEPT ![t] =
                    NewTask(Owner(T, o), o, "User", RepairStatus(R, T, o))])
     /\ Quiet

\* observed_blocker and clear_runtime_blocker: why a turn stopped is written.
WriteBlocker(s) == Update(s, request[s], task[s]) /\ Quiet

\* A child session takes over what its parent owes (inherit).
Inherit(s, child) ==
  /\ child # s /\ Requests(child) = {} /\ Tasks(child) = {}
  /\ Update(child, request[s], task[s])
  /\ Quiet

-----------------------------------------------------------------------------
(* A turn: plan every request, work, have the work reviewed.                  *)

Goto(s, phase) == at' = [at EXCEPT ![s] = phase]
Step(s, phase) == Goto(s, phase) /\ UNCHANGED <<read, seen, links>>
\* Whatever it read or had still to write is gone.
Leave(s, phase) ==
  /\ Goto(s, phase)
  /\ seen' = [seen EXCEPT ![s] = NoAsks]
  /\ links' = [links EXCEPT ![s] = {}]
  /\ read' = [read EXCEPT ![s] = 0]
Elsewhere == UNCHANGED <<register, operator>>

\* plan_pending_requests inspects the first request to plan and records its plan:
\* open tasks the user withdrew, and one item, of work or a defect. The plan is
\* for the revision that was inspected, so both are one step.
First(s) == {q \in Unplanned(s) : \A p \in Unplanned(s) : q <= p}
Plan(s) ==
  /\ at[s] = "idle"
  /\ \E q \in First(s), withdrawn \in SUBSET Open(s), t \in Free(s) :
       LET R == request[s]
           T == Moved(task[s], withdrawn, "Cancelled")
       IN \/ Update(s, [R EXCEPT ![q].planned = TRUE],
                    [T EXCEPT ![t] = NewTask(q, None, "User", "Pending")])
          \/ \E x \in Requests(s) \cup Tasks(s) :
               LET o == Original(T, x) IN
               /\ Reopenable(R, T, x)
               /\ Update(s, [Uncovered(R, Owner(T, o)) EXCEPT ![q].planned = TRUE],
                         [Reopened(R, T, o) EXCEPT ![t] = NewTask(q, o, "User", RepairStatus(R, T, o))])
  /\ Quiet

\* Every request is planned or paused: the agent works.
BeginWork(s) ==
  /\ at[s] = "idle" /\ Writable(s) /\ Unplanned(s) = {} /\ Requests(s) # {}
  /\ Step(s, "work")
  /\ UNCHANGED state /\ Elsewhere

\* todo init and append: to the latest request that is neither covered nor paused.
Latest(s) == {q \in Active(s) : \A p \in Active(s) : p <= q}
Append(s) ==
  /\ at[s] = "work"
  /\ \E q \in Latest(s), t \in Free(s) :
       Update(s, request[s], [task[s] EXCEPT ![t] = NewTask(q, None, "Agent", "Pending")])
  /\ Quiet

\* todo start and done, of one task or of those of a phase; done only asks for
\* verification.
Selected(s) == {chosen \in SUBSET Tasks(s) : chosen # {}}
Advance(s) ==
  /\ at[s] = "work"
  /\ \E chosen \in Selected(s) :
       /\ \A t \in chosen : task[s][t].status # "Paused"
       /\ Update(s, request[s], Moved(task[s], chosen, "Pending"))
  /\ Quiet

\* todo drop and rm: only what the agent added itself.
Withdraw(s) ==
  /\ at[s] = "work"
  /\ \E chosen \in Selected(s) :
       /\ \A t \in chosen : task[s][t].origin = "Agent"
       /\ Update(s, request[s], Moved(task[s], chosen, "Cancelled"))
  /\ Quiet

\* A turn ends, of itself, by an error, or with its process.
EndTurn(s) ==
  /\ at[s] \in {"work", "apply", "hand"}
  /\ Leave(s, "idle")
  /\ UNCHANGED state /\ Elsewhere

\* verify_completion: the state is read and inspected, then the register is read.
\* The review holds for the revision read, so one step reads both. Blockers are
\* left out, so a session with nothing else to do is reviewed as one that has one.
BeginReview(s) ==
  /\ at[s] = "work" /\ Writable(s)
  /\ Goto(s, "apply")
  /\ read' = [read EXCEPT ![s] = revision[s]]
  /\ seen' = [seen EXCEPT ![s] = asks]
  /\ UNCHANGED <<state, links>> /\ Elsewhere

\* Refused: the revision moved, or the review does not hold up. The turn goes on.
RefuseReview(s) ==
  /\ at[s] = "apply"
  /\ Leave(s, "work")
  /\ UNCHANGED state /\ Elsewhere

-----------------------------------------------------------------------------
(* An accepted review. Evidence is left out: a verdict is one the evidence    *)
(* may carry, blocked among them.                                             *)

UnderReview(s) == {t \in Open(s) : task[s][t].status # "Paused"}
Compared(s) ==
  {q \in Requests(s) : request[s][q].planned /\ ~request[s][q].covered /\ ~request[s][q].paused}

\* What a verdict says of a task: done, work remains, blocked by a failure, or
\* blocked on an ask, for which it gives the words and the place in the register.
Verdict ==
  [says : {"Done", "Continue", "Failed"}, word : {None}, ask : {None}]
    \cup [says : {"Ask"}, word : Word, ask : Ask]
Asking(verdict) == {t \in DOMAIN verdict : verdict[t].says = "Ask"}

Known(r, a) == r[a] # None
SameWords(r, w) == {a \in Ask : Known(r, a) /\ (r[a].word = w \/ w \in r[a].wordings)}

\* An ask no register and no other review holds.
Unused == {a \in Ask : asks[a] = None /\ \A s \in Session : \A l \in links[s] : l.ask # a}

\* resolve: the ask the review names, or one in the same words, while it is not
\* answered; a new one when there is none, or a step failed since the answer.
\* Tasks that ask in the same words share a new ask.
Resolved(s, verdict, t) ==
  LET r == seen[s]
      v == verdict[t]
  IN \/ Known(r, v.ask) /\ ~r[v.ask].answered
     \/ /\ v.ask \in Unused
        /\ \/ \A a \in SameWords(r, v.word) : r[a].answered
           \/ \E a \in Ask : Known(r, a) /\ r[a].answered
        /\ \A u \in Asking(verdict) : verdict[u].ask \in Unused =>
             (verdict[u].ask = v.ask <=> verdict[u].word = v.word)

\* The words a task keeps: the register's own for an ask it holds.
Words(s, v) == IF Known(seen[s], v.ask) THEN seen[s][v.ask].word ELSE v.word

\* record: an ask that was not answered is dropped with the block.
Unblocked(w, st) == [w EXCEPT !.status = st, !.ask = IF w.answer = None THEN None ELSE @]
Judged(s, w, v) ==
  CASE v.says = "Done" -> Unblocked(w, "Done")
    [] v.says = "Continue" -> Unblocked(w, "Pending")
    [] v.says = "Failed" -> [w EXCEPT !.status = "Blocked"]
    [] v.says = "Ask" -> [w EXCEPT !.status = "Blocked", !.ask = Words(s, v), !.answer = None]

Covers(T, q, covered) == q \in covered /\ \A t \in OwnedIn(T, q) : T[t].status \in Terminal
\* A request not covered although its every task ended lacks one: it is added.
Lacking(s, T, covered) ==
  {q \in Compared(s) \ covered : \A t \in OwnedIn(T, q) : T[t].status \in Terminal}

ApplyReview(s) ==
  /\ at[s] = "apply" /\ revision[s] = read[s]
  /\ \E verdict \in [UnderReview(s) -> Verdict], covered \in SUBSET Compared(s) :
       LET T == [t \in Task |-> IF t \in UnderReview(s) THEN Judged(s, task[s][t], verdict[t])
                                ELSE task[s][t]]
           R == [q \in Request |->
                   IF q \in Compared(s) /\ Covers(T, q, covered)
                   THEN [request[s][q] EXCEPT !.covered = TRUE,
                           !.completed = @ \/ \E t \in OwnedIn(T, q) : T[t].status = "Done"]
                   ELSE request[s][q]]
       IN /\ \A t \in Asking(verdict) : Resolved(s, verdict, t)
          /\ \E added \in [Lacking(s, T, covered) -> Free(s)] :
               /\ \A p, q \in DOMAIN added : added[p] = added[q] => p = q
               /\ Update(s, R, [t \in Task |->
                    IF \E q \in DOMAIN added : added[q] = t
                    THEN NewTask(CHOOSE q \in DOMAIN added : added[q] = t, None, "User", "Pending")
                    ELSE T[t]])
          /\ links' = [links EXCEPT ![s] =
                         {[task |-> t, ask |-> verdict[t].ask, word |-> verdict[t].word]
                            : t \in Asking(verdict)}]
          /\ seen' = IF Asking(verdict) = {} THEN [seen EXCEPT ![s] = NoAsks] ELSE seen
          /\ read' = [read EXCEPT ![s] = 0]
          /\ Goto(s, IF Asking(verdict) = {} THEN "work" ELSE "commit")
  /\ Elsewhere

\* The register r with the asks of the links put.
With(r, put) ==
  [a \in Ask |->
     LET said == {l.word : l \in {l \in put : l.ask = a}} IN
     IF said = {} THEN r[a]
     ELSE IF Known(r, a) THEN [r[a] EXCEPT !.wordings = @ \cup said]
     ELSE [word |-> CHOOSE w \in said : TRUE, wordings |-> said, answered |-> FALSE]]

\* Mutant: the asks are put into the register the review read, which is written.
RegisterRead(s) == seen[s]

\* They are put into the register as it is by then.
Register(s) == asks

\* Linker::commit: the new asks, and where each ask was put; nothing for a task
\* that is on its ask already.
CommitLinks(s) ==
  /\ at[s] = "commit"
  /\ LET put == {l \in links[s] : place[s][l.task] # l.ask} IN
     /\ asks' = With(Register(s), put)
     /\ place' = [place EXCEPT ![s] = [t \in Task |->
          IF \E l \in put : l.task = t THEN (CHOOSE l \in put : l.task = t).ask ELSE @[t]]]
  /\ Leave(s, "work")
  /\ UNCHANGED <<state, operator>>

\* The register cannot be locked or written, which rejects the review after the
\* session took it, or the process stops.
CommitFails(s, phase) ==
  /\ at[s] = "commit"
  /\ Leave(s, phase)
  /\ UNCHANGED <<state, register, operator>>

-----------------------------------------------------------------------------
(* The operator's answer.                                                     *)

\* deliver: a task that waits takes the answer, if there is one, whatever its own
\* words are.
Handed(T, t, a) ==
  IF T[t] # None /\ Waits(T[t]) /\ Known(asks, a) /\ asks[a].answered
  THEN [T EXCEPT ![t] = [@ EXCEPT !.status = "Pending", !.answer = a]] ELSE T

\* The places whose task the ask is the last one to name (waiting_places).
Places(a) == {p \in Session \X Task : place[p[1]][p[2]] = a}

Answered(a) ==
  /\ Known(asks, a) /\ ~asks[a].answered
  /\ asks' = [asks EXCEPT ![a].answered = TRUE]

Delivering(a, s, n, left) ==
  operator' = IF left = {} THEN Idle
              ELSE [ask |-> a, session |-> s, revision |-> n, recorded |-> TRUE, left |-> left]

\* asks answer.
AnswerAsk(a) ==
  /\ operator = Idle
  /\ Answered(a)
  /\ Delivering(a, None, 0, Places(a))
  /\ UNCHANGED <<state, place, conversation>>

Named(a, s) ==
  operator' = [ask |-> a, session |-> s, revision |-> revision[s], recorded |-> FALSE, left |-> {}]

Answerable(s, t) == t \in Open(s) /\ task[s][t].ask # None /\ task[s][t].answer = None

\* todo answer: the ask the task waits on ...
NameTask(s, t) ==
  /\ operator = Idle /\ Answerable(s, t)
  /\ place[s][t] # None
  /\ Named(place[s][t], s)
  /\ UNCHANGED <<state, register, conversation>>

\* ... or, for a task the register does not know, one in the same words or a
\* new one.
Adopt(s, t) ==
  /\ operator = Idle /\ Answerable(s, t)
  /\ place[s][t] = None
  /\ LET w == task[s][t].ask
         same == {a \in Ask : Known(asks, a) /\ asks[a].word = w}
     IN \E a \in IF same = {} THEN Unused ELSE same :
          /\ asks' = IF same = {}
                     THEN [asks EXCEPT ![a] = [word |-> w, wordings |-> {w}, answered |-> FALSE]]
                     ELSE asks
          /\ place' = [place EXCEPT ![s][t] = a]
          /\ Named(a, s)
  /\ UNCHANGED <<state, conversation>>

\* The answer is recorded, if neither the session nor the ask moved on.
RecordAnswer ==
  /\ operator.ask # None /\ ~operator.recorded
  /\ revision[operator.session] = operator.revision
  /\ Answered(operator.ask)
  /\ Delivering(operator.ask, operator.session, operator.revision, Places(operator.ask))
  /\ UNCHANGED <<state, place, conversation>>

AnswerRefused ==
  /\ operator.ask # None /\ ~operator.recorded
  /\ operator' = Idle
  /\ UNCHANGED <<state, register, conversation>>

\* It goes to one place after the other; the session it was given from must
\* still be at the revision it was given at.
Stale(s) == operator.session = s /\ revision[s] # operator.revision
Delivered(p) ==
  Delivering(operator.ask, operator.session, operator.revision, operator.left \ {p})

Deliver(s, t) ==
  /\ <<s, t>> \in operator.left /\ ~Stale(s)
  /\ Update(s, request[s], Handed(task[s], t, operator.ask))
  /\ Delivered(<<s, t>>)
  /\ UNCHANGED <<register, conversation>>

\* So it fails then, and for whatever else keeps the session from being written.
DeliverFails(s, t) ==
  /\ <<s, t>> \in operator.left
  /\ Delivered(<<s, t>>)
  /\ UNCHANGED <<state, register, conversation>>

OperatorStops ==
  /\ operator # Idle
  /\ operator' = Idle
  /\ UNCHANGED <<state, register, conversation>>

\* deliver_answers, before work is continued: what the register answers of the
\* tasks that wait is read, then handed to them.
Given(s) ==
  {t \in Tasks(s) : Waits(task[s][t]) /\ place[s][t] # None /\ asks[place[s][t]].answered}
CollectAnswers(s) ==
  /\ at[s] = "idle" /\ Writable(s) /\ Given(s) # {}
  /\ links' = [links EXCEPT ![s] =
       {[task |-> t, ask |-> place[s][t], word |-> None] : t \in Given(s)}]
  /\ Goto(s, "hand")
  /\ UNCHANGED <<state, read, seen>> /\ Elsewhere

HandAnswers(s) ==
  /\ at[s] = "hand"
  /\ Update(s, request[s], [t \in Task |->
       IF \E l \in links[s] : l.task = t
       THEN Handed(task[s], t, (CHOOSE l \in links[s] : l.task = t).ask)[t] ELSE task[s][t]])
  /\ Leave(s, "idle")
  /\ Elsewhere

-----------------------------------------------------------------------------
Operate(s) ==
  \/ \E q \in Request :
       Capture(s, q) \/ PauseRequest(s, q) \/ ResumeRequest(s, q) \/ CancelRequest(s, q)
  \/ \E t \in Task, st \in {"Paused", "Pending", "Cancelled"} : ControlTask(s, t, st)
  \/ \E x \in Request \cup Task : ReportDefect(s, x)
  \/ \E child \in Session : Inherit(s, child)
  \/ WriteBlocker(s)

Turn(s) ==
  \/ Plan(s) \/ BeginWork(s) \/ EndTurn(s)
  \/ Append(s) \/ Advance(s) \/ Withdraw(s)
  \/ BeginReview(s) \/ RefuseReview(s) \/ ApplyReview(s) \/ CommitLinks(s)
  \/ \E phase \in {"idle", "work"} : CommitFails(s, phase)
  \/ CollectAnswers(s) \/ HandAnswers(s)

Answering ==
  \/ \E a \in Ask : AnswerAsk(a)
  \/ \E s \in Session, t \in Task :
       NameTask(s, t) \/ Adopt(s, t) \/ Deliver(s, t) \/ DeliverFails(s, t)
  \/ RecordAnswer \/ AnswerRefused \/ OperatorStops

Next == (\E s \in Session : Operate(s) \/ Turn(s)) \/ Answering

Spec == Init /\ [][Next]_vars

-----------------------------------------------------------------------------
(* What holds.                                                                *)

Link == [task : Task, ask : Ask, word : Word \cup {None}]

\* What validate() asks of a session.
Valid(s) ==
  /\ \A t \in Tasks(s) :
       /\ task[s][t].request \in Requests(s)
       /\ task[s][t].defect_of \in {None} \cup Requests(s) \cup (Tasks(s) \ {t})
  /\ \A q \in Requests(s) :
       /\ request[s][q].planned => Owned(s, q) # {}
       /\ request[s][q].completed => request[s][q].covered

\* Types, and that every operation leaves a session validate() accepts:
\* store::update refuses an outcome that is not, so the operation could never
\* be done.
TypeOK ==
  /\ request \in [Session -> [Request -> WorkRequest \cup {None}]]
  /\ task \in [Session -> [Task -> WorkTask \cup {None}]]
  /\ revision \in [Session -> Nat] /\ read \in [Session -> Nat]
  /\ asks \in [Ask -> OperatorAsk \cup {None}]
  /\ place \in [Session -> [Task -> Ask \cup {None}]]
  /\ at \in [Session -> At]
  /\ seen \in [Session -> [Ask -> OperatorAsk \cup {None}]]
  /\ links \in [Session -> SUBSET Link]
  /\ operator \in [ask : Ask \cup {None}, session : Session \cup {None}, revision : Nat,
                   recorded : BOOLEAN, left : SUBSET (Session \X Task)]
  /\ \A s \in Session : Valid(s)

\* A pause stays in force: no open task of a paused request is anything but
\* paused, whatever was added, reviewed, answered or reopened since.
PausedStopsWork ==
  \A s \in Session : \A t \in Open(s) :
    request[s][task[s][t].request].paused => task[s][t].status = "Paused"

\* A request that counts as completed is covered, its every task ended and one
\* of them was done: a defect takes the completion back.
CompletedIsDone ==
  \A s \in Session : \A q \in Requests(s) : request[s][q].completed =>
    /\ request[s][q].planned /\ request[s][q].covered
    /\ Owned(s, q) \cap Open(s) = {}
    /\ \E t \in Owned(s, q) : task[s][t].status = "Done"

\* What was cancelled stays cancelled; what was done is open again only with a
\* defect reported of it or of its request.
TerminalStays ==
  [][\A s \in Session : \A t \in Tasks(s) :
       /\ task[s][t].status = "Cancelled" => task'[s][t] = task[s][t]
       /\ task[s][t].status = "Done" /\ task'[s][t].status # "Done" =>
            \E u \in Free(s) : /\ task'[s][u] # None
                               /\ task'[s][u].defect_of \in {t, task[s][t].request}]_vars

\* The register keeps every answer a task holds: an answer given while a review was
\* under way outlives the asks that review puts there, though it read the register
\* before. A task that holds an answer was asked something.
AnswerRecorded ==
  \A s \in Session : \A t \in Tasks(s) :
    LET a == task[s][t].answer IN
    a # None => task[s][t].ask # None /\ Known(asks, a) /\ asks[a].answered

\* No defect is of a defect: the search for the original ends.
DefectOfOriginal ==
  \A s \in Session : \A t \in Tasks(s) :
    LET o == task[s][t].defect_of IN
    o # None => o \in Requests(s) \/ (o \in Tasks(s) /\ task[s][o].defect_of = None)

-----------------------------------------------------------------------------
(* What the documentation says and the code does not keep.                    *)

\* An answer is handed to the tasks that wait on its ask (asks/mod.rs:9).
AnswerFitsAsk ==
  \A s \in Session : \A t \in Tasks(s) :
    task[s][t].answer # None => asks[task[s][t].answer].word = task[s][t].ask
=============================================================================
