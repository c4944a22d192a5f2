----------------------- MODULE CompletionLedgerProofs -----------------------
(* Proofs about CompletionLedger, for any sessions, ids, words and bounds.     *)
(*                                                                             *)
(* Everything the properties say of one session is said of three values: its   *)
(* requests R, its tasks T and the register A. One lemma per operation shows    *)
(* that what it makes of R and T is owed as before (Owes) and that what ended   *)
(* stays ended (Stays); the steps of the system only apply these lemmas.        *)
EXTENDS CompletionLedger, TLAPS

-----------------------------------------------------------------------------
(* What is owed.                                                              *)

Requested == [Request -> WorkRequest \cup {None}]
Tasked == [Task -> WorkTask \cup {None}]

\* Task t belongs to a request, is paused with it, is no defect of a defect, and
\* holds only an answer that is recorded.
Sound(R, T, A, t) ==
  /\ R[T[t].request] # None
  /\ R[T[t].request].paused /\ T[t].status \notin Terminal => T[t].status = "Paused"
  /\ T[t].defect_of \in Request => R[T[t].defect_of] # None
  /\ T[t].defect_of \in Task => T[T[t].defect_of] # None /\ T[T[t].defect_of].defect_of = None
  /\ T[t].answer # None => T[t].ask # None /\ A[T[t].answer] # None /\ A[T[t].answer].answered

\* Request q has its tasks, and what is completed is done.
Counted(R, T, q) ==
  /\ R[q].planned => \E t \in Task : T[t] # None /\ T[t].request = q
  /\ R[q].completed =>
       /\ R[q].planned /\ R[q].covered
       /\ \A t \in Task : T[t] # None /\ T[t].request = q => T[t].status \in Terminal
       /\ \E t \in Task : T[t] # None /\ T[t].request = q /\ T[t].status = "Done"

Owes(R, T, A) ==
  /\ R \in Requested /\ T \in Tasked
  /\ \A t \in Task : T[t] # None => Sound(R, T, A, t)
  /\ \A q \in Request : R[q] # None => Counted(R, T, q)

\* From T to U: cancelled tasks stay as they are, done ones are done unless a new
\* task is a defect of them or of their request.
Stays(T, U) ==
  \A t \in Task : T[t] # None =>
    /\ T[t].status = "Cancelled" => U[t] = T[t]
    /\ T[t].status = "Done" /\ U[t].status # "Done" =>
         \E u \in Task : /\ T[u] = None /\ U[u] # None
                         /\ U[u].defect_of \in {t, T[t].request}

\* A request or task that is there is of its type.
LEMMA Kinds ==
  ASSUME NEW R \in Requested, NEW T \in Tasked
  PROVE  /\ \A q \in Request : R[q] # None => R[q] \in WorkRequest
         /\ \A t \in Task : T[t] # None => T[t] \in WorkTask /\ T[t].request \in Request
  BY DEF Requested, Tasked, WorkTask

\* Every control ends with a sweep, which only covers what is all cancelled.
LEMMA SweptOwes ==
  ASSUME NEW R, NEW T, NEW A, Owes(R, T, A)
  PROVE  Owes(Swept(R, T), T, A)
<1> DEFINE S == Swept(R, T)
<1>1. /\ S \in [Request -> WorkRequest \cup {None}]
      /\ \A q \in Request :
           /\ S[q] # None <=> R[q] # None
           /\ R[q] # None => /\ S[q].planned = R[q].planned /\ S[q].paused = R[q].paused
                             /\ S[q].completed = R[q].completed
                             /\ R[q].covered => S[q].covered
  BY NoneAssumption DEF Owes, Requested, Swept, WorkRequest
<1>2. \A t \in Task : T[t] # None => Sound(S, T, A, t)
  BY <1>1, Kinds DEF Owes, Sound
<1>3. \A q \in Request : S[q] # None => Counted(S, T, q)
  BY <1>1 DEF Owes, Counted
<1> QED  BY <1>1, <1>2, <1>3 DEF Owes, Requested

\* Open tasks that move to a status their requests' pauses allow.
LEMMA MovedOwes ==
  ASSUME NEW R, NEW T, NEW A, Owes(R, T, A),
         NEW chosen \in SUBSET {t \in Task : T[t] # None},
         NEW st \in {"Pending", "Paused", "Cancelled"},
         st = "Pending" => \A t \in chosen : T[t].status \notin Terminal => ~R[T[t].request].paused
  PROVE  /\ Owes(R, Moved(T, chosen, st), A)
         /\ Stays(T, Moved(T, chosen, st))
         /\ \A t \in Task :
              /\ Moved(T, chosen, st)[t] # None <=> T[t] # None
              /\ T[t] # None /\ T[t].status \in Terminal => Moved(T, chosen, st)[t] = T[t]
<1> DEFINE U == Moved(T, chosen, st)
<1>1. /\ U \in Tasked
      /\ \A t \in Task :
           /\ U[t] # None <=> T[t] # None
           /\ T[t] # None => /\ U[t].request = T[t].request /\ U[t].defect_of = T[t].defect_of
                             /\ U[t].ask = T[t].ask /\ U[t].answer = T[t].answer
                             /\ U[t].status = st \/ U[t] = T[t]
                             /\ T[t].status \in Terminal => U[t] = T[t]
                             /\ U[t] # T[t] => t \in chosen
  BY NoneAssumption DEF Owes, Tasked, Moved, WorkTask, Status, Terminal
<1>2. \A t \in Task : U[t] # None => Sound(R, U, A, t)
  BY <1>1, Kinds DEF Owes, Sound, Terminal
<1>3. \A q \in Request : R[q] # None => Counted(R, U, q)
  BY <1>1 DEF Owes, Counted, Terminal
<1>4. Stays(T, U)
  BY <1>1 DEF Stays, Terminal
<1> QED  BY <1>1, <1>2, <1>3, <1>4 DEF Owes

\* A task is added to a request that is not completed, or has ended already.
LEMMA AddedOwes ==
  ASSUME NEW R, NEW T, NEW A, Owes(R, T, A),
         NEW t \in Task, T[t] = None, NEW w \in WorkTask, R[w.request] # None,
         R[w.request].completed => w.status \in Terminal,
         R[w.request].paused /\ w.status \notin Terminal => w.status = "Paused",
         w.answer = None,
         w.defect_of \in Request => R[w.defect_of] # None,
         w.defect_of \in Task => T[w.defect_of] # None /\ T[w.defect_of].defect_of = None
  PROVE  Owes(R, [T EXCEPT ![t] = w], A)
<1> DEFINE U == [T EXCEPT ![t] = w]
<1>1. U \in Tasked /\ U[t] = w /\ w # None /\ \A u \in Task : u # t => U[u] = T[u]
  BY NoneAssumption DEF Owes, Tasked
<1>2. \A u \in Task : U[u] # None => Sound(R, U, A, u)
  <2> SUFFICES ASSUME NEW u \in Task, U[u] # None PROVE Sound(R, U, A, u)
    OBVIOUS
  <2>1. CASE u = t  BY <2>1, <1>1 DEF Sound
  <2>2. CASE u # t  BY <2>2, <1>1 DEF Owes, Sound
  <2> QED  BY <2>1, <2>2
<1>3. \A q \in Request : R[q] # None => Counted(R, U, q)
  BY <1>1 DEF Owes, Counted
<1> QED  BY <1>1, <1>2, <1>3 DEF Owes

\* A request that has tasks counts as planned.
LEMMA PlannedOwes ==
  ASSUME NEW R, NEW T, NEW A, Owes(R, T, A),
         NEW q \in Request, R[q] # None, OwnedIn(T, q) # {}
  PROVE  Owes([R EXCEPT ![q].planned = TRUE], T, A)
<1> DEFINE S == [R EXCEPT ![q].planned = TRUE]
<1>1. /\ S \in Requested
      /\ \A p \in Request :
           /\ S[p] # None <=> R[p] # None
           /\ R[p] # None => /\ S[p].paused = R[p].paused /\ S[p].covered = R[p].covered
                             /\ S[p].completed = R[p].completed
                             /\ p # q => S[p] = R[p]
                             /\ p = q => S[p].planned
  BY NoneAssumption DEF Owes, Requested, WorkRequest
<1>2. \A t \in Task : T[t] # None => Sound(S, T, A, t)
  BY <1>1, Kinds DEF Owes, Sound
<1>3. \A p \in Request : S[p] # None => Counted(S, T, p)
  BY <1>1 DEF Owes, Counted, OwnedIn
<1> QED  BY <1>1, <1>2, <1>3 DEF Owes

\* A request that is not covered is closed with its tasks, of which it has some.
LEMMA ClosedOwes ==
  ASSUME NEW R, NEW T, NEW A, Owes(R, T, A),
         NEW q \in Request, R[q] # None, ~R[q].covered, OwnedIn(T, q) # {}
  PROVE  Owes([R EXCEPT ![q] = [@ EXCEPT !.planned = TRUE, !.paused = FALSE, !.covered = TRUE]], T, A)
<1> DEFINE S == [R EXCEPT ![q] = [@ EXCEPT !.planned = TRUE, !.paused = FALSE, !.covered = TRUE]]
<1> DEFINE closed == [R[q] EXCEPT !.planned = TRUE, !.paused = FALSE, !.covered = TRUE]
<1>a. R[q] \in WorkRequest /\ ~R[q].completed
  BY DEF Owes, Requested, Counted
<1>b. closed \in WorkRequest /\ ~closed.paused /\ ~closed.completed
  BY <1>a DEF WorkRequest
<1>c. S = [R EXCEPT ![q] = closed]
  OBVIOUS
<1> HIDE DEF closed, S
<1>1. /\ S \in Requested
      /\ \A p \in Request :
           /\ S[p] # None <=> R[p] # None
           /\ p # q => S[p] = R[p]
      /\ ~S[q].paused /\ ~S[q].completed
  BY <1>b, <1>c, NoneAssumption DEF Owes, Requested
<1>2. \A t \in Task : T[t] # None => Sound(S, T, A, t)
  BY <1>1, Kinds DEF Owes, Sound
<1>3. \A p \in Request : S[p] # None => Counted(S, T, p)
  BY <1>1 DEF Owes, Counted, OwnedIn
<1> QED  BY <1>1, <1>2, <1>3 DEF Owes, S

\* Only the pause of a request changes, and its open tasks were paused if it is on.
LEMMA PauseOwes ==
  ASSUME NEW R, NEW T, NEW A, Owes(R, T, A),
         NEW q \in Request, R[q] # None, NEW on \in BOOLEAN,
         on => \A t \in OwnedIn(T, q) : T[t].status \in Terminal \cup {"Paused"}
  PROVE  Owes([R EXCEPT ![q].paused = on], T, A)
<1> DEFINE S == [R EXCEPT ![q].paused = on]
<1>1. /\ S \in Requested
      /\ \A p \in Request :
           /\ S[p] # None <=> R[p] # None
           /\ R[p] # None => /\ S[p].planned = R[p].planned /\ S[p].covered = R[p].covered
                             /\ S[p].completed = R[p].completed
           /\ p # q => S[p] = R[p]
      /\ S[q].paused = on
  BY NoneAssumption DEF Owes, Requested, WorkRequest
<1>2. \A t \in Task : T[t] # None => Sound(S, T, A, t)
  BY <1>1, Kinds DEF Owes, Sound, OwnedIn
<1>3. \A p \in Request : S[p] # None => Counted(S, T, p)
  BY <1>1 DEF Owes, Counted
<1> QED  BY <1>1, <1>2, <1>3 DEF Owes

\* The original of what is reopened is a task that is no defect, or a request.
LEMMA OriginalOwner ==
  ASSUME NEW R, NEW T, NEW A, Owes(R, T, A),
         NEW x \in Request \cup Task, Reopenable(R, T, x)
  PROVE  LET o == Original(T, x) IN
         /\ Owner(T, o) \in Request /\ R[Owner(T, o)] # None
         /\ \/ o \in Request /\ ~IsTask(T, o) /\ Owner(T, o) = o
            \/ /\ o \in Task /\ T[o] # None /\ T[o].defect_of = None
               /\ T[o].status # "Cancelled" /\ Owner(T, o) = T[o].request
<1> DEFINE o == Original(T, x)
<1> USE IdAssumption DEF IsTask
<1>1. CASE IsTask(T, x) /\ T[x].defect_of # None
  <2>1. o = T[x].defect_of /\ o \in Request \cup Task
    BY <1>1, Kinds DEF Owes, Original, WorkTask
  <2>2. CASE o \in Request  BY <1>1, <2>1, <2>2 DEF Owes, Sound, Owner
  <2>3. CASE o \in Task
    BY <1>1, <2>1, <2>3, Kinds DEF Owes, Sound, Owner, Reopenable, NotCancelled
  <2> QED  BY <2>1, <2>2, <2>3
<1>2. CASE ~(IsTask(T, x) /\ T[x].defect_of # None)
  <2>1. o = x  BY <1>2 DEF Original
  <2>2. CASE IsTask(T, x)
    BY <1>2, <2>1, <2>2, Kinds DEF Owes, Sound, Owner, Reopenable, NotCancelled
  <2>3. CASE ~IsTask(T, x)
    BY <2>1, <2>3 DEF Owner, Reopenable
  <2> QED  BY <2>2, <2>3
<1> QED  BY <1>1, <1>2

\* What a defect reopens is not completed, and paused if it was.
LEMMA ReopenedOwes ==
  ASSUME NEW R, NEW T, NEW A, Owes(R, T, A),
         NEW x \in Request \cup Task, Reopenable(R, T, x)
  PROVE  LET o == Original(T, x)
             U == Reopened(R, T, o)
             S == Uncovered(R, Owner(T, o))
         IN /\ Owes(S, U, A) /\ ~S[Owner(T, o)].completed
            /\ \A q \in Request :
                 /\ S[q] # None <=> R[q] # None
                 /\ R[q] # None => S[q].paused = R[q].paused
                 /\ q # Owner(T, o) => S[q] = R[q]
            /\ \A t \in Task :
                 /\ U[t] # None <=> T[t] # None
                 /\ T[t] # None => U[t].defect_of = T[t].defect_of
                 /\ T[t] # None /\ T[t].status = "Cancelled" => U[t] = T[t]
                 /\ T[t] # None /\ U[t] # T[t] => o \in {t, T[t].request}
<1> DEFINE o == Original(T, x)
           Q == Owner(T, o)
           U == Reopened(R, T, o)
           S == Uncovered(R, Q)
           st == RepairStatus(R, T, o)
<1>1. /\ Q \in Request /\ R[Q] # None
      /\ \/ o \in Request /\ ~IsTask(T, o) /\ Q = o
         \/ o \in Task /\ T[o] # None /\ Q = T[o].request
  BY OriginalOwner
<1> DEFINE open == [R[Q] EXCEPT !.covered = FALSE, !.completed = FALSE]
<1>2. /\ open \in WorkRequest /\ ~open.completed
      /\ open.paused = R[Q].paused /\ open.planned = R[Q].planned
  BY <1>1 DEF Owes, Requested, WorkRequest
<1>3. S = [R EXCEPT ![Q] = open]
  BY DEF Uncovered
<1>4. st \in {"Pending", "Paused"} /\ (R[Q].paused => st = "Paused")
  BY DEF RepairStatus
<1> HIDE DEF open, S, Q, st
<1>5. /\ S \in Requested /\ S[Q] = open
      /\ \A q \in Request :
           /\ S[q] # None <=> R[q] # None
           /\ q # Q => S[q] = R[q]
  BY <1>1, <1>2, <1>3, NoneAssumption DEF Owes, Requested
<1>6. /\ U \in Tasked
      /\ \A t \in Task :
           /\ U[t] # None <=> T[t] # None
           /\ T[t] # None =>
                /\ U[t].request = T[t].request /\ U[t].defect_of = T[t].defect_of
                /\ U[t].ask = T[t].ask /\ U[t].answer = T[t].answer
                /\ \/ U[t] = T[t]
                   \/ /\ t = o \/ T[t].request = o
                      /\ T[t].status # "Cancelled" /\ U[t].status = st
  BY <1>4, NoneAssumption DEF Owes, Tasked, Reopened, WorkTask, Status, st
<1> HIDE DEF U, o
<1>7. \A t \in Task : T[t] # None /\ U[t] # T[t] => T[t].request = Q
  BY <1>1, <1>6, Kinds, IdAssumption DEF Owes, IsTask
<1>8. \A t \in Task : U[t] # None => Sound(S, U, A, t)
  <2> SUFFICES ASSUME NEW t \in Task, U[t] # None PROVE Sound(S, U, A, t)
    OBVIOUS
  <2>1. T[t] # None /\ Sound(R, T, A, t) /\ T[t].request \in Request
    BY <1>6, Kinds DEF Owes
  <2>2. S[U[t].request] # None /\ S[U[t].request].paused = R[T[t].request].paused
    BY <2>1, <1>2, <1>5, <1>6 DEF Sound
  <2>3. S[U[t].request].paused /\ U[t].status \notin Terminal => U[t].status = "Paused"
    BY <2>1, <2>2, <1>4, <1>6, <1>7 DEF Sound
  <2> QED  BY <2>1, <2>2, <2>3, <1>5, <1>6 DEF Sound
<1>9. \A q \in Request : S[q] # None => Counted(S, U, q)
  <2> SUFFICES ASSUME NEW q \in Request, S[q] # None PROVE Counted(S, U, q)
    OBVIOUS
  <2>1. R[q] # None /\ Counted(R, T, q)
    BY <1>5 DEF Owes
  <2>2. CASE q = Q  BY <2>1, <2>2, <1>2, <1>5, <1>6 DEF Counted
  <2>3. CASE q # Q  BY <2>1, <2>3, <1>5, <1>6, <1>7 DEF Counted
  <2> QED  BY <2>2, <2>3
<1>10. \A t \in Task : T[t] # None /\ U[t] # T[t] => o \in {t, T[t].request}
  BY <1>6
<1>11. Owes(S, U, A)
  BY <1>5, <1>6, <1>8, <1>9 DEF Owes
<1> QED  BY <1>2, <1>5, <1>6, <1>10, <1>11 DEF U, o, S, Q

\* What a report of x makes of R and T, as task u of request q.
Owing(R, T, x) == Uncovered(R, Owner(T, Original(T, x)))
Repaired(R, T, x, u, q) ==
  [Reopened(R, T, Original(T, x)) EXCEPT
     ![u] = NewTask(q, Original(T, x), "User", RepairStatus(R, T, Original(T, x)))]

\* The defect itself is added, to the request of its original or to one that is
\* neither completed nor paused.
LEMMA DefectOwes ==
  ASSUME NEW R, NEW T, NEW A, Owes(R, T, A),
         NEW x \in Request \cup Task, Reopenable(R, T, x),
         NEW u \in Task, T[u] = None, NEW q \in Request, R[q] # None,
         q # Owner(T, Original(T, x)) => ~R[q].completed /\ ~R[q].paused
  PROVE  /\ Owes(Owing(R, T, x), Repaired(R, T, x, u, q), A)
         /\ Stays(T, Repaired(R, T, x, u, q))
         /\ Repaired(R, T, x, u, q)[u] # None /\ Repaired(R, T, x, u, q)[u].request = q
         /\ Owing(R, T, x) \in Requested
         /\ \A p \in Request : R[p] # None => Owing(R, T, x)[p] # None
<1> DEFINE o == Original(T, x)
           Q == Owner(T, o)
           M == Reopened(R, T, o)
           S == Uncovered(R, Q)
           w == NewTask(q, o, "User", RepairStatus(R, T, o))
           U == [M EXCEPT ![u] = w]
<1>1. /\ Q \in Request /\ R[Q] # None
      /\ \/ o \in Request /\ ~IsTask(T, o) /\ Q = o
         \/ o \in Task /\ T[o] # None /\ T[o].defect_of = None /\ Q = T[o].request
  BY OriginalOwner
<1>2. /\ Owes(S, M, A) /\ ~S[Q].completed
      /\ \A p \in Request :
           /\ S[p] # None <=> R[p] # None
           /\ R[p] # None => S[p].paused = R[p].paused
           /\ p # Q => S[p] = R[p]
      /\ \A t \in Task :
           /\ M[t] # None <=> T[t] # None
           /\ T[t] # None => M[t].defect_of = T[t].defect_of
           /\ T[t] # None /\ T[t].status = "Cancelled" => M[t] = T[t]
           /\ T[t] # None /\ M[t] # T[t] => o \in {t, T[t].request}
  BY ReopenedOwes
<1>3. /\ w \in WorkTask /\ w.request = q /\ w.defect_of = o /\ w.answer = None
      /\ w.status = RepairStatus(R, T, o) /\ w # None
  BY <1>1, NoneAssumption DEF NewTask, WorkTask, Status, RepairStatus
<1>4. S[q] # None /\ ~S[q].completed /\ (S[q].paused => w.status = "Paused")
  BY <1>1, <1>2, <1>3 DEF RepairStatus
<1>5. /\ o \in Request => S[o] # None
      /\ o \in Task => M[o] # None /\ M[o].defect_of = None
  BY <1>1, <1>2, IdAssumption DEF IsTask
<1> HIDE DEF o, Q, M, S, w
<1>6. Owes(S, U, A)
  BY <1>2, <1>3, <1>4, <1>5, AddedOwes
<1>7. U[u] = w /\ \A t \in Task : t # u => U[t] = M[t]
  BY <1>2 DEF Owes, Tasked
<1>8. Stays(T, U)
  BY <1>2, <1>3, <1>7 DEF Stays
<1>9. U[u] # None /\ U[u].request = q
  BY <1>3, <1>7
<1> HIDE DEF U
<1>10. S = Owing(R, T, x) /\ U = Repaired(R, T, x, u, q)
  BY DEF U, w, S, M, Q, o, Owing, Repaired
<1> QED  BY <1>2, <1>6, <1>8, <1>9, <1>10 DEF Owes

\* Tasks that wait take an answer that is recorded; no other task changes.
Takes(T, U, A) ==
  /\ U \in Tasked
  /\ \A t \in Task :
       \/ U[t] = T[t]
       \/ \E a \in Ask :
            /\ T[t] # None /\ Waits(T[t]) /\ A[a] # None /\ A[a].answered
            /\ U[t] = [T[t] EXCEPT !.status = "Pending", !.answer = a]

\* Taking a recorded answer leaves what is owed and what ended.
LEMMA TakesOwes ==
  ASSUME NEW R, NEW T, NEW A, NEW U, Owes(R, T, A), Takes(T, U, A)
  PROVE  Owes(R, U, A) /\ Stays(T, U)
<1>1. \A t \in Task :
        \/ U[t] = T[t]
        \/ /\ T[t] # None /\ T[t].status = "Blocked" /\ T[t].ask # None
           /\ U[t] # None /\ U[t].status = "Pending"
           /\ U[t].request = T[t].request /\ U[t].defect_of = T[t].defect_of
           /\ U[t].ask = T[t].ask
           /\ U[t].answer # None => A[U[t].answer] # None /\ A[U[t].answer].answered
  <2> TAKE t \in Task
  <2>1. CASE U[t] = T[t]  BY <2>1
  <2>2. CASE U[t] # T[t]
    <3>1. PICK a \in Ask :
            /\ T[t] # None /\ Waits(T[t]) /\ A[a] # None /\ A[a].answered
            /\ U[t] = [T[t] EXCEPT !.status = "Pending", !.answer = a]
      BY <2>2 DEF Takes
    <3>2. T[t] \in WorkTask  BY <3>1 DEF Owes, Tasked
    <3>3. /\ U[t] \in WorkTask /\ U[t].status = "Pending" /\ U[t].answer = a
          /\ U[t].request = T[t].request /\ U[t].defect_of = T[t].defect_of
          /\ U[t].ask = T[t].ask
      BY <3>1, <3>2 DEF WorkTask, Status
    <3>4. U[t] # None  BY <3>3, NoneAssumption
    <3>5. A[U[t].answer] # None /\ A[U[t].answer].answered
      BY <3>1, <3>3
    <3> QED  BY <3>1, <3>3, <3>4, <3>5 DEF Waits
  <2> QED  BY <2>1, <2>2
<1>2. \A t \in Task : U[t] # None => Sound(R, U, A, t)
  <2> SUFFICES ASSUME NEW t \in Task, U[t] # None PROVE Sound(R, U, A, t)
    OBVIOUS
  <2>1. T[t] # None /\ Sound(R, T, A, t)
    BY <1>1 DEF Owes
  <2>2. T[t].defect_of \in Task => U[T[t].defect_of] # None /\ U[T[t].defect_of].defect_of = None
    BY <1>1, <2>1 DEF Sound
  <2> QED  BY <1>1, <2>1, <2>2 DEF Sound, Terminal
<1>3. \A q \in Request : R[q] # None => Counted(R, U, q)
  <2> SUFFICES ASSUME NEW q \in Request, R[q] # None PROVE Counted(R, U, q)
    OBVIOUS
  <2>1. Counted(R, T, q)  BY DEF Owes
  <2> QED  BY <1>1, <2>1 DEF Counted, Terminal
<1>4. Stays(T, U)
  BY <1>1 DEF Stays
<1> QED  BY <1>2, <1>3, <1>4 DEF Owes, Takes

-----------------------------------------------------------------------------
(* A review.                                                                  *)

\* What a review makes of one task: only what was asked of it, and no answer that
\* was not there.
LEMMA JudgedTask ==
  ASSUME NEW s \in Session, NEW w \in WorkTask, NEW v \in Verdict,
         v.says = "Ask" => Words(s, v) \in Word
  PROVE  /\ Judged(s, w, v) \in WorkTask
         /\ Judged(s, w, v).request = w.request /\ Judged(s, w, v).defect_of = w.defect_of
         /\ Judged(s, w, v).answer # None =>
              /\ Judged(s, w, v).answer = w.answer
              /\ w.ask # None => Judged(s, w, v).ask # None
<1>1. CASE v.says \in {"Done", "Continue"}
  BY <1>1, NoneAssumption DEF Judged, Unblocked, WorkTask, Status
<1>2. CASE v.says = "Failed"
  BY <1>2, NoneAssumption DEF Judged, WorkTask, Status
<1>3. CASE v.says = "Ask"
  BY <1>3, NoneAssumption DEF Judged, WorkTask, Status
<1> QED  BY <1>1, <1>2, <1>3 DEF Verdict

\* A review judges open tasks that are not paused.
LEMMA JudgedOwes ==
  ASSUME NEW s \in Session, NEW A, Owes(request[s], task[s], A),
         NEW verdict \in [UnderReview(s) -> Verdict],
         \A t \in Asking(verdict) : Words(s, verdict[t]) \in Word
  PROVE  LET U == [t \in Task |-> IF t \in UnderReview(s)
                                  THEN Judged(s, task[s][t], verdict[t]) ELSE task[s][t]]
         IN /\ Owes(request[s], U, A)
            /\ \A t \in Task :
                 /\ U[t] # None <=> task[s][t] # None
                 /\ task[s][t] # None => U[t].request = task[s][t].request
                 /\ task[s][t] # None /\ task[s][t].status \in Terminal => U[t] = task[s][t]
<1> DEFINE R == request[s]
           T == task[s]
           U == [t \in Task |-> IF t \in UnderReview(s) THEN Judged(s, T[t], verdict[t]) ELSE T[t]]
<1>1. \A t \in UnderReview(s) :
        /\ t \in Task /\ T[t] # None /\ T[t] \in WorkTask
        /\ T[t].status \notin Terminal /\ T[t].status # "Paused"
        /\ verdict[t] \in Verdict
  BY DEF UnderReview, Open, Tasks, Owes, Tasked
<1>2. \A t \in UnderReview(s) : verdict[t].says = "Ask" => Words(s, verdict[t]) \in Word
  BY DEF Asking
<1>3. \A t \in Task :
        \/ U[t] = T[t]
        \/ /\ T[t] # None /\ T[t].status \notin Terminal /\ T[t].status # "Paused"
           /\ U[t] \in WorkTask
           /\ U[t].request = T[t].request /\ U[t].defect_of = T[t].defect_of
           /\ U[t].answer # None =>
                U[t].answer = T[t].answer /\ (T[t].ask # None => U[t].ask # None)
  BY <1>1, <1>2, JudgedTask
<1>4. U \in Tasked /\ \A t \in Task : U[t] # None <=> T[t] # None
  <2>1. \A t \in Task : U[t] \in WorkTask \cup {None}
    BY <1>3 DEF Owes, Tasked
  <2> QED  BY <2>1, <1>3, NoneAssumption DEF Tasked
<1> HIDE DEF U
<1>5. \A t \in Task : U[t] # None => Sound(R, U, A, t)
  <2> SUFFICES ASSUME NEW t \in Task, U[t] # None PROVE Sound(R, U, A, t)
    OBVIOUS
  <2>1. T[t] # None /\ Sound(R, T, A, t)
    BY <1>4 DEF Owes
  <2>2. T[t].defect_of \in Task => U[T[t].defect_of] # None /\ U[T[t].defect_of].defect_of = None
    BY <1>3, <1>4, <2>1 DEF Sound
  <2> QED  BY <1>3, <2>1, <2>2 DEF Sound
<1>6. \A q \in Request : R[q] # None => Counted(R, U, q)
  <2> SUFFICES ASSUME NEW q \in Request, R[q] # None PROVE Counted(R, U, q)
    OBVIOUS
  <2>1. Counted(R, T, q)  BY DEF Owes
  <2> QED  BY <1>3, <1>4, <2>1 DEF Counted, Terminal
<1>7. Owes(R, U, A)
  BY <1>4, <1>5, <1>6 DEF Owes
<1> QED  BY <1>3, <1>4, <1>7 DEF U

\* Tasks are added to requests that are neither completed nor paused.
LEMMA ManyAdded ==
  ASSUME NEW R, NEW T, NEW A, NEW U \in Tasked, Owes(R, T, A),
         \A t \in Task :
           \/ U[t] = T[t]
           \/ /\ T[t] = None /\ U[t] # None /\ R[U[t].request] # None
              /\ ~R[U[t].request].completed /\ ~R[U[t].request].paused
              /\ U[t].defect_of = None /\ U[t].answer = None
  PROVE  Owes(R, U, A) /\ Stays(T, U)
<1>1. \A t \in Task : U[t] # None => Sound(R, U, A, t)
  <2> SUFFICES ASSUME NEW t \in Task, U[t] # None PROVE Sound(R, U, A, t)
    OBVIOUS
  <2>1. CASE U[t] = T[t]
    <3>1. Sound(R, T, A, t)  BY <2>1 DEF Owes
    <3>2. T[t].defect_of \in Task => U[T[t].defect_of] # None /\ U[T[t].defect_of].defect_of = None
      BY <3>1 DEF Sound
    <3> QED  BY <2>1, <3>1, <3>2 DEF Sound
  <2>2. CASE U[t] # T[t]
    BY <2>2, NoneAssumption DEF Sound
  <2> QED  BY <2>1, <2>2
<1>2. \A q \in Request : R[q] # None => Counted(R, U, q)
  BY DEF Owes, Counted
<1>3. Stays(T, U)
  BY DEF Stays
<1> QED  BY <1>1, <1>2, <1>3 DEF Owes

\* The requests a review covers are those whose every task has ended.
LEMMA CoveredOwes ==
  ASSUME NEW R, NEW T, NEW A, Owes(R, T, A), NEW compared, NEW covered,
         \A q \in compared : R[q] # None /\ R[q].planned
  PROVE  LET S == [q \in Request |->
                    IF q \in compared /\ Covers(T, q, covered)
                    THEN [R[q] EXCEPT !.covered = TRUE,
                            !.completed = @ \/ \E t \in OwnedIn(T, q) : T[t].status = "Done"]
                    ELSE R[q]]
         IN /\ Owes(S, T, A)
            /\ \A q \in Request :
                 /\ S[q] # None <=> R[q] # None
                 /\ R[q] # None => S[q].paused = R[q].paused
                 /\ q \notin covered => S[q] = R[q]
<1> DEFINE Done(q) == \E t \in OwnedIn(T, q) : T[t].status = "Done"
           S == [q \in Request |->
                  IF q \in compared /\ Covers(T, q, covered)
                  THEN [R[q] EXCEPT !.covered = TRUE, !.completed = @ \/ Done(q)] ELSE R[q]]
<1>0. \A q \in Request : Done(q) \in BOOLEAN
  OBVIOUS
<1>1. \A q \in Request :
        /\ S[q] = R[q]
           \/ /\ R[q] \in WorkRequest /\ Covers(T, q, covered) /\ R[q].planned
              /\ S[q] = [R[q] EXCEPT !.covered = TRUE, !.completed = @ \/ Done(q)]
        /\ q \notin covered => S[q] = R[q]
  BY DEF Owes, Requested, Covers
<1> HIDE DEF S, Done
<1>2. \A q \in Request :
        \/ S[q] = R[q]
        \/ /\ R[q] # None /\ S[q] # None /\ S[q] \in WorkRequest
           /\ Covers(T, q, covered) /\ S[q].covered /\ S[q].planned
           /\ S[q].paused = R[q].paused /\ (S[q].completed => R[q].completed \/ Done(q))
  <2> TAKE q \in Request
  <2>1. CASE S[q] = R[q]  BY <2>1
  <2>2. CASE /\ R[q] \in WorkRequest /\ Covers(T, q, covered) /\ R[q].planned
             /\ S[q] = [R[q] EXCEPT !.covered = TRUE, !.completed = @ \/ Done(q)]
    <3> DEFINE c == R[q].completed \/ Done(q)
    <3>1. c \in BOOLEAN  BY <1>0, <2>2 DEF WorkRequest
    <3>2. S[q] = [R[q] EXCEPT !.covered = TRUE, !.completed = c]  BY <2>2
    <3> HIDE DEF c
    <3>3. /\ S[q] \in WorkRequest /\ S[q].covered /\ S[q].planned = R[q].planned
          /\ S[q].paused = R[q].paused /\ S[q].completed = c
      BY <2>2, <3>1, <3>2 DEF WorkRequest
    <3> QED  BY <2>2, <3>3, NoneAssumption DEF c
  <2> QED  BY <1>1, <2>1, <2>2
<1>3. S \in Requested
  <2>1. \A q \in Request : S[q] \in WorkRequest \cup {None}
    BY <1>2 DEF Owes, Requested
  <2>2. S = [q \in Request |-> S[q]]
    BY DEF S
  <2> QED  BY <2>1, <2>2 DEF Requested
<1>4. \A t \in Task : T[t] # None => Sound(S, T, A, t)
  <2> SUFFICES ASSUME NEW t \in Task, T[t] # None PROVE Sound(S, T, A, t)
    OBVIOUS
  <2>1. Sound(R, T, A, t) /\ T[t].request \in Request
    BY Kinds DEF Owes
  <2> QED  BY <1>2, <2>1 DEF Sound
<1>5. \A q \in Request : S[q] # None => Counted(S, T, q)
  <2> SUFFICES ASSUME NEW q \in Request, S[q] # None PROVE Counted(S, T, q)
    OBVIOUS
  <2>1. R[q] # None /\ Counted(R, T, q)
    BY <1>2 DEF Owes
  <2>2. CASE S[q] = R[q]  BY <2>1, <2>2 DEF Counted
  <2>3. CASE S[q] # R[q]
    BY <1>1, <1>2, <2>1, <2>3 DEF Counted, Covers, OwnedIn, Done
  <2> QED  BY <2>2, <2>3
<1>6. Owes(S, T, A)
  BY <1>3, <1>4, <1>5 DEF Owes
<1> QED  BY <1>1, <1>2, <1>6 DEF S, Done

-----------------------------------------------------------------------------
(* The inductive invariant.                                                   *)

Owed ==
  /\ request \in [Session -> Requested] /\ task \in [Session -> Tasked]
  /\ \A s \in Session : Owes(request[s], task[s], asks)

Types ==
  /\ revision \in [Session -> Nat] /\ read \in [Session -> Nat]
  /\ asks \in [Ask -> OperatorAsk \cup {None}]
  /\ place \in [Session -> [Task -> Ask \cup {None}]]
  /\ at \in [Session -> At]
  /\ seen \in [Session -> [Ask -> OperatorAsk \cup {None}]]
  /\ links \in [Session -> SUBSET Link]
  /\ operator \in [ask : Ask \cup {None}, session : Session \cup {None}, revision : Nat,
                   recorded : BOOLEAN, left : SUBSET (Session \X Task)]

IsAnswered(a) == a \in Ask /\ asks[a] # None /\ asks[a].answered

\* What a conversation or the operator is about to hand over is recorded, and a
\* place names an ask of the register.
Agreed ==
  /\ \A s \in Session : \A t \in Task : place[s][t] # None => asks[place[s][t]] # None
  /\ \A s \in Session : at[s] = "hand" => \A l \in links[s] : IsAnswered(l.ask)
  /\ \A s \in Session : at[s] = "commit" => \A l \in links[s] : l.word \in Word
  /\ operator.recorded => IsAnswered(operator.ask)
  /\ operator.left # {} => operator.recorded

IInv == Owed /\ Types /\ Agreed

AllStay == \A s \in Session : Stays(task[s], task'[s])

\* One session is written; the others, and the register, are as they were.
LEMMA UpdateOwed ==
  ASSUME IInv, NEW s \in Session, NEW R, NEW T,
         Owes(R, T, asks), Stays(task[s], T), Update(s, R, T), asks' = asks
  PROVE  Owed' /\ AllStay /\ revision' \in [Session -> Nat]
<1>1. /\ request' \in [Session -> Requested] /\ task' \in [Session -> Tasked]
      /\ request'[s] = R /\ task'[s] = T
      /\ \A x \in Session : x # s => request'[x] = request[x] /\ task'[x] = task[x]
  BY DEF IInv, Owed, Update, Owes
<1>2. \A x \in Session : Owes(request'[x], task'[x], asks')
  BY <1>1 DEF IInv, Owed
<1>3. AllStay
  BY <1>1 DEF AllStay, Stays
<1>4. revision' \in [Session -> Nat]
  BY DEF IInv, Types, Update
<1> QED  BY <1>1, <1>2, <1>3, <1>4 DEF Owed

\* What was answered stays answered while the register grows.
LEMMA RegisterOwed ==
  ASSUME IInv, UNCHANGED <<request, task>>, \A a \in Ask : IsAnswered(a) => IsAnswered(a)'
  PROVE  Owed' /\ AllStay
<1>1. \A s \in Session : Owes(request'[s], task'[s], asks')
  <2> SUFFICES ASSUME NEW s \in Session PROVE Owes(request[s], task[s], asks')
    OBVIOUS
  <2>1. Owes(request[s], task[s], asks)
    BY DEF IInv, Owed
  <2>2. \A t \in Task : task[s][t] # None => Sound(request[s], task[s], asks', t)
    <3> SUFFICES ASSUME NEW t \in Task, task[s][t] # None
                 PROVE  Sound(request[s], task[s], asks', t)
      OBVIOUS
    <3>1. Sound(request[s], task[s], asks, t) /\ task[s][t].answer \in Ask \cup {None}
      BY <2>1 DEF Owes, Tasked, WorkTask
    <3>2. CASE task[s][t].answer = None
      BY <3>1, <3>2 DEF Sound
    <3>3. CASE task[s][t].answer # None
      <4>1. IsAnswered(task[s][t].answer)'
        <5> DEFINE a == task[s][t].answer
        <5>1. a \in Ask /\ IsAnswered(a)  BY <3>1, <3>3 DEF Sound, IsAnswered
        <5>2. (task[s][t].answer)' = a  OBVIOUS
        <5> HIDE DEF a
        <5> QED  BY <5>1, <5>2 DEF IsAnswered
      <4> QED  BY <3>1, <4>1 DEF Sound, IsAnswered
    <3> QED  BY <3>2, <3>3
  <2> QED  BY <2>1, <2>2 DEF Owes
<1>2. AllStay
  BY DEF AllStay, Stays
<1> QED  BY <1>1, <1>2 DEF IInv, Owed

\* A step that only writes one session.
LEMMA QuietStep ==
  ASSUME IInv, NEW s \in Session, NEW R, NEW T,
         Owes(R, T, asks), Stays(task[s], T), Update(s, R, T), Quiet
  PROVE  IInv' /\ AllStay
<1>1. Owed' /\ AllStay /\ revision' \in [Session -> Nat]
  BY UpdateOwed DEF Quiet, register
<1>2. Types' /\ Agreed'
  BY <1>1 DEF IInv, Types, Agreed, IsAnswered, Quiet, register, conversation
<1> QED  BY <1>1, <1>2 DEF IInv

-----------------------------------------------------------------------------
(* What the operator does to requests and tasks.                              *)

\* Without a change, what ended stays ended.
LEMMA StaysSame == ASSUME NEW T PROVE Stays(T, T)
  BY DEF Stays

\* A captured request is neither planned nor completed.
LEMMA CaptureStep ==
  ASSUME IInv, NEW s \in Session, NEW q \in Request, Capture(s, q)
  PROVE  IInv' /\ AllStay
<1> DEFINE R == request[s]
           T == task[s]
           new == [planned |-> FALSE, paused |-> FALSE, covered |-> FALSE, completed |-> FALSE]
           S == [R EXCEPT ![q] = new]
<1>1. Owes(R, T, asks) /\ R[q] = None
  BY DEF IInv, Owed, Capture, Requests
<1>2. new \in WorkRequest /\ ~new.planned /\ ~new.completed
  BY DEF WorkRequest
<1> HIDE DEF new
<1>3. /\ S \in Requested /\ S[q] = new /\ new # None
      /\ \A p \in Request : p # q => S[p] = R[p]
  BY <1>1, <1>2, NoneAssumption DEF Owes, Requested
<1>4. \A t \in Task : T[t] # None => Sound(S, T, asks, t)
  <2> SUFFICES ASSUME NEW t \in Task, T[t] # None PROVE Sound(S, T, asks, t)
    OBVIOUS
  <2>1. Sound(R, T, asks, t) /\ T[t].request \in Request /\ T[t].request # q
    BY <1>1, Kinds DEF Owes, Sound
  <2> QED  BY <1>1, <1>3, <2>1 DEF Sound
<1>5. \A p \in Request : S[p] # None => Counted(S, T, p)
  BY <1>1, <1>2, <1>3 DEF Owes, Counted
<1>6. Owes(S, T, asks)
  BY <1>1, <1>3, <1>4, <1>5 DEF Owes
<1>7. Update(s, S, T) /\ Quiet
  BY DEF Capture, new
<1> QED  BY <1>6, <1>7, StaysSame, QuietStep

\* A control writes the session and sweeps it.
LEMMA ControlledStep ==
  ASSUME IInv, NEW s \in Session, NEW R, NEW T,
         Owes(R, T, asks), Stays(task[s], T), Controlled(s, R, T)
  PROVE  IInv' /\ AllStay
  BY SweptOwes, QuietStep DEF Controlled

\* A request is paused after its tasks, and resumed before them.
LEMMA ControlRequestStep ==
  ASSUME IInv, NEW s \in Session, NEW q \in Request, NEW on \in BOOLEAN,
         ControlRequest(s, q, on, IF on THEN "Paused" ELSE "Pending")
  PROVE  IInv' /\ AllStay
<1> DEFINE R == request[s]
           T == task[s]
           st == IF on THEN "Paused" ELSE "Pending"
           U == Moved(T, Owned(s, q), st)
<1>1. Owes(R, T, asks) /\ R[q] # None
  BY DEF IInv, Owed, ControlRequest, Requests
<1>2. Owned(s, q) \in SUBSET {t \in Task : T[t] # None} /\ \A t \in Owned(s, q) : T[t].request = q
  BY DEF Owned, OwnedIn
<1>3. CASE on
  <2>1. Owes(R, U, asks) /\ Stays(T, U)
    BY <1>1, <1>2, <1>3, MovedOwes
  <2>2. \A t \in OwnedIn(U, q) : U[t].status \in Terminal \cup {"Paused"}
    BY <1>1, <1>3 DEF Moved, Owned, OwnedIn, Owes, Tasked, WorkTask
  <2>3. Owes([R EXCEPT ![q].paused = on], U, asks)
    BY <1>1, <2>1, <2>2, PauseOwes
  <2> QED  BY <2>1, <2>3, ControlledStep DEF ControlRequest
<1>4. CASE ~on
  <2>1. Owes([R EXCEPT ![q].paused = on], T, asks)
    BY <1>1, <1>4, PauseOwes
  <2>2. ~[R EXCEPT ![q].paused = on][q].paused
    BY <1>1, <1>4 DEF Owes, Requested, WorkRequest
  <2>3. Owes([R EXCEPT ![q].paused = on], U, asks) /\ Stays(T, U)
    BY <1>2, <1>4, <2>1, <2>2, MovedOwes
  <2> QED  BY <2>3, ControlledStep DEF ControlRequest
<1> QED  BY <1>3, <1>4

\* A cancelled request keeps or gets a task, and its tasks have ended.
LEMMA CancelRequestStep ==
  ASSUME IInv, NEW s \in Session, NEW q \in Request, CancelRequest(s, q)
  PROVE  IInv' /\ AllStay
<1> DEFINE R == request[s]
           T == task[s]
           S == [R EXCEPT ![q] = [@ EXCEPT !.planned = TRUE, !.paused = FALSE, !.covered = TRUE]]
           U == Moved(T, Owned(s, q), "Cancelled")
<1>1. Owes(R, T, asks) /\ R[q] # None /\ ~R[q].covered
  BY DEF IInv, Owed, CancelRequest, Requests
<1>2. Owned(s, q) \in SUBSET {t \in Task : T[t] # None}
  BY DEF Owned, OwnedIn
<1>3. /\ Owes(R, U, asks) /\ Stays(T, U)
      /\ \A t \in Task : U[t] # None <=> T[t] # None
  BY <1>1, <1>2, MovedOwes
<1>4. CASE R[q].planned /\ Controlled(s, S, U)
  <2>1. OwnedIn(U, q) # {}
    BY <1>1, <1>3, <1>4 DEF Owes, Counted, OwnedIn
  <2>2. Owes(S, U, asks)
    BY <1>1, <1>3, <2>1, ClosedOwes
  <2> QED  BY <1>3, <1>4, <2>2, ControlledStep
<1>5. ASSUME NEW t \in Free(s),
             Controlled(s, S, [U EXCEPT ![t] = NewTask(q, None, "User", "Cancelled")])
      PROVE  IInv' /\ AllStay
  <2> DEFINE w == NewTask(q, None, "User", "Cancelled")
             V == [U EXCEPT ![t] = w]
  <2>1. t \in Task /\ U[t] = None /\ T[t] = None
    BY <1>3 DEF Free, Tasks
  <2>2. /\ w \in WorkTask /\ w # None /\ w.request = q /\ w.status = "Cancelled"
        /\ w.answer = None /\ w.defect_of = None
    BY NoneAssumption DEF NewTask, WorkTask, Status
  <2> HIDE DEF w, U
  <2>3. Owes(R, V, asks)
    BY <1>1, <1>3, <2>1, <2>2, AddedOwes, NoneAssumption DEF Terminal
  <2>4. V[t] = w /\ \A u \in Task : u # t => V[u] = U[u]
    BY <1>3, <2>1 DEF Owes, Tasked
  <2>5. OwnedIn(V, q) # {}
    BY <2>1, <2>2, <2>4 DEF OwnedIn
  <2>6. Owes(S, V, asks)
    BY <1>1, <2>3, <2>5, ClosedOwes
  <2>7. Stays(T, V)
    BY <1>3, <2>1, <2>4 DEF Stays
  <2>8. Controlled(s, S, V)
    BY <1>5 DEF w, U
  <2> QED  BY <2>6, <2>7, <2>8, ControlledStep
<1> QED  BY <1>4, <1>5 DEF CancelRequest

\* One open task is paused, resumed while its request is not paused, or cancelled.
LEMMA ControlTaskStep ==
  ASSUME IInv, NEW s \in Session, NEW t \in Task, NEW st \in {"Paused", "Pending", "Cancelled"},
         ControlTask(s, t, st)
  PROVE  IInv' /\ AllStay
<1>1. Owes(request[s], task[s], asks) /\ {t} \in SUBSET {u \in Task : task[s][u] # None}
  BY DEF IInv, Owed, ControlTask, Open, Tasks
<1>2. Owes(request[s], Moved(task[s], {t}, st), asks) /\ Stays(task[s], Moved(task[s], {t}, st))
  BY <1>1, MovedOwes DEF ControlTask
<1> QED  BY <1>2, ControlledStep DEF ControlTask

\* A reported defect reopens its original and is added to the same request.
LEMMA ReportDefectStep ==
  ASSUME IInv, NEW s \in Session, NEW x \in Request \cup Task, ReportDefect(s, x)
  PROVE  IInv' /\ AllStay
<1> DEFINE R == request[s]
           T == task[s]
           Q == Owner(T, Original(T, x))
<1>1. Owes(R, T, asks) /\ Reopenable(R, T, x) /\ Quiet
  BY DEF IInv, Owed, ReportDefect
<1>2. PICK u \in Free(s) : Update(s, Owing(R, T, x), Repaired(R, T, x, u, Q))
  BY DEF ReportDefect, Owing, Repaired
<1>3. u \in Task /\ T[u] = None
  BY DEF Free, Tasks
<1> HIDE DEF R, T
<1>4. Q \in Request /\ R[Q] # None
  BY <1>1, OriginalOwner
<1>5. Owes(Owing(R, T, x), Repaired(R, T, x, u, Q), asks) /\ Stays(T, Repaired(R, T, x, u, Q))
  <2>1. Q = Owner(T, Original(T, x))  OBVIOUS
  <2> HIDE DEF Q
  <2> QED  BY <1>1, <1>3, <1>4, <2>1, DefectOwes
<1> QED  BY <1>1, <1>2, <1>5, QuietStep DEF T

\* Requests and tasks stay as they are.
LEMMA WriteBlockerStep ==
  ASSUME IInv, NEW s \in Session, WriteBlocker(s)
  PROVE  IInv' /\ AllStay
  BY StaysSame, QuietStep DEF WriteBlocker, IInv, Owed

\* A child that owes nothing takes over what is owed.
LEMMA InheritStep ==
  ASSUME IInv, NEW s \in Session, NEW child \in Session, Inherit(s, child)
  PROVE  IInv' /\ AllStay
<1>1. Owes(request[s], task[s], asks)
  BY DEF IInv, Owed
<1>2. Stays(task[child], task[s])
  BY DEF Inherit, Tasks, Stays
<1> QED  BY <1>1, <1>2, QuietStep DEF Inherit

-----------------------------------------------------------------------------
(* The steps of a turn.                                                       *)

\* What ended before a step's first change, which left it alone, stays ended.
LEMMA StaysThrough ==
  ASSUME NEW T, NEW M, NEW U, Stays(M, U),
         \A t \in Task :
           /\ M[t] # None <=> T[t] # None
           /\ T[t] # None /\ T[t].status \in Terminal => M[t] = T[t]
  PROVE  Stays(T, U)
<1> SUFFICES ASSUME NEW t \in Task, T[t] # None, T[t].status \in Terminal
             PROVE  /\ T[t].status = "Cancelled" => U[t] = T[t]
                    /\ T[t].status = "Done" /\ U[t].status # "Done" =>
                         \E u \in Task : /\ T[u] = None /\ U[u] # None
                                         /\ U[u].defect_of \in {t, T[t].request}
  BY DEF Stays, Terminal
<1>1. M[t] = T[t] /\ M[t] # None
  OBVIOUS
<1> QED  BY <1>1 DEF Stays

\* A plan withdraws open tasks and gives its request one: work, or a defect.
LEMMA PlanStep ==
  ASSUME IInv, NEW s \in Session, Plan(s)
  PROVE  IInv' /\ AllStay
<1> DEFINE R == request[s]
<1>1. Owes(R, task[s], asks) /\ Quiet
  BY DEF IInv, Owed, Plan
<1>3. PICK q \in First(s), withdrawn \in SUBSET Open(s), t \in Free(s) :
        LET T == Moved(task[s], withdrawn, "Cancelled")
        IN \/ Update(s, [R EXCEPT ![q].planned = TRUE],
                     [T EXCEPT ![t] = NewTask(q, None, "User", "Pending")])
           \/ \E x \in Requests(s) \cup Tasks(s) :
                LET o == Original(T, x) IN
                /\ Reopenable(R, T, x)
                /\ Update(s, [Uncovered(R, Owner(T, o)) EXCEPT ![q].planned = TRUE],
                          [Reopened(R, T, o) EXCEPT ![t] = NewTask(q, o, "User", RepairStatus(R, T, o))])
  BY DEF Plan
<1>2. q \in Request /\ R[q] # None /\ ~R[q].planned /\ ~R[q].paused /\ ~R[q].completed
  <2>1. q \in Request /\ R[q] # None /\ ~R[q].planned /\ ~R[q].paused
    BY DEF First, Unplanned, Requests
  <2> QED  BY <1>1, <2>1 DEF Owes, Counted
<1> DEFINE T == Moved(task[s], withdrawn, "Cancelled")
<1>4. /\ Owes(R, T, asks) /\ Stays(task[s], T)
      /\ \A u \in Task :
           /\ T[u] # None <=> task[s][u] # None
           /\ task[s][u] # None /\ task[s][u].status \in Terminal => T[u] = task[s][u]
  <2>1. withdrawn \in SUBSET {u \in Task : task[s][u] # None}
    BY DEF Open, Tasks
  <2> QED  BY <1>1, <2>1, MovedOwes
<1>a. t \in Task /\ task[s][t] = None
  BY DEF Free, Tasks
<1> HIDE DEF R, T
<1>5. t \in Task /\ T[t] = None /\ task[s][t] = None
  <2>1. \A u \in Task : T[u] # None <=> task[s][u] # None
    BY <1>4
  <2> QED  BY <2>1, <1>a
<1>6. CASE Update(s, [R EXCEPT ![q].planned = TRUE],
                  [T EXCEPT ![t] = NewTask(q, None, "User", "Pending")])
  <2> DEFINE w == NewTask(q, None, "User", "Pending")
             V == [T EXCEPT ![t] = w]
  <2>1. /\ w \in WorkTask /\ w # None /\ w.request = q /\ w.answer = None /\ w.defect_of = None
    BY <1>2, NoneAssumption DEF NewTask, WorkTask, Status
  <2> HIDE DEF w
  <2>2. Owes(R, V, asks)
    BY <1>2, <1>4, <1>5, <2>1, AddedOwes, NoneAssumption
  <2>3. V[t] = w /\ \A u \in Task : u # t => V[u] = T[u]
    BY <1>4, <1>5 DEF Owes, Tasked
  <2>4. Owes([R EXCEPT ![q].planned = TRUE], V, asks)
    BY <1>2, <1>5, <2>1, <2>2, <2>3, PlannedOwes DEF OwnedIn
  <2>5. Stays(task[s], V)
    BY <1>4, <1>5, <2>3 DEF Stays
  <2> QED  BY <1>1, <1>6, <2>4, <2>5, QuietStep DEF w
<1>7. ASSUME NEW x \in Requests(s) \cup Tasks(s), Reopenable(R, T, x),
             Update(s, [Owing(R, T, x) EXCEPT ![q].planned = TRUE], Repaired(R, T, x, t, q))
      PROVE  IInv' /\ AllStay
  <2> DEFINE S == Owing(R, T, x)
             V == Repaired(R, T, x, t, q)
  <2>1. x \in Request \cup Task
    BY DEF Requests, Tasks
  <2>2. /\ Owes(S, V, asks) /\ Stays(T, V) /\ V[t] # None /\ V[t].request = q
        /\ S[q] # None
    BY <1>2, <1>4, <1>5, <1>7, <2>1, DefectOwes
  <2> HIDE DEF S, V
  <2>3. OwnedIn(V, q) # {}
    BY <1>5, <2>2 DEF OwnedIn
  <2>4. Owes([S EXCEPT ![q].planned = TRUE], V, asks)
    BY <1>2, <2>2, <2>3, PlannedOwes
  <2>5. Stays(task[s], V)
    BY <1>4, <2>2, StaysThrough
  <2>6. Update(s, [S EXCEPT ![q].planned = TRUE], V)
    BY <1>7 DEF S, V
  <2> QED  BY <1>1, <2>4, <2>5, <2>6, QuietStep
<1> QED  BY <1>3, <1>6, <1>7 DEF R, T, Owing, Repaired

\* Work is added to a request that is neither covered nor paused.
LEMMA AppendStep ==
  ASSUME IInv, NEW s \in Session, Append(s)
  PROVE  IInv' /\ AllStay
<1> DEFINE R == request[s]
           T == task[s]
<1>1. Owes(R, T, asks) /\ Quiet
  BY DEF IInv, Owed, Append
<1>2. PICK q \in Latest(s), t \in Free(s) :
        Update(s, R, [T EXCEPT ![t] = NewTask(q, None, "Agent", "Pending")])
  BY DEF Append
<1>3. q \in Request /\ R[q] # None /\ ~R[q].covered /\ ~R[q].paused
  BY DEF Latest, Active, Requests
<1>4. ~R[q].completed
  BY <1>1, <1>3 DEF Owes, Counted
<1>5. t \in Task /\ T[t] = None
  BY DEF Free, Tasks
<1> DEFINE w == NewTask(q, None, "Agent", "Pending")
           U == [T EXCEPT ![t] = w]
<1>6. w \in WorkTask /\ w.request = q /\ w.answer = None /\ w.defect_of = None
  BY <1>3, NoneAssumption DEF NewTask, WorkTask, Status
<1> HIDE DEF w, R, T
<1>7. Owes(R, U, asks)
  BY <1>1, <1>3, <1>4, <1>5, <1>6, AddedOwes, NoneAssumption
<1>8. Stays(T, U)
  BY <1>1, <1>5 DEF Stays, Owes, Tasked
<1> QED  BY <1>1, <1>2, <1>7, <1>8, QuietStep DEF w, R, T

\* What the agent moves is not paused.
LEMMA AdvanceStep ==
  ASSUME IInv, NEW s \in Session, Advance(s)
  PROVE  IInv' /\ AllStay
<1> DEFINE R == request[s]
           T == task[s]
<1>1. Owes(R, T, asks) /\ Quiet
  BY DEF IInv, Owed, Advance
<1>2. PICK chosen \in Selected(s) :
        /\ \A t \in chosen : T[t].status # "Paused"
        /\ Update(s, R, Moved(T, chosen, "Pending"))
  BY DEF Advance
<1>3. chosen \in SUBSET {t \in Task : T[t] # None}
  BY DEF Selected, Tasks
<1>4. \A t \in chosen : T[t].status \notin Terminal => ~R[T[t].request].paused
  BY <1>1, <1>2, <1>3 DEF Owes, Sound
<1>5. Owes(R, Moved(T, chosen, "Pending"), asks) /\ Stays(T, Moved(T, chosen, "Pending"))
  BY <1>1, <1>3, <1>4, MovedOwes
<1> QED  BY <1>1, <1>2, <1>5, QuietStep

\* What the agent withdraws is cancelled.
LEMMA WithdrawStep ==
  ASSUME IInv, NEW s \in Session, Withdraw(s)
  PROVE  IInv' /\ AllStay
<1> DEFINE R == request[s]
           T == task[s]
<1>1. Owes(R, T, asks) /\ Quiet
  BY DEF IInv, Owed, Withdraw
<1>2. PICK chosen \in Selected(s) : Update(s, R, Moved(T, chosen, "Cancelled"))
  BY DEF Withdraw
<1>3. chosen \in SUBSET {t \in Task : T[t] # None}
  BY DEF Selected, Tasks
<1>4. Owes(R, Moved(T, chosen, "Cancelled"), asks) /\ Stays(T, Moved(T, chosen, "Cancelled"))
  BY <1>1, <1>3, MovedOwes
<1> QED  BY <1>1, <1>2, <1>4, QuietStep

\* A conversation goes where nothing waits to be written or handed over.
LEMMA TalkStep ==
  ASSUME IInv, NEW s \in Session, NEW phase \in {"idle", "work", "apply"}, Goto(s, phase),
         read' \in [Session -> Nat],
         seen' \in [Session -> [Ask -> OperatorAsk \cup {None}]],
         links' \in [Session -> SUBSET Link],
         \A x \in Session : x # s => links'[x] = links[x],
         UNCHANGED <<state, register, operator>>
  PROVE  IInv' /\ AllStay
<1>1. Owed' /\ AllStay
  BY RegisterOwed DEF state, register, IsAnswered
<1>2. at' \in [Session -> At] /\ at'[s] = phase /\ \A x \in Session : x # s => at'[x] = at[x]
  BY DEF IInv, Types, Goto, At
<1>3. Types'
  BY <1>2 DEF IInv, Types, state, register
<1>4. Agreed'
  BY <1>2 DEF IInv, Agreed, IsAnswered, state, register
<1> QED  BY <1>1, <1>3, <1>4 DEF IInv

\* Leaving forgets what was read and what was still to be written.
LEMMA LeaveTypes ==
  ASSUME IInv, NEW s \in Session, NEW phase \in At, Leave(s, phase)
  PROVE  /\ Goto(s, phase)
         /\ at' \in [Session -> At] /\ at'[s] = phase
         /\ read' \in [Session -> Nat]
         /\ seen' \in [Session -> [Ask -> OperatorAsk \cup {None}]]
         /\ links' \in [Session -> SUBSET Link]
         /\ \A x \in Session : x # s => at'[x] = at[x] /\ links'[x] = links[x]
  BY DEF Leave, Goto, IInv, Types, NoAsks

\* The steps that only move a conversation on.
LEMMA ConversationStep ==
  ASSUME IInv, NEW s \in Session,
         \/ BeginWork(s) \/ EndTurn(s) \/ BeginReview(s) \/ RefuseReview(s)
         \/ \E phase \in {"idle", "work"} : CommitFails(s, phase)
  PROVE  IInv' /\ AllStay
<1>1. CASE BeginWork(s)
  <2>1. Goto(s, "work") /\ UNCHANGED <<state, register, operator, read, seen, links>>
    BY <1>1 DEF BeginWork, Step, Elsewhere
  <2> QED  BY <2>1, TalkStep DEF IInv, Types
<1>2. CASE EndTurn(s)
  BY <1>2, LeaveTypes, TalkStep DEF EndTurn, Elsewhere, At
<1>3. CASE BeginReview(s)
  <2>1. /\ Goto(s, "apply") /\ UNCHANGED <<state, register, operator, links>>
        /\ read' \in [Session -> Nat] /\ seen' \in [Session -> [Ask -> OperatorAsk \cup {None}]]
    BY <1>3 DEF BeginReview, Elsewhere, IInv, Types
  <2> QED  BY <2>1, TalkStep DEF IInv, Types
<1>4. CASE RefuseReview(s)
  BY <1>4, LeaveTypes, TalkStep DEF RefuseReview, Elsewhere, At
<1>5. ASSUME NEW phase \in {"idle", "work"}, CommitFails(s, phase)
      PROVE  IInv' /\ AllStay
  BY <1>5, LeaveTypes, TalkStep DEF CommitFails, At
<1> QED  BY <1>1, <1>2, <1>3, <1>4, <1>5

\* What is collected is answered.
LEMMA CollectAnswersStep ==
  ASSUME IInv, NEW s \in Session, CollectAnswers(s)
  PROVE  IInv' /\ AllStay
<1> DEFINE L == {[task |-> t, ask |-> place[s][t], word |-> None] : t \in Given(s)}
<1>1. /\ links' = [links EXCEPT ![s] = L] /\ Goto(s, "hand")
      /\ UNCHANGED <<state, register, operator, read, seen>>
  BY DEF CollectAnswers, Elsewhere
<1>2. \A t \in Given(s) :
        t \in Task /\ place[s][t] \in Ask /\ IsAnswered(place[s][t])
  BY DEF Given, Tasks, IInv, Types, Agreed, IsAnswered
<1>3. L \in SUBSET Link /\ \A l \in L : IsAnswered(l.ask)
  BY <1>2 DEF Link
<1> HIDE DEF L
<1>4. /\ at' \in [Session -> At] /\ links' \in [Session -> SUBSET Link]
      /\ at'[s] = "hand" /\ links'[s] = L
      /\ \A x \in Session : x # s => at'[x] = at[x] /\ links'[x] = links[x]
  BY <1>1, <1>3 DEF IInv, Types, Goto, At
<1>5. Owed' /\ AllStay
  BY <1>1, RegisterOwed DEF state, register, IsAnswered
<1>6. Types'
  BY <1>1, <1>4 DEF IInv, Types, state, register
<1>7. Agreed'
  BY <1>1, <1>3, <1>4 DEF IInv, Agreed, IsAnswered, state, register
<1> QED  BY <1>5, <1>6, <1>7 DEF IInv

\* Tasks take what the conversation carries, which is recorded.
LEMMA HandAnswersStep ==
  ASSUME IInv, NEW s \in Session, HandAnswers(s)
  PROVE  IInv' /\ AllStay
<1> DEFINE T == task[s]
           From(t) == (CHOOSE l \in links[s] : l.task = t).ask
           U == [t \in Task |-> IF \E l \in links[s] : l.task = t
                                THEN Handed(T, t, From(t))[t] ELSE T[t]]
<1>1. /\ Owes(request[s], T, asks) /\ T \in [Task -> WorkTask \cup {None}]
      /\ Update(s, request[s], U) /\ Leave(s, "idle") /\ UNCHANGED <<register, operator>>
  BY DEF IInv, Owed, Owes, Tasked, HandAnswers, Elsewhere
<1>2. \A t \in Task : (\E l \in links[s] : l.task = t) => IsAnswered(From(t))
  BY DEF HandAnswers, IInv, Agreed
<1>3. \A t \in Task :
        \/ U[t] = T[t]
        \/ \E a \in Ask :
             /\ T[t] # None /\ Waits(T[t]) /\ asks[a] # None /\ asks[a].answered
             /\ U[t] = [T[t] EXCEPT !.status = "Pending", !.answer = a]
  <2> TAKE t \in Task
  <2>1. CASE (\E l \in links[s] : l.task = t) /\ Waits(T[t]) /\ T[t] # None
    <3>1. IsAnswered(From(t))
      BY <1>2, <2>1
    <3>2. U[t] = [T[t] EXCEPT !.status = "Pending", !.answer = From(t)]
      BY <1>1, <2>1, <3>1 DEF Handed, IsAnswered, Known
    <3> HIDE DEF From, U
    <3> QED  BY <2>1, <3>1, <3>2 DEF IsAnswered
  <2>2. CASE ~((\E l \in links[s] : l.task = t) /\ Waits(T[t]) /\ T[t] # None)
    BY <2>2 DEF Handed
  <2> QED  BY <2>1, <2>2
<1>4. U \in Tasked
  <2>1. \A t \in Task : U[t] \in WorkTask \cup {None}
    <3> TAKE t \in Task
    <3> HIDE DEF U, T
    <3>1. CASE U[t] = T[t]  BY <1>1, <3>1
    <3>2. CASE U[t] # T[t]
      <4>1. PICK a \in Ask :
              T[t] # None /\ U[t] = [T[t] EXCEPT !.status = "Pending", !.answer = a]
        BY <1>3, <3>2
      <4>2. T[t] \in WorkTask  BY <1>1, <4>1
      <4> QED  BY <4>1, <4>2 DEF WorkTask, Status
    <3> QED  BY <3>1, <3>2
  <2> QED  BY <2>1 DEF Tasked
<1> HIDE DEF U
<1>5. Owes(request[s], U, asks) /\ Stays(T, U)
  <2>1. Takes(T, U, asks)  BY <1>3, <1>4 DEF Takes
  <2> QED  BY <1>1, <2>1, TakesOwes
<1>6. Owed' /\ AllStay /\ revision' \in [Session -> Nat]
  BY <1>1, <1>5, UpdateOwed DEF register
<1>7. /\ at' \in [Session -> At] /\ at'[s] = "idle"
      /\ \A x \in Session : x # s => at'[x] = at[x] /\ links'[x] = links[x]
  BY <1>1, LeaveTypes DEF At
<1>8. Types'
  BY <1>1, <1>6, <1>7, LeaveTypes DEF IInv, Types, register, At
<1>9. Agreed'
  BY <1>1, <1>7 DEF IInv, Agreed, IsAnswered, register
<1> QED  BY <1>6, <1>8, <1>9 DEF IInv

\* The register grows by what a review put there.
LEMMA CommitLinksStep ==
  ASSUME IInv, NEW s \in Session, CommitLinks(s)
  PROVE  IInv' /\ AllStay
<1> DEFINE put == {l \in links[s] : place[s][l.task] # l.ask}
           Said(a) == {l.word : l \in {l \in put : l.ask = a}}
           Grown(a) == IF Said(a) = {} THEN asks[a]
                       ELSE IF Known(asks, a) THEN [asks[a] EXCEPT !.wordings = @ \cup Said(a)]
                       ELSE [word |-> CHOOSE w \in Said(a) : TRUE, wordings |-> Said(a),
                             answered |-> FALSE]
           Put(t) == IF \E l \in put : l.task = t THEN (CHOOSE l \in put : l.task = t).ask
                     ELSE place[s][t]
<1>1. /\ at[s] = "commit" /\ Leave(s, "work") /\ UNCHANGED <<state, operator>>
      /\ asks' = [a \in Ask |-> Grown(a)]
  BY DEF CommitLinks, With, Register
<1>2. place' = [place EXCEPT ![s] = [t \in Task |-> Put(t)]]
  BY DEF CommitLinks
<1>3. \A l \in put : l.task \in Task /\ l.ask \in Ask /\ l.word \in Word
  BY <1>1 DEF IInv, Types, Agreed, Link
<1>4. \A a \in Ask : /\ Said(a) \in SUBSET Word
                     /\ Said(a) # {} => (CHOOSE w \in Said(a) : TRUE) \in Said(a)
                     /\ \A l \in put : l.ask = a => Said(a) # {}
  BY <1>3
<1>5. \A a \in Ask :
        /\ Grown(a) \in OperatorAsk \cup {None}
        /\ asks[a] # None \/ Said(a) # {} => Grown(a) # None
        /\ asks[a] # None => Grown(a).answered = asks[a].answered
  <2> TAKE a \in Ask
  <2> HIDE DEF Said
  <2>1. asks[a] \in OperatorAsk \cup {None}
    BY DEF IInv, Types
  <2>2. CASE Said(a) = {}  BY <2>1, <2>2
  <2>3. CASE Said(a) # {} /\ asks[a] # None
    BY <1>4, <2>1, <2>3, NoneAssumption DEF OperatorAsk, Known
  <2>4. CASE Said(a) # {} /\ asks[a] = None
    <3> DEFINE c == CHOOSE w \in Said(a) : TRUE
    <3>1. c \in Word  BY <1>4, <2>4
    <3>2. Grown(a) = [word |-> c, wordings |-> Said(a), answered |-> FALSE]
      BY <2>4 DEF Known
    <3> HIDE DEF c, Grown
    <3>3. Grown(a) \in OperatorAsk
      BY <1>4, <3>1, <3>2 DEF OperatorAsk
    <3> QED  BY <2>4, <3>3, NoneAssumption
  <2> QED  BY <2>2, <2>3, <2>4
<1> HIDE DEF Grown
<1>6. /\ asks' \in [Ask -> OperatorAsk \cup {None}]
      /\ \A a \in Ask : /\ asks[a] # None => asks'[a] # None /\ asks'[a].answered = asks[a].answered
                        /\ Said(a) # {} => asks'[a] # None
  BY <1>1, <1>5
<1>7. \A t \in Task : /\ Put(t) \in Ask \cup {None}
                      /\ Put(t) # None => asks'[Put(t)] # None
  <2> TAKE t \in Task
  <2>1. CASE \E l \in put : l.task = t
    <3> DEFINE m == CHOOSE l \in put : l.task = t
    <3>1. m \in put  BY <2>1
    <3> HIDE DEF m, put
    <3>2. m.ask \in Ask /\ asks'[m.ask] # None  BY <1>3, <1>4, <1>6, <3>1
    <3> QED  BY <2>1, <3>2 DEF m
  <2>2. CASE ~ \E l \in put : l.task = t
    <3>1. Put(t) = place[s][t]  BY <2>2
    <3> HIDE DEF Put
    <3> QED  BY <1>6, <3>1 DEF IInv, Types, Agreed
  <2> QED  BY <2>1, <2>2
<1> HIDE DEF Put, Said, put
<1>8. /\ place' \in [Session -> [Task -> Ask \cup {None}]]
      /\ \A x \in Session : \A t \in Task : place'[x][t] # None => asks'[place'[x][t]] # None
  <2>1. /\ place' \in [Session -> [Task -> Ask \cup {None}]]
        /\ \A t \in Task : place'[s][t] = Put(t)
        /\ \A x \in Session : x # s => place'[x] = place[x]
    BY <1>2, <1>7 DEF IInv, Types
  <2> QED  BY <1>6, <1>7, <2>1 DEF IInv, Types, Agreed
<1>9. \A a \in Ask : IsAnswered(a) => IsAnswered(a)'
  BY <1>6 DEF IsAnswered
<1>10. Owed' /\ AllStay
  BY <1>1, <1>9, RegisterOwed DEF state
<1>11. /\ at' \in [Session -> At] /\ at'[s] = "work"
       /\ \A x \in Session : x # s => at'[x] = at[x] /\ links'[x] = links[x]
  BY <1>1, LeaveTypes DEF At
<1>12. Types'
  BY <1>1, <1>6, <1>8, <1>11, LeaveTypes DEF IInv, Types, state, At
<1>13. Agreed'
  <2>1. \A x \in Session : at'[x] = "hand" => \A l \in links'[x] : IsAnswered(l.ask)'
    BY <1>6, <1>11 DEF IInv, Agreed, IsAnswered
  <2>2. operator'.recorded => IsAnswered(operator.ask)'
    BY <1>1, <1>6 DEF IInv, Agreed, IsAnswered
  <2> QED  BY <1>1, <1>8, <1>11, <2>1, <2>2 DEF IInv, Agreed, IsAnswered
<1> QED  BY <1>10, <1>12, <1>13 DEF IInv

\* An accepted review: tasks are judged, requests whose tasks ended are covered,
\* and one that lacks a task gets it.
LEMMA ApplyReviewStep ==
  ASSUME IInv, NEW s \in Session, ApplyReview(s)
  PROVE  IInv' /\ AllStay
<1> DEFINE Judge(verdict) ==
             [t \in Task |-> IF t \in UnderReview(s) THEN Judged(s, task[s][t], verdict[t])
                             ELSE task[s][t]]
           Cover(T, covered) ==
             [q \in Request |->
                IF q \in Compared(s) /\ Covers(T, q, covered)
                THEN [request[s][q] EXCEPT !.covered = TRUE,
                        !.completed = @ \/ \E t \in OwnedIn(T, q) : T[t].status = "Done"]
                ELSE request[s][q]]
           Add(T, added) ==
             [t \in Task |->
                IF \E q \in DOMAIN added : added[q] = t
                THEN NewTask(CHOOSE q \in DOMAIN added : added[q] = t, None, "User", "Pending")
                ELSE T[t]]
           Say(verdict) ==
             {[task |-> t, ask |-> verdict[t].ask, word |-> verdict[t].word] : t \in Asking(verdict)}
<1>1. PICK verdict \in [UnderReview(s) -> Verdict], covered \in SUBSET Compared(s) :
        /\ \E added \in [Lacking(s, Judge(verdict), covered) -> Free(s)] :
             Update(s, Cover(Judge(verdict), covered), Add(Judge(verdict), added))
        /\ links' = [links EXCEPT ![s] = Say(verdict)]
        /\ Goto(s, IF Asking(verdict) = {} THEN "work" ELSE "commit")
  BY DEF ApplyReview
<1>2. /\ seen' = [seen EXCEPT ![s] = NoAsks] \/ seen' = seen
      /\ read' = [read EXCEPT ![s] = 0]
      /\ UNCHANGED <<register, operator>>
  BY DEF ApplyReview, Elsewhere
<1> DEFINE T == Judge(verdict)
           S == Cover(T, covered)
<1>3. PICK added \in [Lacking(s, T, covered) -> Free(s)] : Update(s, S, Add(T, added))
  BY <1>1
<1> DEFINE U == Add(T, added)
<1>4. \A t \in Asking(verdict) :
        /\ t \in Task /\ verdict[t].ask \in Ask /\ verdict[t].word \in Word
        /\ Words(s, verdict[t]) \in Word
  <2> SUFFICES ASSUME NEW t \in Asking(verdict)
               PROVE  /\ t \in Task /\ verdict[t].ask \in Ask /\ verdict[t].word \in Word
                      /\ Words(s, verdict[t]) \in Word
    OBVIOUS
  <2>1. t \in UnderReview(s) /\ verdict[t] \in Verdict /\ verdict[t].says = "Ask"
    BY DEF Asking
  <2>2. t \in Task  BY <2>1 DEF UnderReview, Open, Tasks
  <2>3. verdict[t].ask \in Ask /\ verdict[t].word \in Word
    BY <2>1 DEF Verdict
  <2>4. seen[s][verdict[t].ask] \in OperatorAsk \cup {None}
    BY <2>3 DEF IInv, Types
  <2> QED  BY <2>2, <2>3, <2>4 DEF Words, Known, OperatorAsk
<1>5. /\ Owes(request[s], T, asks)
      /\ \A t \in Task :
           /\ T[t] # None <=> task[s][t] # None
           /\ task[s][t] # None /\ task[s][t].status \in Terminal => T[t] = task[s][t]
  <2>1. Owes(request[s], task[s], asks)  BY DEF IInv, Owed
  <2> QED  BY <1>4, <2>1, JudgedOwes
<1> HIDE DEF T
<1>6. /\ Owes(S, T, asks)
      /\ \A q \in Request :
           /\ S[q] # None <=> request[s][q] # None
           /\ request[s][q] # None => S[q].paused = request[s][q].paused
           /\ q \notin covered => S[q] = request[s][q]
  <2>1. \A q \in Compared(s) : request[s][q] # None /\ request[s][q].planned
    BY DEF Compared, Requests
  <2> QED  BY <1>5, <2>1, CoveredOwes
<1> HIDE DEF S
<1>7. \A q \in Lacking(s, T, covered) :
        /\ q \in Request /\ S[q] # None /\ ~S[q].completed /\ ~S[q].paused
  <2> SUFFICES ASSUME NEW q \in Lacking(s, T, covered)
               PROVE  q \in Request /\ S[q] # None /\ ~S[q].completed /\ ~S[q].paused
    OBVIOUS
  <2>1. /\ q \in Request /\ q \notin covered /\ request[s][q] # None
        /\ ~request[s][q].covered /\ ~request[s][q].paused
    BY DEF Lacking, Compared, Requests
  <2>2. S[q] = request[s][q] /\ Counted(S, T, q)
    BY <1>6, <2>1 DEF Owes
  <2> QED  BY <2>1, <2>2 DEF Counted
<1>8. \A t \in Task :
        \/ U[t] = T[t]
        \/ /\ T[t] = None /\ U[t] \in WorkTask /\ S[U[t].request] # None
           /\ ~S[U[t].request].completed /\ ~S[U[t].request].paused
           /\ U[t].defect_of = None /\ U[t].answer = None
  <2> TAKE t \in Task
  <2>1. CASE \E q \in DOMAIN added : added[q] = t
    <3> DEFINE q == CHOOSE p \in DOMAIN added : added[p] = t
    <3>1. q \in DOMAIN added /\ added[q] = t  BY <2>1
    <3>2. U[t] = NewTask(q, None, "User", "Pending")  BY <2>1
    <3> HIDE DEF q, U
    <3>3. q \in Lacking(s, T, covered) /\ t \in Free(s)  BY <3>1
    <3>4. T[t] = None  BY <1>5, <3>3 DEF Free, Tasks
    <3>5. q \in Request /\ S[q] # None /\ ~S[q].completed /\ ~S[q].paused
      BY <1>7, <3>3
    <3>6. /\ U[t] \in WorkTask /\ U[t].request = q
          /\ U[t].defect_of = None /\ U[t].answer = None
      BY <3>2, <3>5 DEF NewTask, WorkTask, Status
    <3> QED  BY <3>4, <3>5, <3>6
  <2>2. CASE ~ \E q \in DOMAIN added : added[q] = t
    BY <2>2
  <2> QED  BY <2>1, <2>2
<1>9. U \in Tasked
  <2>1. \A t \in Task : U[t] \in WorkTask \cup {None}
    <3> HIDE DEF U
    <3> QED  BY <1>5, <1>8 DEF Owes, Tasked
  <2> QED  BY <2>1 DEF Tasked
<1> HIDE DEF U
<1>10. Owes(S, U, asks) /\ Stays(T, U)
  BY <1>6, <1>8, <1>9, ManyAdded, NoneAssumption
<1>11. Stays(task[s], U)
  BY <1>5, <1>10, StaysThrough
<1>12. Owed' /\ AllStay /\ revision' \in [Session -> Nat]
  <2>1. Update(s, S, U)  BY <1>3 DEF U
  <2> QED  BY <1>2, <1>10, <1>11, <2>1, UpdateOwed DEF register
<1>13. Say(verdict) \in SUBSET Link /\ \A l \in Say(verdict) : l.word \in Word
  BY <1>4 DEF Link
<1> DEFINE said == Say(verdict)
           phase == IF Asking(verdict) = {} THEN "work" ELSE "commit"
<1>14. phase \in {"work", "commit"} /\ links' = [links EXCEPT ![s] = said] /\ at' = [at EXCEPT ![s] = phase]
  BY <1>1 DEF Goto
<1> HIDE DEF said, phase
<1>15. /\ at' \in [Session -> At] /\ links' \in [Session -> SUBSET Link]
       /\ at'[s] \in {"work", "commit"} /\ \A l \in links'[s] : l.word \in Word
       /\ \A x \in Session : x # s => at'[x] = at[x] /\ links'[x] = links[x]
  BY <1>13, <1>14 DEF IInv, Types, At, said
<1>s. seen' \in [Session -> [Ask -> OperatorAsk \cup {None}]] /\ read' \in [Session -> Nat]
  <2>1. NoAsks \in [Ask -> OperatorAsk \cup {None}]
    BY DEF NoAsks
  <2> QED  BY <1>2, <2>1 DEF IInv, Types
<1>16. Types'
  BY <1>2, <1>s, <1>12, <1>15 DEF IInv, Types, register
<1>17. Agreed'
  BY <1>2, <1>15 DEF IInv, Agreed, IsAnswered, register
<1> QED  BY <1>12, <1>16, <1>17 DEF IInv

-----------------------------------------------------------------------------
(* The steps of an answer.                                                    *)

\* The answer under way as Delivering leaves it: recorded as long as a place is left.
LEMMA UnderWay ==
  ASSUME NEW a \in Ask, NEW s \in Session \cup {None}, NEW n \in Nat,
         NEW left \in SUBSET (Session \X Task), Delivering(a, s, n, left)
  PROVE  /\ operator' \in [ask : Ask \cup {None}, session : Session \cup {None}, revision : Nat,
                           recorded : BOOLEAN, left : SUBSET (Session \X Task)]
         /\ operator'.recorded => operator'.ask = a
         /\ operator'.left # {} => operator'.recorded
  BY DEF Delivering, Idle

\* An ask is answered in the register, and the answer is under way.
LEMMA AnsweredStep ==
  ASSUME IInv, NEW a \in Ask, NEW s \in Session \cup {None}, NEW n \in Nat,
         Answered(a), Delivering(a, s, n, Places(a)), UNCHANGED <<state, place, conversation>>
  PROVE  IInv' /\ AllStay
<1>1. /\ asks' \in [Ask -> OperatorAsk \cup {None}] /\ IsAnswered(a)'
      /\ \A b \in Ask : asks[b] # None =>
           asks'[b] # None /\ (asks[b].answered => asks'[b].answered)
  BY NoneAssumption DEF IInv, Types, Answered, Known, OperatorAsk, IsAnswered
<1>2. \A b \in Ask : IsAnswered(b) => IsAnswered(b)'
  BY <1>1 DEF IsAnswered
<1>3. Owed' /\ AllStay
  BY <1>2, RegisterOwed DEF state
<1>4. Places(a) \in SUBSET (Session \X Task)
  BY DEF Places
<1>5. /\ operator' \in [ask : Ask \cup {None}, session : Session \cup {None}, revision : Nat,
                        recorded : BOOLEAN, left : SUBSET (Session \X Task)]
      /\ operator'.recorded => operator'.ask = a
      /\ operator'.left # {} => operator'.recorded
  BY <1>4, UnderWay
<1>6. Types'
  BY <1>1, <1>5 DEF IInv, Types, state, conversation
<1>7. Agreed'
  <2>1. \A x \in Session : \A t \in Task : place'[x][t] # None => asks'[place'[x][t]] # None
    BY <1>1 DEF IInv, Types, Agreed
  <2>2. \A x \in Session : at'[x] = "hand" => \A l \in links'[x] : IsAnswered(l.ask)'
    BY <1>1 DEF IInv, Agreed, IsAnswered, conversation
  <2>3. operator'.recorded => operator'.ask \in Ask /\ asks'[operator'.ask] # None
                                /\ asks'[operator'.ask].answered
    BY <1>1, <1>5 DEF IsAnswered
  <2> QED  BY <1>5, <2>1, <2>2, <2>3 DEF IInv, Agreed, IsAnswered, conversation
<1> QED  BY <1>3, <1>6, <1>7 DEF IInv

\* The operator's answer moves on without an ask or a task changing.
LEMMA OperatorStep ==
  ASSUME IInv, UNCHANGED <<state, register, conversation>>,
         operator' \in [ask : Ask \cup {None}, session : Session \cup {None}, revision : Nat,
                        recorded : BOOLEAN, left : SUBSET (Session \X Task)],
         operator'.recorded => operator.recorded /\ operator'.ask = operator.ask,
         operator'.left # {} => operator'.recorded
  PROVE  IInv' /\ AllStay
<1>1. Owed' /\ AllStay
  BY RegisterOwed DEF state, register, IsAnswered
<1>2. Types'
  BY DEF IInv, Types, state, register, conversation
<1>3. Agreed'
  BY DEF IInv, Agreed, IsAnswered, register, conversation
<1> QED  BY <1>1, <1>2, <1>3 DEF IInv

\* An answer that was named, given up or refused is not recorded.
LEMMA NamedStep ==
  ASSUME IInv,
         \/ \E s \in Session, t \in Task : NameTask(s, t)
         \/ AnswerRefused \/ OperatorStops
  PROVE  IInv' /\ AllStay
<1>1. ASSUME NEW s \in Session, NEW t \in Task, NameTask(s, t)
      PROVE  IInv' /\ AllStay
  <2>1. /\ operator' = [ask |-> place[s][t], session |-> s, revision |-> revision[s],
                        recorded |-> FALSE, left |-> {}]
        /\ UNCHANGED <<state, register, conversation>>
    BY <1>1 DEF NameTask, Named
  <2>2. place[s][t] \in Ask \cup {None} /\ revision[s] \in Nat
    BY DEF IInv, Types
  <2> QED  BY <2>1, <2>2, OperatorStep
<1>2. CASE AnswerRefused \/ OperatorStops
  <2>1. operator' = Idle /\ UNCHANGED <<state, register, conversation>>
    BY <1>2 DEF AnswerRefused, OperatorStops
  <2> QED  BY <2>1, OperatorStep DEF Idle
<1> QED  BY <1>1, <1>2

\* A task's words become an ask that nobody has answered.
LEMMA AdoptStep ==
  ASSUME IInv, NEW s \in Session, NEW t \in Task, Adopt(s, t)
  PROVE  IInv' /\ AllStay
<1> DEFINE w == task[s][t].ask
           same == {a \in Ask : Known(asks, a) /\ asks[a].word = w}
           new == [word |-> w, wordings |-> {w}, answered |-> FALSE]
<1>1. PICK a \in (IF same = {} THEN Unused ELSE same) :
        /\ asks' = IF same = {} THEN [asks EXCEPT ![a] = new] ELSE asks
        /\ place' = [place EXCEPT ![s][t] = a]
        /\ Named(a, s)
  BY DEF Adopt
<1>2. UNCHANGED <<state, conversation>>
  BY DEF Adopt
<1>3. w \in Word
  BY DEF Adopt, Answerable, Open, Tasks, IInv, Owed, Tasked, WorkTask
<1> HIDE DEF w
<1>4. new \in OperatorAsk /\ new # None
  <2>1. new \in OperatorAsk  BY <1>3 DEF OperatorAsk
  <2> QED  BY <2>1, NoneAssumption
<1> HIDE DEF new
<1>5. /\ a \in Ask
      /\ same = {} => asks[a] = None
      /\ same # {} => asks[a] # None
  BY <1>1 DEF Unused, Known
<1>6. /\ asks' \in [Ask -> OperatorAsk \cup {None}] /\ asks'[a] # None
      /\ \A b \in Ask : asks[b] # None => asks'[b] = asks[b]
  BY <1>1, <1>4, <1>5 DEF IInv, Types
<1>7. \A b \in Ask : IsAnswered(b) => IsAnswered(b)'
  BY <1>6 DEF IsAnswered
<1>8. Owed' /\ AllStay
  BY <1>2, <1>7, RegisterOwed DEF state
<1>9. /\ place' \in [Session -> [Task -> Ask \cup {None}]]
      /\ \A x \in Session, u \in Task : place'[x][u] = a \/ place'[x][u] = place[x][u]
  BY <1>1, <1>5 DEF IInv, Types
<1>10. /\ operator' \in [ask : Ask \cup {None}, session : Session \cup {None}, revision : Nat,
                         recorded : BOOLEAN, left : SUBSET (Session \X Task)]
       /\ ~operator'.recorded /\ operator'.left = {}
  BY <1>1, <1>5 DEF Named, IInv, Types
<1>11. Types'
  BY <1>2, <1>6, <1>9, <1>10 DEF IInv, Types, state, conversation
<1>12. Agreed'
  <2>1. \A x \in Session : \A u \in Task : place'[x][u] # None => asks'[place'[x][u]] # None
    <3> SUFFICES ASSUME NEW x \in Session, NEW u \in Task, place'[x][u] # None
                 PROVE  asks'[place'[x][u]] # None
      OBVIOUS
    <3>1. CASE place'[x][u] = a  BY <1>6, <3>1
    <3>2. CASE place'[x][u] = place[x][u]
      BY <1>6, <3>2 DEF IInv, Types, Agreed
    <3> QED  BY <1>9, <3>1, <3>2
  <2>2. \A x \in Session : at'[x] = "hand" => \A l \in links'[x] : IsAnswered(l.ask)'
    BY <1>2, <1>6 DEF IInv, Agreed, IsAnswered, conversation
  <2> QED  BY <1>2, <1>10, <2>1, <2>2 DEF IInv, Agreed, IsAnswered, conversation
<1> QED  BY <1>8, <1>11, <1>12 DEF IInv

\* An answer reaches one of its places, or fails to.
LEMMA DeliverStep ==
  ASSUME IInv, NEW s \in Session, NEW t \in Task, Deliver(s, t) \/ DeliverFails(s, t)
  PROVE  IInv' /\ AllStay
<1> DEFINE a == operator.ask
           left == operator.left \ {<<s, t>>}
<1>1. IsAnswered(a) /\ operator.recorded
  BY DEF Deliver, DeliverFails, IInv, Agreed
<1>2. /\ a \in Ask /\ operator.session \in Session \cup {None} /\ operator.revision \in Nat
      /\ left \in SUBSET (Session \X Task)
  BY <1>1 DEF IsAnswered, IInv, Types
<1>3. Delivering(a, operator.session, operator.revision, left)
  BY DEF Deliver, DeliverFails, Delivered
<1> HIDE DEF left
<1>4. /\ operator' \in [ask : Ask \cup {None}, session : Session \cup {None}, revision : Nat,
                        recorded : BOOLEAN, left : SUBSET (Session \X Task)]
      /\ operator'.recorded => operator'.ask = a
      /\ operator'.left # {} => operator'.recorded
  BY <1>2, <1>3, UnderWay
<1>5. CASE DeliverFails(s, t)
  BY <1>1, <1>4, <1>5, OperatorStep DEF DeliverFails
<1>6. CASE Deliver(s, t)
  <2> DEFINE T == task[s]
             U == Handed(T, t, a)
  <2>1. /\ Owes(request[s], T, asks) /\ T \in [Task -> WorkTask \cup {None}]
        /\ Update(s, request[s], U) /\ UNCHANGED <<register, conversation>>
    BY <1>6 DEF IInv, Owed, Owes, Tasked, Deliver
  <2> DEFINE w == [T[t] EXCEPT !.status = "Pending", !.answer = a]
  <2>2. \/ U = T
        \/ T[t] # None /\ Waits(T[t]) /\ U = [T EXCEPT ![t] = w]
    BY DEF Handed
  <2>3. T[t] # None => w \in WorkTask
    BY <1>2, <2>1 DEF WorkTask, Status
  <2>4. Takes(T, U, asks)
    <3>1. CASE U = T  BY <2>1, <3>1 DEF Takes, Tasked
    <3>2. CASE T[t] # None /\ Waits(T[t]) /\ U = [T EXCEPT ![t] = w]
      <4>1. w \in WorkTask /\ asks[a] # None /\ asks[a].answered
        BY <1>1, <2>3, <3>2 DEF IsAnswered
      <4>2. w = [T[t] EXCEPT !.status = "Pending", !.answer = a]
        OBVIOUS
      <4> HIDE DEF w, U, T
      <4>3. U \in Tasked /\ U[t] = w /\ \A x \in Task : x # t => U[x] = T[x]
        BY <2>1, <3>2, <4>1 DEF Tasked
      <4> QED  BY <1>2, <3>2, <4>1, <4>2, <4>3 DEF Takes
    <3> QED  BY <2>2, <3>1, <3>2
  <2> HIDE DEF U
  <2>5. Owes(request[s], U, asks) /\ Stays(T, U)
    BY <2>1, <2>4, TakesOwes
  <2>6. Owed' /\ AllStay /\ revision' \in [Session -> Nat]
    BY <2>1, <2>5, UpdateOwed DEF register
  <2>7. Types'
    BY <1>4, <2>1, <2>6 DEF IInv, Types, register, conversation
  <2>8. Agreed'
    BY <1>1, <1>4, <2>1 DEF IInv, Agreed, IsAnswered, register, conversation
  <2> QED  BY <2>6, <2>7, <2>8 DEF IInv
<1> QED  BY <1>5, <1>6

\* An answer is recorded: one given to the register, or one that was named.
LEMMA AnswerStep ==
  ASSUME IInv, (\E a \in Ask : AnswerAsk(a)) \/ RecordAnswer
  PROVE  IInv' /\ AllStay
<1>1. ASSUME NEW a \in Ask, AnswerAsk(a) PROVE IInv' /\ AllStay
  BY <1>1, AnsweredStep DEF AnswerAsk
<1>2. CASE RecordAnswer
  <2>1. /\ operator.ask \in Ask /\ operator.session \in Session \cup {None}
        /\ operator.revision \in Nat
    BY <1>2 DEF RecordAnswer, IInv, Types
  <2> QED  BY <1>2, <2>1, AnsweredStep DEF RecordAnswer
<1> QED  BY <1>1, <1>2

-----------------------------------------------------------------------------
(* The specification.                                                         *)

\* Nothing is owed yet.
LEMMA InitInv == Init => IInv
<1> SUFFICES ASSUME Init PROVE IInv
  OBVIOUS
<1>1. Owed
  BY DEF Init, Owed, Owes, Requested, Tasked
<1>2. Types
  BY DEF Init, Types, NoAsks, At, Idle
<1>3. Agreed
  BY DEF Init, Agreed, Idle
<1> QED  BY <1>1, <1>2, <1>3 DEF IInv

\* The operator's steps.
LEMMA OperateStep ==
  ASSUME IInv, NEW s \in Session, Operate(s)
  PROVE  IInv' /\ AllStay
<1>1. ASSUME NEW q \in Request, PauseRequest(s, q) PROVE IInv' /\ AllStay
  BY <1>1, ControlRequestStep DEF PauseRequest
<1>2. ASSUME NEW q \in Request, ResumeRequest(s, q) PROVE IInv' /\ AllStay
  BY <1>2, ControlRequestStep DEF ResumeRequest
<1> QED  BY <1>1, <1>2, CaptureStep, CancelRequestStep, ControlTaskStep, ReportDefectStep,
            InheritStep, WriteBlockerStep DEF Operate

\* The steps of a turn.
LEMMA TurnStep ==
  ASSUME IInv, NEW s \in Session, Turn(s)
  PROVE  IInv' /\ AllStay
  BY PlanStep, ConversationStep, AppendStep, AdvanceStep, WithdrawStep, ApplyReviewStep,
     CommitLinksStep, CollectAnswersStep, HandAnswersStep DEF Turn

\* Every step, and no step, keeps the invariant and lets what ended stay ended.
LEMMA NextInv ==
  ASSUME IInv, [Next]_vars
  PROVE  IInv' /\ AllStay
<1>1. CASE Next
  <2>1. CASE Answering
    <3>1. ASSUME NEW s \in Session, NEW t \in Task,
                 NameTask(s, t) \/ Adopt(s, t) \/ Deliver(s, t) \/ DeliverFails(s, t)
          PROVE  IInv' /\ AllStay
      BY <3>1, NamedStep, AdoptStep, DeliverStep
    <3>2. CASE (\E a \in Ask : AnswerAsk(a)) \/ RecordAnswer
      BY <3>2, AnswerStep
    <3>3. CASE AnswerRefused \/ OperatorStops
      BY <3>3, NamedStep
    <3> QED  BY <2>1, <3>1, <3>2, <3>3 DEF Answering
  <2>2. ASSUME NEW s \in Session, Operate(s) \/ Turn(s) PROVE IInv' /\ AllStay
    BY <2>2, OperateStep, TurnStep
  <2> QED  BY <1>1, <2>1, <2>2 DEF Next
<1>2. CASE UNCHANGED vars
  <2>1. UNCHANGED <<state, register, conversation, operator>>
    BY <1>2 DEF vars
  <2>2. Owed' /\ AllStay
    BY <2>1, RegisterOwed DEF state, register, IsAnswered
  <2>3. Types' /\ Agreed'
    BY <2>1 DEF IInv, Types, Agreed, IsAnswered, state, register, conversation
  <2> QED  BY <2>2, <2>3 DEF IInv
<1> QED  BY <1>1, <1>2

\* In every reachable state, whatever is captured, planned, reviewed, answered and
\* controlled at the same time, every session owes consistently: IInv.
THEOREM SpecInv == Spec => []IInv
  BY InitInv, NextInv, PTL DEF Spec

\* What is owed is valid.
LEMMA InvType == IInv => TypeOK
<1> SUFFICES ASSUME IInv PROVE TypeOK
  OBVIOUS
<1>1. \A s \in Session : Valid(s)
  <2> SUFFICES ASSUME NEW s \in Session PROVE Valid(s)
    OBVIOUS
  <2>1. /\ \A t \in Task : task[s][t] # None =>
             Sound(request[s], task[s], asks, t) /\ task[s][t] \in WorkTask
        /\ \A q \in Request : request[s][q] # None => Counted(request[s], task[s], q)
    BY DEF IInv, Owed, Owes, Tasked
  <2>2. \A t \in Tasks(s) :
          /\ task[s][t].request \in Requests(s)
          /\ task[s][t].defect_of \in {None} \cup Requests(s) \cup (Tasks(s) \ {t})
    BY <2>1, NoneAssumption DEF Tasks, Requests, Sound, WorkTask
  <2>3. \A q \in Requests(s) :
          /\ request[s][q].planned => Owned(s, q) # {}
          /\ request[s][q].completed => request[s][q].covered
    BY <2>1 DEF Requests, Counted, Owned, OwnedIn
  <2> QED  BY <2>2, <2>3 DEF Valid
<1> QED  BY <1>1 DEF IInv, Owed, Types, TypeOK, Requested, Tasked

\* What is owed stays paused.
LEMMA InvPaused == IInv => PausedStopsWork
  BY DEF IInv, Owed, Owes, Sound, PausedStopsWork, Open, Tasks

\* What counts as completed is done.
LEMMA InvCompleted == IInv => CompletedIsDone
<1> SUFFICES ASSUME IInv, NEW s \in Session, NEW q \in Requests(s), request[s][q].completed
             PROVE  /\ request[s][q].planned /\ request[s][q].covered
                    /\ Owned(s, q) \cap Open(s) = {}
                    /\ \E t \in Owned(s, q) : task[s][t].status = "Done"
  BY DEF CompletedIsDone
<1>1. q \in Request /\ Counted(request[s], task[s], q)
  BY DEF IInv, Owed, Owes, Requests
<1> QED  BY <1>1 DEF Counted, Owned, OwnedIn, Open, Tasks

\* No defect is of a defect.
LEMMA InvOriginal == IInv => DefectOfOriginal
  BY DEF IInv, Owed, Owes, Sound, DefectOfOriginal, Tasked, WorkTask, Tasks, Requests

\* Answers of tasks are recorded.
LEMMA InvAnswered == IInv => AnswerRecorded
  BY DEF IInv, Owed, Owes, Sound, AnswerRecorded, Tasks, Known

\* No operation, alone or between the steps of another, leaves a session that
\* validate() refuses.
THEOREM TypeCorrect == Spec => []TypeOK
  BY SpecInv, InvType, PTL

\* What is added to, reviewed in or reopened of a paused request is paused.
THEOREM PausedHolds == Spec => []PausedStopsWork
  BY SpecInv, InvPaused, PTL

\* A request counts as completed only while its every task has ended and one is
\* done.
THEOREM CompletedHolds == Spec => []CompletedIsDone
  BY SpecInv, InvCompleted, PTL

\* A task holds only what the register holds as answered.
THEOREM AnsweredHolds == Spec => []AnswerRecorded
  BY SpecInv, InvAnswered, PTL

\* The search for what a defect was first reported of ends at the first link.
THEOREM DefectsHold == Spec => []DefectOfOriginal
  BY SpecInv, InvOriginal, PTL

\* No step of any session undoes a cancellation, or a task that is done without
\* a defect.
THEOREM TerminalHolds == Spec => TerminalStays
<1>1. IInv /\ [Next]_vars => AllStay
  BY NextInv
<1>2. AllStay => \A s \in Session : \A t \in Tasks(s) :
        /\ task[s][t].status = "Cancelled" => task'[s][t] = task[s][t]
        /\ task[s][t].status = "Done" /\ task'[s][t].status # "Done" =>
             \E u \in Free(s) : /\ task'[s][u] # None
                                /\ task'[s][u].defect_of \in {t, task[s][t].request}
  BY DEF AllStay, Stays, Tasks, Free
<1> QED  BY SpecInv, <1>1, <1>2, PTL DEF Spec, TerminalStays
=============================================================================
