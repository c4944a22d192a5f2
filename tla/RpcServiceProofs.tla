-------------------------- MODULE RpcServiceProofs --------------------------
(***************************************************************************)
(* Proofs about RpcService, for any callers, keys, threads, limits,        *)
(* failures and bounds.                                                    *)
(***************************************************************************)
EXTENDS RpcService, FiniteSetTheorems, TLAPS

\* A request whose record was written and whose prompt did not start: it has
\* its key to itself, and nothing is on its stream.
Waiting(r) ==
  /\ r \in 1..Len(keyOf)
  /\ record[keyOf[r]] = Active(r)
  /\ r \notin ran[keyOf[r]] \cup given[keyOf[r]]
  /\ unrecorded[keyOf[r]] # r
  /\ kept[r] = 0

\* The request of a call before its answer waits, in no other hands.
CallOK(c) ==
  /\ pc[c] # "idle" => mine[c] \in 1..Len(keyOf)
  /\ pc[c] \in Holding =>
       /\ Waiting(mine[c])
       /\ \A d \in Caller : pc[d] \in Holding /\ mine[d] = mine[c] => d = c
       /\ \A i \in 1..Len(queue) : queue[i] # mine[c]

\* So does a queued one.
QueueOK(i) ==
  /\ Waiting(queue[i])
  /\ \A j \in 1..Len(queue) : queue[j] = queue[i] => j = i

\* Whatever was prompted, answered or kept in memory under a key is what its
\* record names, which was drawn for that key.
KeyOK(k) ==
  /\ record[k] # NoRecord =>
       record[k].request \in 1..Len(keyOf) /\ keyOf[record[k].request] = k
  /\ \A r \in ran[k] \cup given[k] : record[k].request = r
  /\ unrecorded[k] # NoRequest => record[k].request = unrecorded[k]

\* A worker's job was prompted under its key, and its stream keeps no more than
\* was forwarded.
WorkerOK(w) ==
  /\ worker[w] \notin {"recv", "exited"} =>
       job[w] \in 1..Len(keyOf) /\ job[w] \in ran[keyOf[job[w]]]
  /\ worker[w] \in {"prompt", "emit", "join", "panicked"} => kept[job[w]] <= forwarded[job[w]]

\* A worker with a permit, and one that is counted as pending.
WithPermit == Prompting \cup {"release"}
Counted == WithPermit \cup {"pop"}
Callers(A) == {c \in Caller : pc[c] \in A}
Workers(A) == {w \in Worker : worker[w] \in A}
Permits == Cardinality(Callers(Permitted))
Having(A) == Cardinality(Workers(A))

CallInv == \A c \in Caller : CallOK(c)
QueueInv == \A i \in 1..Len(queue) : QueueOK(i)
KeyInv == \A k \in Key : KeyOK(k)
WorkerInv == \A w \in Worker : WorkerOK(w)
\* Nothing is on a stream of a request that was not drawn.
FreshInv == \A r \in Request : r > Len(keyOf) => kept[r] = 0
PermitInv == active = Permits + Len(queue) + Having(WithPermit)
PendingInv == pending >= Len(queue) + Having(Counted)

Hands == CallInv /\ QueueInv
Known == KeyInv /\ WorkerInv /\ FreshInv
Counts == PermitInv /\ PendingInv
IInv == TypeOK /\ Hands /\ Known /\ Counts

\* The model's abbreviations are expanded in every step.
USE DEF At, Goto, Return, Step, disk, pool, threads, prompts, calls, history, bounds,
        NoRequest, Active, Completed, NoRecord, Holding, Permitted, Prompting, Dead

-----------------------------------------------------------------------------
(* How many are where.                                                      *)

\* Two sets that differ in x at most.
LEMMA OneMoves ==
  ASSUME NEW S, IsFiniteSet(S), NEW P \in SUBSET S, NEW Q \in SUBSET S,
         NEW x \in S, P \ {x} = Q \ {x}
  PROVE  /\ Cardinality(P) \in Nat /\ Cardinality(Q) \in Nat
         /\ x \in P /\ x \in Q => Cardinality(Q) = Cardinality(P)
         /\ x \notin P /\ x \notin Q => Cardinality(Q) = Cardinality(P)
         /\ x \notin P /\ x \in Q => Cardinality(Q) = Cardinality(P) + 1
         /\ x \in P /\ x \notin Q => Cardinality(Q) = Cardinality(P) - 1
<1>1. IsFiniteSet(P) /\ IsFiniteSet(Q)  BY FS_Subset
<1>2. Cardinality(P) \in Nat /\ Cardinality(Q) \in Nat  BY <1>1, FS_CardinalityType
<1>3. CASE x \in P <=> x \in Q
  <2>1. P = Q  BY <1>3
  <2> QED BY <1>2, <1>3, <2>1
<1>4. CASE x \notin P /\ x \in Q
  <2>1. Q = P \cup {x}  BY <1>4
  <2>2. Cardinality(Q) = Cardinality(P) + 1  BY <1>1, <1>4, <2>1, FS_AddElement
  <2> QED BY <1>2, <1>4, <2>2
<1>5. CASE x \in P /\ x \notin Q
  <2>1. Q = P \ {x}  BY <1>5
  <2>2. Cardinality(Q) = Cardinality(P) - 1  BY <1>1, <1>5, <2>1, FS_RemoveElement
  <2> QED BY <1>2, <1>5, <2>2
<1> QED BY <1>3, <1>4, <1>5

\* A caller moves: how many hold a permit.
LEMMA CallerMoves ==
  ASSUME IInv, NEW c \in Caller, NEW to, Goto(c, to)
  PROVE  /\ Permits \in Nat /\ Permits' \in Nat
         /\ pc[c] \in Permitted /\ to \in Permitted => Permits' = Permits
         /\ pc[c] \notin Permitted /\ to \notin Permitted => Permits' = Permits
         /\ pc[c] \notin Permitted /\ to \in Permitted => Permits' = Permits + 1
         /\ pc[c] \in Permitted /\ to \notin Permitted => Permits' = Permits - 1
<1> DEFINE P == Callers(Permitted)
           Q == (Callers(Permitted))'
<1>1. P \in SUBSET Caller /\ Q \in SUBSET Caller  BY DEF Callers, Workers
<1>2. pc \in [Caller -> {"idle", "lookup"} \cup Holding]  BY DEF IInv, TypeOK
<1>3. P \ {c} = Q \ {c}  BY <1>2 DEF Callers, Workers
<1>4. (c \in P <=> pc[c] \in Permitted) /\ (c \in Q <=> to \in Permitted)
  BY <1>2 DEF Callers
<1>5. Permits = Cardinality(P) /\ Permits' = Cardinality(Q)  BY DEF Permits, Having
<1> HIDE DEF P, Q
<1> QED BY <1>1, <1>3, <1>4, <1>5, OneMoves, SetAssumption

\* A worker moves: how many are in A.
LEMMA WorkerMoves ==
  ASSUME IInv, NEW w \in Worker, NEW to, worker' = [worker EXCEPT ![w] = to], NEW A
  PROVE  /\ Having(A) \in Nat /\ Having(A)' \in Nat
         /\ worker[w] \in A /\ to \in A => Having(A)' = Having(A)
         /\ worker[w] \notin A /\ to \notin A => Having(A)' = Having(A)
         /\ worker[w] \notin A /\ to \in A => Having(A)' = Having(A) + 1
         /\ worker[w] \in A /\ to \notin A => Having(A)' = Having(A) - 1
<1> DEFINE P == Workers(A)
           Q == (Workers(A))'
<1>1. P \in SUBSET Worker /\ Q \in SUBSET Worker  BY DEF Callers, Workers
<1>2. worker \in [Worker -> {"recv", "release", "pop"} \cup Prompting \cup Dead]  BY DEF IInv, TypeOK
<1>3. P \ {w} = Q \ {w}  BY <1>2 DEF Callers, Workers
<1>4. (w \in P <=> worker[w] \in A) /\ (w \in Q <=> to \in A)
  BY <1>2 DEF Workers
<1>5. Having(A) = Cardinality(P) /\ Having(A)' = Cardinality(Q)  BY DEF Permits, Having
<1> HIDE DEF P, Q
<1> QED BY <1>1, <1>3, <1>4, <1>5, OneMoves, SetAssumption

\* All the counts are numbers.
LEMMA CountsAreNumbers ==
  ASSUME IInv
  PROVE  /\ Permits \in Nat
         /\ \A A : Having(A) \in Nat
         /\ Len(queue) \in Nat /\ active \in Nat /\ pending \in Nat
<1>1. IsFiniteSet(Callers(Permitted))  BY FS_Subset, SetAssumption DEF Callers
<1>2. ASSUME NEW A PROVE Having(A) \in Nat
  <2>1. IsFiniteSet(Workers(A))  BY FS_Subset, SetAssumption DEF Workers
  <2> QED BY <2>1, FS_CardinalityType DEF Having
<1>3. Len(queue) \in Nat /\ active \in Nat /\ pending \in Nat
  BY LimitAssumption DEF IInv, TypeOK
<1> QED BY <1>1, <1>2, <1>3, FS_CardinalityType DEF Permits

LEMMA InitIInv == Init => IInv
<1> SUFFICES ASSUME Init PROVE IInv  OBVIOUS
<1> USE DEF Init
<1>1. TypeOK
  <2>1. active \in 0..MaxActive /\ Len(queue) <= QueuePlaces /\ Len(keyOf) <= MaxRequests
    BY LimitAssumption, BoundAssumption
  <2>2. /\ kept \in [Request -> 0..MaxEvents] /\ sent \in [Request -> 0..MaxEvents]
        /\ forwarded \in [Request -> 0..MaxEvents + 1]
        /\ restarts \in 0..MaxRestarts /\ panics \in 0..MaxPanics
    BY BoundAssumption
  <2>3. /\ record \in [Key -> Record \cup {NoRecord}]
        /\ keyOf \in Seq(Key) /\ queue \in Seq(Request)
        /\ ran \in [Key -> SUBSET Request] /\ given \in [Key -> SUBSET Request]
    OBVIOUS
  <2>4. /\ worker \in [Worker -> {"recv", "release", "pop"} \cup Prompting \cup Dead]
        /\ pc \in [Caller -> {"idle", "lookup"} \cup Holding]
        /\ job \in [Worker -> Request \cup {NoRequest}]
        /\ mine \in [Caller -> Request \cup {NoRequest}]
        /\ unrecorded \in [Key -> Request \cup {NoRequest}]
        /\ ended \in [Request -> BOOLEAN]
    OBVIOUS
  <2>5. /\ pending \in Nat /\ started \subseteq Request /\ sender \in BOOLEAN
        /\ readiness \in {"Ready", "Draining", "Stopped"}
        /\ drain \in {"no", "wait", "take", "join", "done"}
    OBVIOUS
  <2> HIDE DEF Init
  <2> QED BY <2>1, <2>2, <2>3, <2>4, <2>5, Zenon DEF TypeOK
<1>2. Hands  BY DEF Hands, CallInv, QueueInv, CallOK, QueueOK
<1>3. Known  BY DEF Known, KeyInv, KeyOK, WorkerInv, WorkerOK, FreshInv
<1>4. Counts
  <2>1. Callers(Permitted) = {} /\ Workers(WithPermit) = {} /\ Workers(Counted) = {}
    BY DEF Callers, Workers, WithPermit, Counted
  <2>2. Cardinality({}) = 0  BY FS_EmptySet
  <2>3. active = 0 /\ pending = 0 /\ Len(queue) = 0  OBVIOUS
  <2>4. Permits = 0 /\ Having(WithPermit) = 0 /\ Having(Counted) = 0
    BY <2>1, <2>2 DEF Permits, Having
  <2> HIDE DEF Init
  <2> QED BY <2>3, <2>4 DEF Counts, PermitInv, PendingInv
<1> QED BY <1>1, <1>2, <1>3, <1>4 DEF IInv

-----------------------------------------------------------------------------
(* A call.                                                                  *)

\* A call that moves between two places without a permit, or two with one.
LEMMA CallerCounts ==
  ASSUME IInv, NEW c \in Caller, NEW to, Goto(c, to), pc[c] \in Permitted <=> to \in Permitted,
         UNCHANGED <<active, pool, threads>>
  PROVE  Counts'
<1>1. Permits' = Permits  BY CallerMoves
<1>2. /\ Having(WithPermit)' = Having(WithPermit)
      /\ Having(Counted)' = Having(Counted)
  BY DEF Having, Permits, Workers, WithPermit, Counted
<1> QED BY <1>1, <1>2 DEF IInv, Counts, PermitInv, PendingInv

\* A step that moves no call, no job and no permit.
LEMMA SameCounts ==
  ASSUME IInv, UNCHANGED <<pc, active, pool, threads>>  PROVE Counts'
<1>1. /\ Permits' = Permits
      /\ Having(WithPermit)' = Having(WithPermit)
      /\ Having(Counted)' = Having(Counted)
  BY DEF Having, Permits, Workers, WithPermit, Counted, Callers
<1> QED BY <1>1 DEF IInv, Counts, PermitInv, PendingInv

\* A key without a record was neither prompted nor answered.
LEMMA UnusedKey ==
  ASSUME IInv, NEW k \in Key, record[k] = NoRecord
  PROVE  ran[k] = {} /\ given[k] = {} /\ unrecorded[k] = NoRequest
<1>1. KeyOK(k) /\ ran[k] \subseteq Request /\ given[k] \subseteq Request
  BY DEF IInv, Known, KeyInv, TypeOK
<1> QED BY <1>1 DEF KeyOK, Request

\* What is known of the requests drawn stays so when one more is drawn.
LEMMA DrawKeeps ==
  ASSUME IInv, NEW k \in Key, Drawable, keyOf' = Append(keyOf, k)
  PROVE  /\ Drawn \in Request /\ Len(keyOf) \in Nat /\ Len(keyOf') = Drawn
         /\ keyOf' \in Seq(Key) /\ Len(keyOf') <= MaxRequests
         /\ \A r \in 1..Len(keyOf) : r \in 1..Len(keyOf') /\ keyOf'[r] = keyOf[r]
         /\ keyOf'[Drawn] = k /\ kept[Drawn] = 0
<1>1. keyOf \in Seq(Key) /\ Len(keyOf) \in Nat /\ Len(keyOf) < MaxRequests
  BY DEF IInv, TypeOK, Drawable
<1>2. Drawn = Len(keyOf) + 1 /\ Drawn \in Request
  BY <1>1, BoundAssumption DEF Drawn, Request
<1>3. /\ keyOf' \in Seq(Key) /\ Len(keyOf') = Len(keyOf) + 1
      /\ \A r \in 1..Len(keyOf) : keyOf'[r] = keyOf[r]
      /\ keyOf'[Len(keyOf) + 1] = k
  BY <1>1
<1>4. kept[Drawn] = 0  BY <1>1, <1>2 DEF IInv, Known, FreshInv
<1> QED BY <1>1, <1>2, <1>3, <1>4, BoundAssumption

LEMMA StepBeginStart ==
  ASSUME IInv, NEW c \in Caller, NEW k \in Key, BeginStart(c, k)  PROVE IInv'
<1> USE DEF BeginStart
<1>1. /\ Drawn \in Request /\ Len(keyOf) \in Nat /\ Len(keyOf') = Drawn
      /\ keyOf' \in Seq(Key) /\ Len(keyOf') <= MaxRequests
      /\ \A r \in 1..Len(keyOf) : r \in 1..Len(keyOf') /\ keyOf'[r] = keyOf[r]
      /\ keyOf'[Drawn] = k /\ kept[Drawn] = 0
  BY DrawKeeps
<1>2. ran[k] = {} /\ given[k] = {} /\ unrecorded[k] = NoRequest  BY UnusedKey
<1>3. TypeOK'  BY <1>1 DEF IInv, TypeOK, Record
<1>4. \A r : Waiting(r) => Waiting(r)' /\ r # Drawn
  BY <1>1 DEF IInv, TypeOK, Waiting, Drawn
<1>5. \A r : r = Drawn => Waiting(r)'  BY <1>1, <1>2 DEF IInv, TypeOK, Waiting
<1>6. CallInv'
  <2> SUFFICES ASSUME NEW d \in Caller PROVE CallOK(d)'  BY DEF CallInv
  <2>1. \A e \in Caller : CallOK(e)  BY DEF IInv, Hands, CallInv
  <2>2. \A i \in 1..Len(queue) : queue[i] # Drawn
    BY <1>4 DEF IInv, Hands, QueueInv, QueueOK
  <2> QED BY <1>1, <1>4, <1>5, <2>1, <2>2 DEF IInv, TypeOK, CallOK
<1>7. QueueInv'  BY <1>4 DEF IInv, Hands, QueueInv, QueueOK
<1>8. KeyInv'  BY <1>1, <1>2 DEF IInv, TypeOK, Known, KeyInv, KeyOK, Drawn
<1>9. WorkerInv'  BY <1>1 DEF IInv, Known, WorkerInv, WorkerOK
<1>10. FreshInv'  BY <1>1 DEF IInv, Known, FreshInv, Request, Drawn
<1>11. Counts'  BY CallerCounts
<1> QED BY <1>3, <1>6, <1>7, <1>8, <1>9, <1>10, <1>11 DEF IInv, Hands, Known

LEMMA StepBeginUnwritten ==
  ASSUME IInv, NEW c \in Caller, NEW k \in Key, BeginUnwritten(c, k)  PROVE IInv'
<1> USE DEF BeginUnwritten
<1>1. /\ Drawn \in Request /\ Len(keyOf) \in Nat /\ Len(keyOf') = Drawn
      /\ keyOf' \in Seq(Key) /\ Len(keyOf') <= MaxRequests
      /\ \A r \in 1..Len(keyOf) : r \in 1..Len(keyOf') /\ keyOf'[r] = keyOf[r]
      /\ keyOf'[Drawn] = k
  BY DrawKeeps
<1>2. ran[k] = {} /\ given[k] = {} /\ unrecorded[k] = NoRequest  BY UnusedKey
<1>3. TypeOK'
  <2>1. record \in [Key -> Record \cup {NoRecord}]  BY DEF IInv, TypeOK
  <2>2. Active(Drawn) \in Record  BY <1>1 DEF Record
  <2>3. record' \in [Key -> Record \cup {NoRecord}]  BY <2>1, <2>2
  <2> QED BY <1>1, <2>3 DEF IInv, TypeOK
<1>4. \A r : Waiting(r) => Waiting(r)'
  <2>1. \A r \in 1..Len(keyOf) : record[keyOf[r]] # NoRecord => record'[keyOf[r]] = record[keyOf[r]]
    BY DEF IInv, TypeOK
  <2>2. UNCHANGED <<kept, unrecorded, ran, given>>  OBVIOUS
  <2> HIDE DEF BeginUnwritten
  <2> QED BY <1>1, <2>1, <2>2 DEF Waiting
<1>5. CallInv'  BY <1>1, <1>4 DEF IInv, Hands, CallInv, CallOK
<1>6. QueueInv'  BY <1>4 DEF IInv, Hands, QueueInv, QueueOK
<1>7. KeyInv'
  <2> SUFFICES ASSUME NEW q \in Key PROVE KeyOK(q)'  BY DEF KeyInv
  <2>1. KeyOK(q)  BY DEF IInv, Known, KeyInv
  <2>2. UNCHANGED <<unrecorded, ran, given>>  OBVIOUS
  <2>3. CASE record'[q] = record[q]
    <3> HIDE DEF BeginUnwritten
    <3> QED BY <1>1, <2>1, <2>2, <2>3 DEF KeyOK
  <2>4. CASE q = k /\ record'[k] = Active(Drawn)
    <3>1. Len(keyOf) + 1 \in 1..Len(keyOf') /\ Drawn = Len(keyOf) + 1  BY <1>1 DEF Drawn
    <3> HIDE DEF BeginUnwritten
    <3> QED BY <1>1, <1>2, <2>2, <2>4, <3>1 DEF KeyOK
  <2> QED BY <2>3, <2>4 DEF IInv, TypeOK
<1>8. WorkerInv'  BY <1>1 DEF IInv, Known, WorkerInv, WorkerOK
<1>9. FreshInv'  BY <1>1 DEF IInv, Known, FreshInv, Request, Drawn
<1>10. Counts'  BY SameCounts
<1> QED BY <1>3, <1>5, <1>6, <1>7, <1>8, <1>9, <1>10 DEF IInv, Hands, Known

LEMMA StepBeginUnreadable ==
  ASSUME IInv, NEW c \in Caller, NEW k \in Key, BeginUnreadable(c, k)  PROVE IInv'
<1> USE DEF BeginUnreadable
<1>1. /\ Len(keyOf) \in Nat /\ Len(keyOf') = Drawn
      /\ keyOf' \in Seq(Key) /\ Len(keyOf') <= MaxRequests
      /\ \A r \in 1..Len(keyOf) : r \in 1..Len(keyOf') /\ keyOf'[r] = keyOf[r]
  BY DrawKeeps
<1>2. TypeOK'  BY <1>1 DEF IInv, TypeOK
<1>3. \A r : Waiting(r) => Waiting(r)'  BY <1>1 DEF Waiting
<1>4. CallInv'  BY <1>1, <1>3 DEF IInv, Hands, CallInv, CallOK
<1>5. QueueInv'  BY <1>3 DEF IInv, Hands, QueueInv, QueueOK
<1>6. KeyInv'  BY <1>1 DEF IInv, Known, KeyInv, KeyOK
<1>7. WorkerInv'  BY <1>1 DEF IInv, Known, WorkerInv, WorkerOK
<1>8. FreshInv'  BY <1>1 DEF IInv, Known, FreshInv, Request, Drawn
<1>9. Counts'  BY SameCounts
<1> QED BY <1>2, <1>4, <1>5, <1>6, <1>7, <1>8, <1>9 DEF IInv, Hands, Known

LEMMA StepBeginReattach ==
  ASSUME IInv, NEW c \in Caller, NEW k \in Key, BeginReattach(c, k)  PROVE IInv'
<1> USE DEF BeginReattach
<1>1. /\ Len(keyOf) \in Nat /\ Len(keyOf') = Drawn
      /\ keyOf' \in Seq(Key) /\ Len(keyOf') <= MaxRequests
      /\ \A r \in 1..Len(keyOf) : r \in 1..Len(keyOf') /\ keyOf'[r] = keyOf[r]
  BY DrawKeeps
<1>2. record[k].request \in 1..Len(keyOf)  BY DEF IInv, Known, KeyInv, KeyOK
<1>3. record[k].request \in Request  BY DEF IInv, TypeOK, Record
<1>4. TypeOK'  BY <1>1, <1>3 DEF IInv, TypeOK
<1>5. \A r : Waiting(r) => Waiting(r)'  BY <1>1 DEF Waiting
<1>6. CallInv'  BY <1>1, <1>2, <1>5 DEF IInv, TypeOK, Hands, CallInv, CallOK
<1>7. QueueInv'  BY <1>5 DEF IInv, Hands, QueueInv, QueueOK
<1>8. KeyInv'  BY <1>1 DEF IInv, Known, KeyInv, KeyOK
<1>9. WorkerInv'  BY <1>1 DEF IInv, Known, WorkerInv, WorkerOK
<1>10. FreshInv'  BY <1>1 DEF IInv, Known, FreshInv, Request, Drawn
<1>11. Counts'  BY CallerCounts
<1> QED BY <1>4, <1>6, <1>7, <1>8, <1>9, <1>10, <1>11 DEF IInv, Hands, Known

LEMMA StepBeginCompleted ==
  ASSUME IInv, NEW c \in Caller, NEW k \in Key, BeginCompleted(c, k)  PROVE IInv'
<1> USE DEF BeginCompleted
<1>1. /\ Len(keyOf) \in Nat /\ Len(keyOf') = Drawn
      /\ keyOf' \in Seq(Key) /\ Len(keyOf') <= MaxRequests
      /\ \A r \in 1..Len(keyOf) : r \in 1..Len(keyOf') /\ keyOf'[r] = keyOf[r]
  BY DrawKeeps
<1>2. record[k].request \in Request  BY DEF IInv, TypeOK, Record
<1>3. TypeOK'  BY <1>1, <1>2 DEF IInv, TypeOK
<1>4. \A r : Waiting(r) => Waiting(r)'  BY <1>1 DEF IInv, TypeOK, Waiting
<1>5. CallInv'  BY <1>1, <1>4 DEF IInv, Hands, CallInv, CallOK
<1>6. QueueInv'  BY <1>4 DEF IInv, Hands, QueueInv, QueueOK
<1>7. KeyInv'  BY <1>1 DEF IInv, TypeOK, Known, KeyInv, KeyOK
<1>8. WorkerInv'  BY <1>1 DEF IInv, Known, WorkerInv, WorkerOK
<1>9. FreshInv'  BY <1>1 DEF IInv, Known, FreshInv, Request, Drawn
<1>10. Counts'  BY SameCounts
<1> QED BY <1>3, <1>5, <1>6, <1>7, <1>8, <1>9, <1>10 DEF IInv, Hands, Known

LEMMA StepLookup ==
  ASSUME IInv, NEW c \in Caller, Lookup(c)  PROVE IInv'
<1> USE DEF Lookup
<1> DEFINE k == keyOf[mine[c]]
<1>1. mine[c] \in 1..Len(keyOf) /\ k \in Key
  BY DEF IInv, TypeOK, Hands, CallInv, CallOK
<1>2. TypeOK'  BY <1>1 DEF IInv, TypeOK
<1>3. \A r : Waiting(r) => Waiting(r)'  BY <1>1 DEF IInv, TypeOK, Waiting
<1>4. CallInv'  BY <1>3 DEF IInv, TypeOK, Hands, CallInv, CallOK
<1>5. QueueInv'  BY <1>3 DEF IInv, Hands, QueueInv, QueueOK
<1>6. KeyInv'  BY <1>1 DEF IInv, TypeOK, Known, KeyInv, KeyOK
<1>7. WorkerInv' /\ FreshInv'  BY DEF IInv, Known, WorkerInv, WorkerOK, FreshInv
<1>8. Counts'  BY CallerCounts
<1> QED BY <1>2, <1>4, <1>5, <1>6, <1>7, <1>8 DEF IInv, Hands, Known

\* What the records, results and streams say of a request.
known == <<record, kept, keyOf, unrecorded, ran, given>>

\* A step of a call that leaves those alone.
LEMMA SameKnown ==
  ASSUME IInv, UNCHANGED <<known, threads, forwarded>>
  PROVE  Known' /\ \A r : Waiting(r) => Waiting(r)'
<1> USE DEF known
<1>1. KeyInv' /\ WorkerInv' /\ FreshInv'
  BY DEF IInv, Known, KeyInv, KeyOK, WorkerInv, WorkerOK, FreshInv
<1>2. \A r : Waiting(r) => Waiting(r)'  BY DEF Waiting
<1> QED BY <1>1, <1>2 DEF Known

\* A call that goes on and keeps its request in its hands.
LEMMA SameHands ==
  ASSUME IInv, NEW c \in Caller, NEW to, Goto(c, to), pc[c] \in Holding, to \in Holding,
         UNCHANGED <<known, threads, forwarded, mine, queue>>
  PROVE  Hands'
<1>1. \A r : Waiting(r) => Waiting(r)'  BY SameKnown DEF known
<1>2. CallInv'
  <2> SUFFICES ASSUME NEW d \in Caller PROVE CallOK(d)'  BY DEF CallInv
  <2>1. \A e \in Caller : CallOK(e) /\ (pc'[e] \in Holding <=> pc[e] \in Holding)
                          /\ (pc'[e] # "idle" <=> pc[e] # "idle")
    BY DEF IInv, TypeOK, Hands, CallInv
  <2> QED BY <1>1, <2>1 DEF CallOK, known
<1>3. QueueInv'  BY <1>1 DEF IInv, Hands, QueueInv, QueueOK
<1> QED BY <1>2, <1>3 DEF Hands

LEMMA StepReserve ==
  ASSUME IInv, NEW c \in Caller, Reserve(c)  PROVE IInv'
<1> USE DEF Reserve
<1>1. TypeOK'  BY LimitAssumption DEF IInv, TypeOK
<1>2. Hands'  BY SameHands DEF known
<1>3. Known'  BY SameKnown DEF known
<1>4. Counts'
  <2>1. Permits' = Permits + 1  BY CallerMoves
  <2>2. Having(WithPermit)' = Having(WithPermit) /\ Having(Counted)' = Having(Counted)
    BY DEF Having, Workers, WithPermit, Counted
  <2>3. Permits \in Nat /\ Having(WithPermit) \in Nat /\ Len(queue) \in Nat
    BY CountsAreNumbers
  <2> QED BY <2>1, <2>2, <2>3 DEF IInv, Counts, PermitInv, PendingInv
<1> QED BY <1>1, <1>2, <1>3, <1>4 DEF IInv

LEMMA StepNotTaken ==
  ASSUME IInv, NEW c \in Caller, pc[c] \in Permitted, NotTaken(c)  PROVE IInv'
<1> USE DEF NotTaken
<1>1. Hands'  BY SameHands DEF known
<1>2. Known'  BY SameKnown DEF known
<1>3. Permits' = Permits - 1
  <2>1. Goto(c, "abandon") /\ "abandon" \notin Permitted  OBVIOUS
  <2> HIDE DEF Goto, Permitted, NotTaken
  <2> QED BY <2>1, CallerMoves
<1>4. /\ Permits \in Nat /\ Permits' \in Nat /\ Having(WithPermit) \in Nat
      /\ Len(queue) \in Nat /\ active \in Nat
  BY CountsAreNumbers, CallerMoves
<1>5. Counts'
  <2>1. Having(WithPermit)' = Having(WithPermit) /\ Having(Counted)' = Having(Counted)
    BY DEF Having, Workers, WithPermit, Counted
  <2> QED BY <1>3, <1>4, <2>1 DEF IInv, Counts, PermitInv, PendingInv
<1>6. active' \in 0..MaxActive
  <2>1. active \in 0..MaxActive  BY DEF IInv, TypeOK
  <2>2. active >= Permits  BY <1>4 DEF IInv, Counts, PermitInv
  <2> QED BY <1>3, <1>4, <2>1, <2>2, LimitAssumption
<1>7. TypeOK'  BY <1>6 DEF IInv, TypeOK
<1> QED BY <1>1, <1>2, <1>5, <1>7 DEF IInv

LEMMA StepPass ==
  ASSUME IInv, NEW c \in Caller, NEW to \in Holding, pc[c] \in Holding,
         pc[c] \in Permitted <=> to \in Permitted, Pass(c, to)
  PROVE  IInv'
<1> USE DEF Pass
<1>1. TypeOK'  BY DEF IInv, TypeOK
<1>2. Hands'  BY SameHands DEF known
<1>3. Known'  BY SameKnown DEF known
<1>4. Counts'  BY CallerCounts
<1> QED BY <1>1, <1>2, <1>3, <1>4 DEF IInv

LEMMA StepSend ==
  ASSUME IInv, NEW c \in Caller, Send(c)  PROVE IInv'
<1> USE DEF Send, Sendable
<1>1. mine[c] \in Request /\ CallOK(c) /\ queue \in Seq(Request)
  <2>1. CallOK(c)  BY DEF IInv, Hands, CallInv
  <2>2. mine[c] # NoRequest  BY <2>1 DEF CallOK
  <2> QED BY <2>1, <2>2 DEF IInv, TypeOK
<1>2. TypeOK'  BY <1>1, LimitAssumption DEF IInv, TypeOK
<1>3. /\ Len(queue) \in Nat /\ Len(queue') = Len(queue) + 1
      /\ queue'[Len(queue) + 1] = mine[c]
      /\ \A i \in 1..Len(queue) : queue'[i] = queue[i]
  BY <1>1
<1>4. Known' /\ \A r : Waiting(r) => Waiting(r)'  BY SameKnown DEF known
<1>5. CallInv'
  <2> SUFFICES ASSUME NEW d \in Caller PROVE CallOK(d)'  BY DEF CallInv
  <2>1. CallOK(d)  BY DEF IInv, Hands, CallInv
  <2>2. CASE d = c  BY <2>2 DEF IInv, TypeOK, CallOK
  <2>3. CASE d # c
    <3>1. pc'[d] = pc[d] /\ mine'[d] = mine[d]  BY <2>3 DEF IInv, TypeOK
    <3>2. \A e \in Caller : pc'[e] \in Holding => pc[e] \in Holding /\ mine'[e] = mine[e]
      BY DEF IInv, TypeOK
    <3>3. pc[d] \in Holding => mine[d] # mine[c]  BY <1>1, <2>1, <2>3 DEF CallOK
    <3> QED BY <1>3, <1>4, <2>1, <3>1, <3>2, <3>3 DEF CallOK
  <2> QED BY <2>2, <2>3
<1>6. QueueInv'
  <2> SUFFICES ASSUME NEW i \in 1..Len(queue') PROVE QueueOK(i)'  BY DEF QueueInv
  <2>1. \A j \in 1..Len(queue) : QueueOK(j) /\ queue[j] # mine[c]
    BY <1>1 DEF IInv, Hands, QueueInv, CallOK
  <2>2. Waiting(mine[c])  BY <1>1 DEF CallOK
  <2>3. i = Len(queue) + 1 \/ i \in 1..Len(queue)  BY <1>3
  <2>4. \A j \in 1..Len(queue') : j = Len(queue) + 1 \/ j \in 1..Len(queue)  BY <1>3
  <2>5. Waiting(queue'[i]) /\ \A j \in 1..Len(queue') : queue'[j] = queue'[i] => j = i
    BY <1>3, <2>1, <2>2, <2>3, <2>4 DEF QueueOK
  <2>6. \A r : r = queue'[i] => Waiting(r)'  BY <1>4, <2>5
  <2>7. Waiting(queue[i])'  BY <2>6 DEF Waiting
  <2> QED BY <2>5, <2>7 DEF QueueOK
<1>7. Counts'
  <2>1. Permits' = Permits - 1
    <3>1. Goto(c, "idle") /\ pc[c] \in Permitted /\ "idle" \notin Permitted  OBVIOUS
    <3> HIDE DEF Goto, Permitted, Send
    <3> QED BY <3>1, CallerMoves
  <2>2. Having(WithPermit)' = Having(WithPermit) /\ Having(Counted)' = Having(Counted)
    BY DEF Having, Workers, WithPermit, Counted
  <2>3. /\ Permits \in Nat /\ Having(WithPermit) \in Nat /\ Having(Counted) \in Nat
        /\ pending \in Nat
    BY CountsAreNumbers
  <2> QED BY <1>3, <2>1, <2>2, <2>3 DEF IInv, Counts, PermitInv, PendingInv
<1> QED BY <1>2, <1>4, <1>5, <1>6, <1>7 DEF IInv, Hands

\* A call that returns, having taken its record away or not.
LEMMA StepAbandon ==
  ASSUME IInv, NEW c \in Caller, Abandon(c) \/ AbandonFails(c)  PROVE IInv'
<1> DEFINE k == keyOf[mine[c]]
<1>1. /\ At(c, "abandon") /\ Return(c)
      /\ \/ record[k] = Active(mine[c]) /\ record' = [record EXCEPT ![k] = NoRecord]
         \/ UNCHANGED record
      /\ UNCHANGED <<kept, ended, keyOf, unrecorded, active, pool, threads, prompts, drain,
                     history, bounds>>
  BY DEF Abandon, AbandonFails, Abandonable
<1>2. CallOK(c) /\ Waiting(mine[c]) /\ k \in Key
  <2>1. CallOK(c)  BY DEF IInv, Hands, CallInv
  <2> QED BY <1>1, <2>1 DEF CallOK, Waiting, IInv, TypeOK
<1>3. TypeOK'
  <2>1. record \in [Key -> Record \cup {NoRecord}]  BY DEF IInv, TypeOK
  <2>2. record' \in [Key -> Record \cup {NoRecord}]  BY <1>1, <2>1
  <2> QED BY <1>1, <2>2 DEF IInv, TypeOK
<1>4. \A r : Waiting(r) /\ r # mine[c] => Waiting(r)'
  BY <1>1, <1>2 DEF Waiting, IInv, TypeOK
<1>5. CallInv'
  <2> SUFFICES ASSUME NEW d \in Caller PROVE CallOK(d)'  BY DEF CallInv
  <2>1. CallOK(d)  BY DEF IInv, Hands, CallInv
  <2>2. CASE d = c  BY <1>1, <2>2 DEF IInv, TypeOK, CallOK
  <2>3. CASE d # c
    <3>1. pc'[d] = pc[d] /\ mine'[d] = mine[d]  BY <1>1, <2>3 DEF IInv, TypeOK
    <3>2. \A e \in Caller : pc'[e] \in Holding => pc[e] \in Holding /\ mine'[e] = mine[e]
      BY <1>1 DEF IInv, TypeOK
    <3>3. pc[d] \in Holding => mine[d] # mine[c]  BY <1>1, <1>2, <2>1, <2>3 DEF CallOK
    <3> QED BY <1>1, <1>4, <2>1, <3>1, <3>2, <3>3 DEF CallOK
  <2> QED BY <2>2, <2>3
<1>6. QueueInv'
  <2>1. \A i \in 1..Len(queue) : QueueOK(i) /\ queue[i] # mine[c]
    BY <1>1, <1>2 DEF IInv, Hands, QueueInv, CallOK
  <2> QED BY <1>1, <1>4, <2>1 DEF QueueInv, QueueOK
<1>7. KeyInv'
  <2> SUFFICES ASSUME NEW q \in Key PROVE KeyOK(q)'  BY DEF KeyInv
  <2>1. KeyOK(q)  BY DEF IInv, Known, KeyInv
  <2>2. CASE record' = [record EXCEPT ![k] = NoRecord] /\ record[k] = Active(mine[c]) /\ q = k
    <3>1. ran[k] = {} /\ given[k] = {} /\ unrecorded[k] = NoRequest
      BY <1>2, <2>1, <2>2 DEF KeyOK, Waiting
    <3> QED BY <1>1, <1>2, <2>2, <3>1 DEF KeyOK, IInv, TypeOK
  <2>3. CASE record'[q] = record[q]  BY <1>1, <2>1, <2>3 DEF KeyOK
  <2> QED BY <1>1, <2>2, <2>3 DEF IInv, TypeOK
<1>8. WorkerInv' /\ FreshInv'  BY <1>1 DEF IInv, Known, WorkerInv, WorkerOK, FreshInv
<1>9. Counts'  BY <1>1, CallerCounts
<1> QED BY <1>3, <1>5, <1>6, <1>7, <1>8, <1>9 DEF IInv, Hands, Known

-----------------------------------------------------------------------------
(* A worker.                                                                *)

\* A step that leaves calls, queue and what is known of requests alone.
LEMMA QuietHands ==
  ASSUME IInv, UNCHANGED <<known, calls, queue>>  PROVE Hands'
<1> USE DEF known
<1>1. \A r : Waiting(r) => Waiting(r)'  BY DEF Waiting
<1> QED BY <1>1 DEF IInv, Hands, CallInv, CallOK, QueueInv, QueueOK

\* A worker's job is not one that waits.
LEMMA JobKnown ==
  ASSUME IInv, NEW w \in Worker, worker[w] \notin {"recv", "exited"}
  PROVE  /\ job[w] \in 1..Len(keyOf) /\ job[w] \in Request /\ keyOf[job[w]] \in Key
         /\ job[w] \in ran[keyOf[job[w]]] /\ record[keyOf[job[w]]].request = job[w]
         /\ \A r : Waiting(r) => r # job[w]
<1>1. WorkerOK(w)  BY DEF IInv, Known, WorkerInv
<1>2. job[w] \in 1..Len(keyOf) /\ job[w] \in ran[keyOf[job[w]]]  BY <1>1 DEF WorkerOK
<1>3. job[w] \in Request /\ keyOf[job[w]] \in Key  BY <1>2 DEF IInv, TypeOK
<1>4. record[keyOf[job[w]]].request = job[w]  BY <1>2, <1>3 DEF IInv, Known, KeyInv, KeyOK
<1>5. \A r : Waiting(r) => r # job[w]  BY <1>2 DEF Waiting
<1> QED BY <1>2, <1>3, <1>4, <1>5

\* A worker that moves between two places of one kind.
LEMMA WorkerCounts ==
  ASSUME IInv, NEW w \in Worker, NEW to, worker' = [worker EXCEPT ![w] = to],
         worker[w] \in WithPermit <=> to \in WithPermit,
         worker[w] \in Counted <=> to \in Counted,
         UNCHANGED <<pc, active, pending, queue>>
  PROVE  Counts'
<1>1. Having(WithPermit)' = Having(WithPermit)
  <2> HIDE DEF Prompting
  <2> QED BY WorkerMoves
<1>2. Having(Counted)' = Having(Counted)
  <2> HIDE DEF Prompting
  <2> QED BY WorkerMoves
<1>3. Permits' = Permits  BY DEF Permits, Callers
<1> QED BY <1>1, <1>2, <1>3 DEF IInv, Counts, PermitInv, PendingInv

LEMMA StepTake ==
  ASSUME IInv, NEW w \in Worker, Take(w)  PROVE IInv'
<1> DEFINE r == Head(queue)
           k == keyOf[r]
<1> USE DEF Take, Takeable
<1>1. /\ queue \in Seq(Request) /\ Len(queue) \in Nat \ {0} /\ r = queue[1]
      /\ r \in Request /\ Len(queue') = Len(queue) - 1 /\ queue' \in Seq(Request)
      /\ \A i \in 1..Len(queue') : i + 1 \in 1..Len(queue) /\ queue'[i] = queue[i + 1]
  BY DEF IInv, TypeOK
<1>2. QueueOK(1) /\ Waiting(r)  BY <1>1 DEF IInv, Hands, QueueInv, QueueOK
<1>3. k \in Key /\ r \in 1..Len(keyOf)  BY <1>2 DEF Waiting, IInv, TypeOK
<1>4. TypeOK'
  <2>1. ran \in [Key -> SUBSET Request]  BY DEF IInv, TypeOK
  <2>2. ran' \in [Key -> SUBSET Request]  BY <1>1, <1>3, <2>1
  <2>3. Len(queue') <= QueuePlaces  BY <1>1, LimitAssumption DEF IInv, TypeOK
  <2> QED BY <1>1, <2>2, <2>3 DEF IInv, TypeOK
<1>5. \A q : Waiting(q) /\ q # r => Waiting(q)'
  <2>1. /\ UNCHANGED <<record, kept, keyOf, unrecorded, given>>
        /\ ran' = [ran EXCEPT ![k] = @ \cup {r}]
    OBVIOUS
  <2>2. ran \in [Key -> SUBSET Request] /\ keyOf \in Seq(Key)  BY DEF IInv, TypeOK
  <2> HIDE DEF Take, r, k
  <2> QED BY <1>3, <2>1, <2>2 DEF Waiting
<1>6. CallInv'
  <2> SUFFICES ASSUME NEW c \in Caller PROVE CallOK(c)'  BY DEF CallInv
  <2>1. CallOK(c)  BY DEF IInv, Hands, CallInv
  <2>2. pc[c] \in Holding => mine[c] # r  BY <1>1, <2>1 DEF CallOK
  <2> QED BY <1>1, <1>5, <2>1, <2>2 DEF CallOK
<1>7. QueueInv'
  <2> SUFFICES ASSUME NEW i \in 1..Len(queue') PROVE QueueOK(i)'  BY DEF QueueInv
  <2>1. QueueOK(i + 1) /\ i + 1 # 1  BY <1>1 DEF IInv, Hands, QueueInv
  <2>2. Waiting(queue'[i]) /\ queue'[i] # r  BY <1>1, <2>1 DEF QueueOK
  <2>3. \A q : q = queue'[i] => Waiting(q)'  BY <1>5, <2>2
  <2>4. Waiting(queue[i])'  BY <2>3 DEF Waiting
  <2>5. ASSUME NEW j \in 1..Len(queue'), queue'[j] = queue'[i] PROVE j = i
    <3>1. j + 1 = i + 1  BY <1>1, <2>1, <2>5 DEF QueueOK
    <3> QED BY <1>1, <3>1
  <2> QED BY <2>4, <2>5 DEF QueueOK
<1> HIDE DEF r, k
<1>8. KeyInv'
  <2> SUFFICES ASSUME NEW q \in Key PROVE KeyOK(q)'  BY DEF KeyInv
  <2>1. KeyOK(q)  BY DEF IInv, Known, KeyInv
  <2>2. q = k => record[q].request = r  BY <1>2 DEF Waiting, k
  <2>3. ran'[q] = IF q = k THEN ran[q] \cup {r} ELSE ran[q]
    BY <1>3 DEF IInv, TypeOK, r, k
  <2>4. UNCHANGED <<record, keyOf, unrecorded, given>>  OBVIOUS
  <2> HIDE DEF Take
  <2> QED BY <2>1, <2>2, <2>3, <2>4 DEF KeyOK
<1>9. WorkerInv'
  <2> SUFFICES ASSUME NEW v \in Worker PROVE WorkerOK(v)'  BY DEF WorkerInv
  <2>1. WorkerOK(v)  BY DEF IInv, Known, WorkerInv
  <2>2. UNCHANGED <<keyOf, kept, forwarded>>  OBVIOUS
  <2>3. \A q \in 1..Len(keyOf) : ran[keyOf[q]] \subseteq ran'[keyOf[q]]
    <3>1. ran \in [Key -> SUBSET Request] /\ keyOf \in Seq(Key)  BY DEF IInv, TypeOK
    <3>2. ran' = [ran EXCEPT ![k] = @ \cup {r}]  BY DEF r, k
    <3> HIDE DEF Take
    <3> QED BY <1>3, <3>1, <3>2
  <2>4. CASE v = w
    <3>1. kept[r] <= forwarded[r]  BY <1>1, <1>2 DEF Waiting, IInv, TypeOK
    <3>2. worker'[v] = "prompt" /\ job'[v] = r  BY <2>4 DEF IInv, TypeOK, r
    <3>3. r \in ran'[keyOf[r]]  BY <1>3 DEF IInv, TypeOK, r, k
    <3> HIDE DEF Take
    <3> QED BY <1>3, <2>2, <3>1, <3>2, <3>3 DEF WorkerOK
  <2>5. CASE v # w
    <3>1. worker'[v] = worker[v] /\ job'[v] = job[v]  BY <2>5 DEF IInv, TypeOK
    <3> HIDE DEF Take
    <3> QED BY <2>1, <2>2, <2>3, <3>1 DEF WorkerOK
  <2> QED BY <2>4, <2>5
<1>10. FreshInv'
  <2>1. UNCHANGED <<kept, keyOf>>  OBVIOUS
  <2> HIDE DEF Take
  <2> QED BY <2>1 DEF IInv, Known, FreshInv
<1>11. Counts'
  <2>1. worker' = [worker EXCEPT ![w] = "prompt"] /\ worker[w] = "recv"  OBVIOUS
  <2>2. "recv" \notin WithPermit /\ "prompt" \in WithPermit
        /\ "recv" \notin Counted /\ "prompt" \in Counted
    BY DEF WithPermit, Counted
  <2>3. Having(WithPermit)' = Having(WithPermit) + 1 /\ Having(Counted)' = Having(Counted) + 1
    <3> HIDE DEF Take
    <3> QED BY <2>1, <2>2, WorkerMoves
  <2>4. Permits' = Permits  BY DEF Permits, Callers
  <2>5. /\ Permits \in Nat /\ Having(WithPermit) \in Nat /\ Having(Counted) \in Nat
        /\ pending \in Nat
    BY CountsAreNumbers
  <2>6. Len(queue') = Len(queue) - 1 /\ Len(queue) \in Nat  BY <1>1
  <2>7. active' = active /\ pending' = pending  OBVIOUS
  <2>8. /\ active = Permits + Len(queue) + Having(WithPermit)
        /\ pending >= Len(queue) + Having(Counted)
    BY DEF IInv, Counts, PermitInv, PendingInv
  <2> HIDE DEF Take
  <2>9. Len(queue') + Having(WithPermit)' = Len(queue) + Having(WithPermit)
    BY <2>3, <2>5, <2>6
  <2>10. Len(queue') + Having(Counted)' = Len(queue) + Having(Counted)
    BY <2>3, <2>5, <2>6
  <2>11. active' = Permits' + Len(queue') + Having(WithPermit)'
    BY <2>3, <2>4, <2>5, <2>6, <2>7, <2>8, <2>9
  <2>12. pending' >= Len(queue') + Having(Counted)'  BY <2>7, <2>8, <2>10
  <2> QED BY <2>11, <2>12 DEF Counts, PermitInv, PendingInv
<1> QED BY <1>4, <1>6, <1>7, <1>8, <1>9, <1>10, <1>11 DEF IInv, Hands, Known

LEMMA StepPublish ==
  ASSUME IInv, NEW w \in Worker, Publish(w)  PROVE IInv'
<1> USE DEF Publish
<1>1. job[w] \in Request  BY JobKnown
<1>2. TypeOK'  BY <1>1, BoundAssumption DEF IInv, TypeOK
<1>3. Hands' /\ Known' /\ Counts'  BY QuietHands, SameKnown, SameCounts DEF known
<1> QED BY <1>2, <1>3 DEF IInv

\* A worker that goes on with its job.
LEMMA GoesOn ==
  ASSUME IInv, NEW w \in Worker, NEW to \in Prompting,
         worker[w] \in {"prompt", "emit", "join"}, worker' = [worker EXCEPT ![w] = to],
         UNCHANGED <<known, job, forwarded, calls, active, pool>>
  PROVE  Hands' /\ Known' /\ Counts'
<1>1. Hands'  BY QuietHands
<1>2. KeyInv' /\ FreshInv'  BY DEF known, IInv, Known, KeyInv, KeyOK, FreshInv
<1>3. WorkerInv'  BY DEF known, IInv, TypeOK, Known, WorkerInv, WorkerOK
<1>4. Counts'  BY WorkerCounts DEF WithPermit, Counted
<1> QED BY <1>1, <1>2, <1>3, <1>4 DEF Known

LEMMA StepPromptEnds ==
  ASSUME IInv, NEW w \in Worker, PromptEnds(w)  PROVE IInv'
<1> USE DEF PromptEnds
<1>1. TypeOK'  BY DEF IInv, TypeOK
<1>2. Hands' /\ Known' /\ Counts'  BY GoesOn DEF known
<1> QED BY <1>1, <1>2 DEF IInv

LEMMA StepEmitError ==
  ASSUME IInv, NEW w \in Worker, EmitError(w)  PROVE IInv'
<1> USE DEF EmitError, End
<1>1. TypeOK'  BY DEF IInv, TypeOK
<1>2. Hands' /\ Known' /\ Counts'  BY GoesOn DEF known
<1> QED BY <1>1, <1>2 DEF IInv

LEMMA StepJoinForwarder ==
  ASSUME IInv, NEW w \in Worker, JoinForwarder(w)  PROVE IInv'
<1> USE DEF JoinForwarder
<1>1. TypeOK'  BY DEF IInv, TypeOK
<1>2. Hands' /\ Known' /\ Counts'  BY GoesOn DEF known
<1> QED BY <1>1, <1>2 DEF IInv

\* The forwarder of a worker's job appends, or fails to.
LEMMA StepForwarding ==
  ASSUME IInv, NEW w \in Worker, Forwarding(w)  PROVE IInv'
<1> DEFINE r == job[w]
<1>1. /\ worker[w] \in {"prompt", "emit", "join", "panicked"}
      /\ forwarded[r] <= sent[r]
      /\ forwarded' = [forwarded EXCEPT ![r] = @ + 1]
      /\ \/ forwarded[r] < sent[r] /\ kept' = [kept EXCEPT ![r] = @ + 1]
         \/ UNCHANGED kept
      /\ ended' \in [Request -> BOOLEAN]
      /\ UNCHANGED <<record, keyOf, unrecorded, active, pool, threads, sent, calls, drain,
                     history, bounds>>
  <2>1. CASE Forward(w)
    <3>1. forwarded[r] < sent[r] /\ ended' = ended  BY <2>1 DEF Forward
    <3>2. job[w] \in Request  BY <2>1, JobKnown DEF Forward
    <3>3. forwarded[r] <= sent[r]  BY <3>1, <3>2 DEF IInv, TypeOK
    <3> QED BY <2>1, <3>1, <3>3 DEF Forward, IInv, TypeOK
  <2>2. CASE ForwardEnd(w)
    <3>1. job[w] \in Request  BY <2>2, JobKnown DEF ForwardEnd
    <3>2. forwarded[r] <= sent[r]  BY <2>2, <3>1 DEF ForwardEnd, IInv, TypeOK
    <3> QED BY <2>2, <3>2 DEF ForwardEnd, End, IInv, TypeOK
  <2> QED BY <2>1, <2>2 DEF Forwarding
<1>2. r \in 1..Len(keyOf) /\ r \in Request /\ \A q : Waiting(q) => q # r  BY <1>1, JobKnown
<1>3. /\ kept[r] \in 0..MaxEvents /\ forwarded[r] \in 0..MaxEvents + 1
      /\ sent[r] \in 0..MaxEvents /\ kept[r] <= forwarded[r]
  BY <1>1, <1>2 DEF IInv, TypeOK, Known, WorkerInv, WorkerOK
<1>4. /\ kept' \in [Request -> 0..MaxEvents] /\ kept'[r] <= forwarded[r] + 1
      /\ \A q \in Request : q # r => kept'[q] = kept[q]
  <2>1. kept \in [Request -> 0..MaxEvents]  BY DEF IInv, TypeOK
  <2>2. CASE UNCHANGED kept  BY <1>3, <2>1, <2>2
  <2>3. CASE forwarded[r] < sent[r] /\ kept' = [kept EXCEPT ![r] = @ + 1]
    <3> HIDE DEF r
    <3>1. kept[r] + 1 \in 0..MaxEvents /\ kept[r] + 1 <= forwarded[r] + 1
      BY <1>3, <2>3, BoundAssumption
    <3> QED BY <1>2, <2>1, <2>3, <3>1
  <2> QED BY <1>1, <2>2, <2>3
<1>5. /\ forwarded' \in [Request -> 0..MaxEvents + 1] /\ forwarded'[r] = forwarded[r] + 1
      /\ \A q \in Request : q # r => forwarded'[q] = forwarded[q]
  <2>1. forwarded \in [Request -> 0..MaxEvents + 1]  BY DEF IInv, TypeOK
  <2>2. forwarded[r] + 1 \in 0..MaxEvents + 1  BY <1>1, <1>3, BoundAssumption
  <2> HIDE DEF r
  <2> QED BY <1>1, <1>2, <2>1, <2>2
<1>6. TypeOK'  BY <1>1, <1>4, <1>5 DEF IInv, TypeOK
<1>7. \A q : Waiting(q) => Waiting(q)'
  <2>1. \A q \in 1..Len(keyOf) : q \in Request
    BY BoundAssumption DEF IInv, TypeOK, Request
  <2> QED BY <1>1, <1>2, <1>4, <2>1 DEF Waiting
<1>8. Hands'  BY <1>1, <1>7 DEF IInv, Hands, CallInv, CallOK, QueueInv, QueueOK
<1>9. KeyInv'  BY <1>1 DEF IInv, Known, KeyInv, KeyOK
<1>10. WorkerInv'
  <2> SUFFICES ASSUME NEW v \in Worker PROVE WorkerOK(v)'  BY DEF WorkerInv
  <2>1. WorkerOK(v)  BY DEF IInv, Known, WorkerInv
  <2>2. ASSUME worker[v] \in {"prompt", "emit", "join", "panicked"}
        PROVE  kept'[job[v]] <= forwarded'[job[v]]
    <3>1. job[v] \in Request  BY <2>2, JobKnown
    <3>2. kept[job[v]] <= forwarded[job[v]]  BY <2>1, <2>2 DEF WorkerOK
    <3>3. CASE job[v] = r  BY <1>4, <1>5, <3>3
    <3>4. CASE job[v] # r  BY <1>4, <1>5, <3>1, <3>2, <3>4
    <3> QED BY <3>3, <3>4
  <2> QED BY <1>1, <2>1, <2>2 DEF WorkerOK
<1>11. FreshInv'
  <2>1. \A q \in Request : q > Len(keyOf) => q # r  BY <1>2 DEF IInv, TypeOK
  <2> QED BY <1>1, <1>4, <2>1 DEF IInv, Known, FreshInv
<1>12. Counts'  BY <1>1, SameCounts
<1> QED BY <1>6, <1>8, <1>9, <1>10, <1>11, <1>12 DEF IInv, Known

\* A result that is recorded, on disk or in memory.
LEMMA StepCompletes ==
  ASSUME IInv, NEW w \in Worker, Complete(w) \/ CompleteFails(w)  PROVE IInv'
<1> DEFINE r == job[w]
           k == keyOf[r]
<1>1. /\ Step(w, "complete", "release")
      /\ \/ record[k] = Active(r) /\ record' = [record EXCEPT ![k] = Completed(r)]
         \/ UNCHANGED record
      /\ unrecorded' = unrecorded \/ unrecorded' = [unrecorded EXCEPT ![k] = r]
      /\ UNCHANGED <<kept, ended, keyOf, active, pool, job, prompts, calls, drain, history,
                     bounds>>
  BY DEF Complete, CompleteFails
<1>2. /\ r \in 1..Len(keyOf) /\ r \in Request /\ k \in Key /\ r \in ran[k]
      /\ record[k].request = r /\ \A q : Waiting(q) => q # r
  BY <1>1, JobKnown
<1> HIDE DEF r
<1>3. /\ record' \in [Key -> Record \cup {NoRecord}]
      /\ \A q \in Key : q # k => record'[q] = record[q]
      /\ record'[k].request = r
      /\ record[k] # Active(r) => record'[k] = record[k]
      /\ record'[k] # NoRecord
  <2>1. record \in [Key -> Record \cup {NoRecord}]  BY DEF IInv, TypeOK
  <2>2. Completed(r) \in Record /\ r # NoRequest  BY <1>2 DEF Record, Request
  <2> HIDE DEF k
  <2> QED BY <1>1, <1>2, <2>1, <2>2
<1>4. /\ unrecorded' \in [Key -> Request \cup {NoRequest}]
      /\ \A q \in Key : q # k => unrecorded'[q] = unrecorded[q]
      /\ unrecorded'[k] = unrecorded[k] \/ unrecorded'[k] = r
  <2>1. unrecorded \in [Key -> Request \cup {NoRequest}]  BY DEF IInv, TypeOK
  <2> HIDE DEF k
  <2> QED BY <1>1, <1>2, <2>1
<1>5. TypeOK'  BY <1>1, <1>3, <1>4 DEF IInv, TypeOK
<1>6. \A q : Waiting(q) => Waiting(q)'
  <2> SUFFICES ASSUME NEW q, Waiting(q) PROVE Waiting(q)'  OBVIOUS
  <2>1. q # r /\ keyOf[q] \in Key  BY <1>2 DEF Waiting, IInv, TypeOK
  <2>2. record'[keyOf[q]] = record[keyOf[q]]
    <3>1. record[keyOf[q]] = Active(q)  BY DEF Waiting
    <3>2. CASE keyOf[q] = k  BY <1>3, <2>1, <3>1, <3>2
    <3>3. CASE keyOf[q] # k  BY <1>3, <2>1, <3>3
    <3> QED BY <3>2, <3>3
  <2>3. unrecorded'[keyOf[q]] # q  BY <1>4, <2>1 DEF Waiting
  <2> QED BY <1>1, <2>2, <2>3 DEF Waiting
<1>7. Hands'  BY <1>1, <1>6 DEF IInv, Hands, CallInv, CallOK, QueueInv, QueueOK
<1>8. KeyInv'
  <2> SUFFICES ASSUME NEW q \in Key PROVE KeyOK(q)'  BY DEF KeyInv
  <2>1. KeyOK(q)  BY DEF IInv, Known, KeyInv
  <2>2. CASE q = k
    <3> HIDE DEF k
    <3>1. keyOf[r] = k  BY DEF k
    <3>2. unrecorded'[k] # NoRequest => unrecorded'[k] = r
      BY <1>2, <1>4, <2>1, <2>2 DEF KeyOK
    <3> QED BY <1>1, <1>2, <1>3, <2>1, <2>2, <3>1, <3>2 DEF KeyOK
  <2>3. CASE q # k  BY <1>1, <1>3, <1>4, <2>1, <2>3 DEF KeyOK
  <2> QED BY <2>2, <2>3
<1>9. WorkerInv'
  BY <1>1 DEF IInv, TypeOK, Known, WorkerInv, WorkerOK
<1>10. FreshInv'  BY <1>1 DEF IInv, Known, FreshInv
<1>11. Counts'  BY <1>1, WorkerCounts DEF WithPermit, Counted
<1> QED BY <1>5, <1>7, <1>8, <1>9, <1>10, <1>11 DEF IInv, Known

LEMMA StepRelease ==
  ASSUME IInv, NEW w \in Worker, Release(w)  PROVE IInv'
<1> USE DEF Release
<1>1. Hands'  BY QuietHands DEF known
<1>2. Known'
  BY DEF IInv, TypeOK, Known, KeyInv, KeyOK, WorkerInv, WorkerOK, FreshInv
<1>3. /\ Having(WithPermit)' = Having(WithPermit) - 1
      /\ Having(Counted)' = Having(Counted) /\ Having(WithPermit)' \in Nat
  <2>1. worker' = [worker EXCEPT ![w] = "pop"] /\ worker[w] = "release"  OBVIOUS
  <2>2. "release" \in WithPermit /\ "pop" \notin WithPermit
        /\ "release" \in Counted /\ "pop" \in Counted
    BY DEF WithPermit, Counted
  <2> HIDE DEF Release
  <2> QED BY <2>1, <2>2, WorkerMoves
<1>4. Permits' = Permits  BY DEF Permits, Callers
<1>5. /\ Permits \in Nat /\ Having(WithPermit) \in Nat /\ Len(queue) \in Nat
      /\ active \in Nat
  BY CountsAreNumbers
<1>6. active' = active - 1 /\ pending' = pending /\ queue' = queue  OBVIOUS
<1>7. Counts'
  <2> HIDE DEF Release
  <2> QED BY <1>3, <1>4, <1>5, <1>6 DEF IInv, Counts, PermitInv, PendingInv
<1>8. TypeOK'
  <2>1. active' \in 0..MaxActive
    <3>1. active \in 0..MaxActive  BY DEF IInv, TypeOK
    <3>2. active = Permits + Len(queue) + Having(WithPermit)  BY DEF IInv, Counts, PermitInv
    <3> HIDE DEF Release
    <3> QED BY <1>3, <1>5, <1>6, <3>1, <3>2, LimitAssumption
  <2> QED BY <2>1 DEF IInv, TypeOK
<1> QED BY <1>1, <1>2, <1>7, <1>8 DEF IInv

LEMMA StepPop ==
  ASSUME IInv, NEW w \in Worker, Pop(w)  PROVE IInv'
<1> USE DEF Pop
<1>1. Hands'  BY QuietHands DEF known
<1>2. KeyInv' /\ FreshInv'  BY DEF IInv, Known, KeyInv, KeyOK, FreshInv
<1>3. WorkerInv'  BY DEF IInv, TypeOK, Known, WorkerInv, WorkerOK
<1>4. /\ Having(Counted)' = Having(Counted) - 1
      /\ Having(WithPermit)' = Having(WithPermit) /\ Having(Counted)' \in Nat
  <2>1. worker' = [worker EXCEPT ![w] = "recv"] /\ worker[w] = "pop"  OBVIOUS
  <2>2. "pop" \notin WithPermit /\ "recv" \notin WithPermit
        /\ "pop" \in Counted /\ "recv" \notin Counted
    BY DEF WithPermit, Counted
  <2> HIDE DEF Pop
  <2> QED BY <2>1, <2>2, WorkerMoves
<1>5. Permits' = Permits  BY DEF Permits, Callers
<1>6. /\ Permits \in Nat /\ Having(Counted) \in Nat /\ Len(queue) \in Nat /\ pending \in Nat
  BY CountsAreNumbers
<1>7. pending' = pending - 1 /\ active' = active /\ queue' = queue  OBVIOUS
<1>8. Counts'
  <2> HIDE DEF Pop
  <2> QED BY <1>4, <1>5, <1>6, <1>7 DEF IInv, Counts, PermitInv, PendingInv
<1>9. pending' \in Nat
  <2>1. pending >= Len(queue) + Having(Counted)  BY DEF IInv, Counts, PendingInv
  <2> HIDE DEF Pop
  <2> QED BY <1>4, <1>6, <1>7, <2>1
<1>10. TypeOK'  BY <1>9 DEF IInv, TypeOK
<1> QED BY <1>1, <1>2, <1>3, <1>8, <1>10 DEF IInv, Known

LEMMA StepExit ==
  ASSUME IInv, NEW w \in Worker, Exit(w)  PROVE IInv'
<1> USE DEF Exit
<1>1. TypeOK'  BY DEF IInv, TypeOK
<1>2. Hands'  BY QuietHands DEF known
<1>3. KeyInv' /\ FreshInv'  BY DEF IInv, Known, KeyInv, KeyOK, FreshInv
<1>4. WorkerInv'  BY DEF IInv, TypeOK, Known, WorkerInv, WorkerOK
<1>5. Counts'  BY WorkerCounts DEF WithPermit, Counted
<1> QED BY <1>1, <1>2, <1>3, <1>4, <1>5 DEF IInv, Known

LEMMA StepPanic ==
  ASSUME IInv, NEW w \in Worker, Panic(w)  PROVE IInv'
<1> USE DEF Panic
<1>1. queue' = queue \/ queue' = <<>>  BY DEF Left
<1>2. queue \in Seq(Request) /\ Len(queue) \in Nat /\ Len(queue) <= QueuePlaces
  BY DEF IInv, TypeOK
<1>3. queue' \in Seq(Request) /\ Len(queue') \in Nat /\ Len(queue') <= Len(queue)
  <2> HIDE DEF Panic
  <2>1. CASE queue' = queue  BY <1>2, <2>1
  <2>2. CASE queue' = <<>>  BY <1>2, <2>2
  <2> QED BY <1>1, <2>1, <2>2
<1>4. \A r : Waiting(r) => Waiting(r)'  BY DEF Waiting
<1>5. CallInv'
  <2>1. \A i \in 1..Len(queue') : i \in 1..Len(queue) /\ queue'[i] = queue[i]  BY <1>1
  <2> QED BY <1>4, <2>1 DEF IInv, Hands, CallInv, CallOK
<1>6. QueueInv'
  <2>1. CASE queue' = queue  BY <1>4, <2>1 DEF IInv, Hands, QueueInv, QueueOK
  <2>2. CASE queue' = <<>>  BY <2>2 DEF QueueInv
  <2> QED BY <1>1, <2>1, <2>2
<1>7. KeyInv' /\ FreshInv'  BY DEF IInv, Known, KeyInv, KeyOK, FreshInv
<1>8. WorkerInv'  BY DEF IInv, TypeOK, Known, WorkerInv, WorkerOK
<1>9. /\ Having(WithPermit)' = Having(WithPermit) - 1
      /\ Having(Counted)' = Having(Counted) - 1
      /\ Having(WithPermit)' \in Nat /\ Having(Counted)' \in Nat
  <2>1. worker' = [worker EXCEPT ![w] = "panicked"] /\ worker[w] = "prompt"  OBVIOUS
  <2>2. "prompt" \in WithPermit /\ "panicked" \notin WithPermit
        /\ "prompt" \in Counted /\ "panicked" \notin Counted
    BY DEF WithPermit, Counted
  <2> HIDE DEF Panic
  <2> QED BY <2>1, <2>2, WorkerMoves
<1>10. Permits' = Permits  BY DEF Permits, Callers
<1>11. /\ Permits \in Nat /\ Having(WithPermit) \in Nat /\ Having(Counted) \in Nat
       /\ pending \in Nat /\ active \in Nat
  BY CountsAreNumbers
<1>12. active' = active - 1 - (Len(queue) - Len(queue')) /\ pending' = pending  OBVIOUS
<1>13. Counts'
  <2>1. /\ active = Permits + Len(queue) + Having(WithPermit)
        /\ pending >= Len(queue) + Having(Counted)
    BY DEF IInv, Counts, PermitInv, PendingInv
  <2> HIDE DEF Panic
  <2>2. active' = Permits' + Len(queue') + Having(WithPermit)'
    <3>1. Len(queue) \in Nat /\ Len(queue') \in Nat  BY <1>2, <1>3
    <3>2. Having(WithPermit)' = Having(WithPermit) - 1  BY <1>9
    <3>3. /\ active = Permits + Len(queue) + Having(WithPermit)
          /\ active' = active - 1 - (Len(queue) - Len(queue'))
      BY <1>12, <2>1
    <3> QED BY <1>10, <1>11, <3>1, <3>2, <3>3
  <2>3. pending' >= Len(queue') + Having(Counted)'
    <3>1. pending >= Len(queue) + Having(Counted) /\ pending' = pending  BY <1>12, <2>1
    <3>2. Having(Counted)' = Having(Counted) - 1  BY <1>9
    <3>3. Len(queue) \in Nat /\ Len(queue') \in Nat /\ Len(queue') <= Len(queue)
      BY <1>2, <1>3
    <3> QED BY <1>11, <3>1, <3>2, <3>3
  <2> QED BY <2>2, <2>3 DEF Counts, PermitInv, PendingInv
<1>14. TypeOK'
  <2>1. active' \in 0..MaxActive
    <3>1. active \in 0..MaxActive  BY DEF IInv, TypeOK
    <3>2. active' = Permits' + Len(queue') + Having(WithPermit)'  BY <1>13 DEF Counts, PermitInv
    <3> HIDE DEF Panic
    <3> QED BY <1>2, <1>3, <1>9, <1>10, <1>11, <1>12, <3>1, <3>2, LimitAssumption
  <2>2. panics' \in 0..MaxPanics  BY BoundAssumption DEF IInv, TypeOK
  <2>3. Len(queue') <= QueuePlaces  BY <1>2, <1>3, LimitAssumption
  <2> QED BY <1>3, <2>1, <2>2, <2>3 DEF IInv, TypeOK
<1> QED BY <1>5, <1>6, <1>7, <1>8, <1>13, <1>14 DEF IInv, Hands, Known

-----------------------------------------------------------------------------
(* The drain, and a daemon that starts again.                               *)

LEMMA StepDrain ==
  ASSUME IInv, DrainStarts \/ DrainProceeds  PROVE IInv'
<1>1. /\ UNCHANGED <<disk, keyOf, unrecorded, active, pending, queue, threads, prompts, calls,
                     history, bounds>>
      /\ readiness' \in {readiness, "Draining", "Stopped"} /\ sender' \in {sender, FALSE}
      /\ drain' \in {"wait", "take", "join", "done"}
  BY DEF DrainStarts, DrainProceeds, DrainWaits, DrainTakesSender, DrainJoins, DrainKeeps
<1>2. TypeOK'  BY <1>1 DEF IInv, TypeOK
<1>3. Hands' /\ Known'  BY <1>1, QuietHands, SameKnown DEF known
<1>4. Counts'
  <2>1. /\ Permits' = Permits /\ Having(WithPermit)' = Having(WithPermit)
        /\ Having(Counted)' = Having(Counted)
    BY <1>1 DEF Having, Permits, Workers, WithPermit, Counted, Callers
  <2> QED BY <1>1, <2>1 DEF IInv, Counts, PermitInv, PendingInv
<1> QED BY <1>2, <1>3, <1>4 DEF IInv

LEMMA StepRestart ==
  ASSUME IInv, Restart  PROVE IInv'
<1> USE DEF Restart
<1>1. TypeOK'
  <2>1. /\ active' \in 0..MaxActive /\ Len(queue') <= QueuePlaces /\ restarts' \in 0..MaxRestarts
        /\ queue' \in Seq(Request)
    BY LimitAssumption, BoundAssumption DEF IInv, TypeOK
  <2>2. /\ sent' \in [Request -> 0..MaxEvents] /\ forwarded' \in [Request -> 0..MaxEvents + 1]
    BY BoundAssumption
  <2> QED BY <2>1, <2>2 DEF IInv, TypeOK
<1>2. Hands'  BY DEF Hands, CallInv, QueueInv, CallOK, QueueOK
<1>3. Known'  BY DEF IInv, TypeOK, Known, KeyInv, KeyOK, WorkerInv, WorkerOK, FreshInv
<1>4. Counts'
  <2>1. Callers(Permitted)' = {} /\ Workers(WithPermit)' = {} /\ Workers(Counted)' = {}
    BY DEF Callers, Workers, WithPermit, Counted
  <2>2. Cardinality({}) = 0  BY FS_EmptySet
  <2>3. active' = 0 /\ pending' = 0 /\ Len(queue') = 0  OBVIOUS
  <2>4. Permits' = 0 /\ Having(WithPermit)' = 0 /\ Having(Counted)' = 0
    BY <2>1, <2>2 DEF Permits, Having
  <2> HIDE DEF Restart
  <2> QED BY <2>3, <2>4 DEF Counts, PermitInv, PendingInv
<1> QED BY <1>1, <1>2, <1>3, <1>4 DEF IInv

LEMMA StepStutter ==
  ASSUME IInv, UNCHANGED vars  PROVE IInv'
<1> USE DEF vars
<1>1. TypeOK'  BY DEF IInv, TypeOK
<1>2. Hands' /\ Known' /\ Counts'  BY QuietHands, SameKnown, SameCounts DEF known
<1> QED BY <1>1, <1>2 DEF IInv

LEMMA StepIInv == IInv /\ [Next]_vars => IInv'
<1> SUFFICES ASSUME IInv, [Next]_vars PROVE IInv'  OBVIOUS
<1>1. ASSUME NEW c \in Caller, Begin(c) PROVE IInv'
  BY <1>1, StepBeginStart, StepBeginUnwritten, StepBeginUnreadable, StepBeginReattach,
     StepBeginCompleted DEF Begin
<1>2. ASSUME NEW c \in Caller, Proceed(c) PROVE IInv'
  <2>1. CASE Lookup(c)  BY <2>1, StepLookup
  <2>2. CASE Reserve(c)  BY <2>2, StepReserve
  <2>3. CASE OverQuota(c) \/ Ready(c) \/ CloneSender(c)
    BY <2>3, StepPass DEF OverQuota, Ready, CloneSender, Pass
  <2>4. CASE NotReady(c) \/ SenderGone(c) \/ SendRefused(c)
    BY <2>4, StepNotTaken DEF NotReady, SenderGone, SendRefused
  <2>5. CASE Send(c)  BY <2>5, StepSend
  <2>6. CASE Abandon(c) \/ AbandonFails(c)  BY <2>6, StepAbandon
  <2> QED BY <1>2, <2>1, <2>2, <2>3, <2>4, <2>5, <2>6 DEF Proceed
<1>3. ASSUME NEW w \in Worker, Run(w) PROVE IInv'
  BY <1>3, StepTake, StepPromptEnds, StepEmitError, StepJoinForwarder, StepCompletes,
     StepRelease, StepPop, StepExit DEF Run
<1>4. ASSUME NEW w \in Worker, Forwarding(w) \/ Publish(w) \/ Panic(w) PROVE IInv'
  BY <1>4, StepForwarding, StepPublish, StepPanic
<1>5. CASE DrainStarts \/ DrainProceeds  BY <1>5, StepDrain
<1>6. CASE Restart  BY <1>6, StepRestart
<1>7. CASE UNCHANGED vars  BY <1>7, StepStutter
<1> QED BY <1>1, <1>2, <1>3, <1>4, <1>5, <1>6, <1>7 DEF Next

-----------------------------------------------------------------------------
(* What holds, for any constants.                                           *)

\* The inductive invariant holds of every reachable state.
THEOREM RpcInv == Spec => []IInv
<1> QED BY InitIInv, StepIInv, PTL DEF Spec

\* Every variable has its type: no queue, quota or stream is outgrown.
THEOREM RpcTypes == Spec => []TypeOK
<1>1. IInv => TypeOK  BY DEF IInv
<1> QED BY <1>1, RpcInv, PTL

\* Under one key one request is prompted and answered, whatever callers retry,
\* storage fails or the daemon is restarted.
THEOREM RpcOneRequestPerKey == Spec => []OneRequestPerKey
<1>1. IInv => OneRequestPerKey
  BY DEF IInv, Known, KeyInv, KeyOK, OneRequestPerKey
<1> QED BY <1>1, RpcInv, PTL

\* The tenant's count is the number of permits in the hands of calls, the queue
\* and the workers.
THEOREM RpcPermitsHeld == Spec => []PermitsHeld
<1>1. IInv => PermitsHeld
  BY DEF IInv, Counts, PermitInv, Permits, Having, Callers, Workers, WithPermit, PermitsHeld
<1> QED BY <1>1, RpcInv, PTL

-----------------------------------------------------------------------------
(* Results stay.                                                            *)

\* A recorded result stays on disk; one in memory stays while the daemon does.
ResultsStay ==
  \A k \in Key :
    /\ record[k].state = "completed" => record'[k] = record[k]
    /\ unrecorded[k] # NoRequest => unrecorded'[k] = unrecorded[k] \/ Restart

LEMMA ResultsStayInStep ==
  ASSUME IInv, [Next]_vars  PROVE ResultsStay
<1>1. record \in [Key -> Record \cup {NoRecord}] /\ unrecorded \in [Key -> Request \cup {NoRequest}]
  BY DEF IInv, TypeOK
<1>2. CASE UNCHANGED <<record, unrecorded>>  BY <1>2 DEF ResultsStay
<1>3. ASSUME NEW c \in Caller, Begin(c) PROVE ResultsStay
  <2> PICK k \in Key : \/ BeginStart(c, k) \/ BeginUnwritten(c, k) \/ BeginUnreadable(c, k)
                       \/ BeginReattach(c, k) \/ BeginCompleted(c, k)
    BY <1>3 DEF Begin
  <2>1. CASE BeginStart(c, k)  BY <1>1, <2>1 DEF BeginStart, ResultsStay
  <2>2. CASE BeginUnwritten(c, k)  BY <1>1, <2>2 DEF BeginUnwritten, ResultsStay
  <2>3. CASE BeginUnreadable(c, k) \/ BeginReattach(c, k) \/ BeginCompleted(c, k)
    BY <1>2, <2>3 DEF BeginUnreadable, BeginReattach, BeginCompleted
  <2> QED BY <2>1, <2>2, <2>3
<1>4. ASSUME NEW c \in Caller, Proceed(c) PROVE ResultsStay
  <2>1. CASE Abandon(c) \/ AbandonFails(c)
    <3>1. /\ \/ record' = record
             \/ \E k \in Key : /\ record[k] = Active(mine[c])
                               /\ record' = [record EXCEPT ![k] = NoRecord]
          /\ unrecorded' = unrecorded
      <4>1. pc[c] = "abandon" => mine[c] \in 1..Len(keyOf)
        BY DEF IInv, Hands, CallInv, CallOK
      <4>2. pc[c] = "abandon" => keyOf[mine[c]] \in Key
        BY <4>1 DEF IInv, TypeOK
      <4> QED BY <2>1, <4>2 DEF Abandon, AbandonFails, Abandonable
    <3> QED BY <1>1, <3>1 DEF ResultsStay
  <2>2. CASE ~(Abandon(c) \/ AbandonFails(c))
    BY <1>2, <1>4, <2>2 DEF Proceed, Lookup, Reserve, OverQuota, Ready, NotReady, CloneSender,
       SenderGone, Send, SendRefused, NotTaken, Pass
  <2> QED BY <2>1, <2>2
<1>5. ASSUME NEW w \in Worker, Run(w) PROVE ResultsStay
  <2>1. CASE Complete(w) \/ CompleteFails(w)
    <3> DEFINE r == job[w]
               k == keyOf[r]
    <3>1. worker[w] = "complete"  BY <2>1 DEF Complete, CompleteFails
    <3>2. r \in Request /\ k \in Key /\ record[k].request = r  BY <3>1, JobKnown
    <3>3. /\ \/ record' = record
             \/ record[k] = Active(r) /\ record' = [record EXCEPT ![k] = Completed(r)]
          /\ unrecorded' = unrecorded \/ unrecorded' = [unrecorded EXCEPT ![k] = r]
      BY <2>1 DEF Complete, CompleteFails
    <3>4. unrecorded[k] # NoRequest => unrecorded[k] = r
      BY <3>2 DEF IInv, Known, KeyInv, KeyOK
    <3> HIDE DEF k, r
    <3> QED BY <1>1, <3>2, <3>3, <3>4 DEF ResultsStay
  <2>2. CASE ~(Complete(w) \/ CompleteFails(w))
    BY <1>2, <1>5, <2>2 DEF Run, Take, PromptEnds, EmitError, JoinForwarder, Release, Pop, Exit
  <2> QED BY <2>1, <2>2
<1>6. ASSUME NEW w \in Worker, Forwarding(w) \/ Publish(w) \/ Panic(w) PROVE ResultsStay
  BY <1>2, <1>6 DEF Forwarding, Forward, ForwardEnd, Publish, Panic
<1>7. CASE DrainStarts \/ DrainProceeds
  BY <1>2, <1>7 DEF DrainStarts, DrainProceeds, DrainWaits, DrainTakesSender, DrainJoins, DrainKeeps
<1>8. CASE Restart  BY <1>8 DEF Restart, ResultsStay
<1>9. CASE UNCHANGED vars  BY <1>2, <1>9 DEF vars
<1> QED BY <1>3, <1>4, <1>5, <1>6, <1>7, <1>8, <1>9 DEF Next

\* A recorded result is never replaced or taken away, by whatever call, worker
\* or restart.
THEOREM RpcCompletedForGood == Spec => CompletedForGood
<1>1. IInv /\ [Next]_vars =>
        [\A k \in Key : record[k].state = "completed" => record'[k] = record[k]]_vars
  BY ResultsStayInStep DEF ResultsStay
<1> QED BY <1>1, RpcInv, PTL DEF Spec, CompletedForGood

-----------------------------------------------------------------------------
(* Started requests go on.                                                  *)

\* A worker that is through with its job left its result.
LeftResult == \A w \in Worker : worker[w] \in {"release", "pop"} => Done(job[w])
\* A worker that waits for a job has none.
WaitsEmpty == \A w \in Worker : worker[w] = "recv" => job[w] = NoRequest
StartedInv == StartedGoesOn /\ LeftResult /\ WaitsEmpty

LEMMA DoneStays ==
  ASSUME IInv, [Next]_vars, restarts' = restarts, NEW r \in Request, Done(r)
  PROVE  Done(r)'
<1>1. ResultsStay /\ ~Restart  BY ResultsStayInStep DEF Restart, IInv, TypeOK
<1>2. PICK k \in Key : record[k] = Completed(r) \/ unrecorded[k] = r  BY DEF Done
<1>3. record'[k] = Completed(r) \/ unrecorded'[k] = r
  BY <1>1, <1>2 DEF ResultsStay, Request
<1> QED BY <1>3 DEF Done

\* A step that moves no request and leaves no worker without its result.
LEMMA StartedStay ==
  ASSUME StartedInv, TypeOK, UNCHANGED <<started, queue, job>>,
         \A r \in Request : Done(r) => Done(r)',
         \A w \in Worker : worker[w] = "panicked" => worker'[w] = "panicked",
         \A w \in Worker : worker'[w] = "recv" => worker[w] = "recv",
         \A w \in Worker : worker'[w] \in {"release", "pop"} =>
           job[w] \in Request /\ (worker[w] \in {"release", "pop"} \/ Done(job[w])')
  PROVE  StartedInv'
<1>1. StartedGoesOn'
  <2> SUFFICES ASSUME NEW r \in started'
               PROVE  \/ Done(r)'
                      \/ \E i \in 1..Len(queue') : queue'[i] = r
                      \/ \E w \in Worker : job'[w] = r
                      \/ \E w \in Worker : worker'[w] = "panicked"
    BY DEF StartedGoesOn
  <2>1. r \in started /\ r \in Request  BY DEF TypeOK
  <2> QED BY <2>1 DEF StartedInv, StartedGoesOn
<1>2. LeftResult'
  <2> SUFFICES ASSUME NEW w \in Worker, worker'[w] \in {"release", "pop"} PROVE Done(job[w])'
    BY DEF LeftResult
  <2>1. job[w] \in Request /\ (Done(job[w]) \/ Done(job[w])')  BY DEF StartedInv, LeftResult
  <2>2. \A r \in Request : r = job[w] /\ (Done(r) \/ Done(r)') => Done(r)'  OBVIOUS
  <2> QED BY <2>1, <2>2 DEF Done
<1>3. WaitsEmpty'  BY DEF StartedInv, WaitsEmpty
<1> QED BY <1>1, <1>2, <1>3 DEF StartedInv

LEMMA InitStarted == Init => StartedInv
BY DEF Init, StartedInv, StartedGoesOn, LeftResult, WaitsEmpty

LEMMA StepStarted ==
  ASSUME IInv, StartedInv, [Next]_vars  PROVE StartedInv'
<1>1. TypeOK  BY DEF IInv
<1>2. CASE Restart
  BY <1>2 DEF Restart, StartedInv, StartedGoesOn, LeftResult, WaitsEmpty
<1>3. ASSUME restarts' = restarts, NEW r \in Request, Done(r) PROVE Done(r)'
  BY <1>3, DoneStays
<1>4. \A w \in Worker : worker[w] \in {"complete", "release", "pop"} => job[w] \in Request
  BY JobKnown
<1>5. ASSUME UNCHANGED <<started, queue, threads, restarts>> PROVE StartedInv'
  BY <1>1, <1>3, <1>4, <1>5, StartedStay
<1>6. ASSUME NEW c \in Caller, Begin(c) PROVE StartedInv'
  BY <1>5, <1>6 DEF Begin, BeginStart, BeginUnwritten, BeginUnreadable, BeginReattach,
     BeginCompleted
<1>7. ASSUME NEW c \in Caller, Proceed(c) PROVE StartedInv'
  <2>1. CASE Send(c)
    <3>1. /\ started' = started \cup {mine[c]} /\ queue' = Append(queue, mine[c])
          /\ UNCHANGED <<record, unrecorded, threads>>
      BY <2>1 DEF Send
    <3>2. queue \in Seq(Request) /\ Len(queue) \in Nat  BY DEF IInv, TypeOK
    <3>3. /\ Len(queue) + 1 \in 1..Len(queue') /\ queue'[Len(queue) + 1] = mine[c]
          /\ \A i \in 1..Len(queue) : i \in 1..Len(queue') /\ queue'[i] = queue[i]
      BY <3>1, <3>2
    <3>4. \A r \in started :
            \/ Done(r)
            \/ \E i \in 1..Len(queue') : queue'[i] = r
            \/ \E w \in Worker : job[w] = r
            \/ \E w \in Worker : worker[w] = "panicked"
      BY <3>3 DEF StartedInv, StartedGoesOn
    <3>5. \A r : Done(r) => Done(r)'  BY <3>1 DEF Done
    <3>6. StartedGoesOn'
      <4> SUFFICES ASSUME NEW r \in started'
                   PROVE  \/ Done(r)'
                          \/ \E i \in 1..Len(queue') : queue'[i] = r
                          \/ \E w \in Worker : job'[w] = r
                          \/ \E w \in Worker : worker'[w] = "panicked"
        BY DEF StartedGoesOn
      <4>1. CASE r = mine[c]  BY <3>3, <4>1
      <4>2. CASE r \in started  BY <3>1, <3>4, <3>5, <4>2
      <4> QED BY <3>1, <4>1, <4>2
    <3>7. LeftResult' /\ WaitsEmpty'  BY <3>1 DEF StartedInv, LeftResult, WaitsEmpty, Done
    <3> QED BY <3>6, <3>7 DEF StartedInv
  <2>2. CASE ~Send(c)
    BY <1>5, <1>7, <2>2 DEF Proceed, Lookup, Reserve, OverQuota, Ready, NotReady, CloneSender,
       SenderGone, SendRefused, NotTaken, Pass, Abandon, AbandonFails
  <2> QED BY <2>1, <2>2
<1>8. ASSUME NEW w \in Worker, Run(w) PROVE StartedInv'
  <2>1. CASE Take(w)
    <3>1. /\ worker[w] = "recv" /\ worker' = [worker EXCEPT ![w] = "prompt"]
          /\ job' = [job EXCEPT ![w] = Head(queue)] /\ queue # <<>> /\ queue' = Tail(queue)
          /\ UNCHANGED <<record, unrecorded, started>>
      BY <2>1 DEF Take, Takeable
    <3>2. /\ queue \in Seq(Request)
          /\ worker \in [Worker -> {"recv", "release", "pop"} \cup Prompting \cup Dead]
          /\ job \in [Worker -> Request \cup {NoRequest}]
      BY DEF IInv, TypeOK
    <3>3. \A i \in 1..Len(queue) : queue[i] = Head(queue) \/
            (i - 1 \in 1..Len(queue') /\ queue'[i - 1] = queue[i])
      BY <3>1, <3>2
    <3>4. job'[w] = Head(queue) /\ \A v \in Worker : v # w => job'[v] = job[v]
      BY <3>1, <3>2
    <3>5. StartedGoesOn'
      <4> SUFFICES ASSUME NEW r \in started
                   PROVE  \/ Done(r)'
                          \/ \E i \in 1..Len(queue') : queue'[i] = r
                          \/ \E v \in Worker : job'[v] = r
                          \/ \E v \in Worker : worker'[v] = "panicked"
        BY <3>1 DEF StartedGoesOn
      <4>1. CASE Done(r)  BY <3>1, <4>1 DEF Done
      <4>2. CASE \E i \in 1..Len(queue) : queue[i] = r  BY <3>3, <3>4, <4>2
      <4>3. CASE \E v \in Worker : job[v] = r
        <5> PICK v \in Worker : job[v] = r  BY <4>3
        <5>1. CASE v # w  BY <3>4, <5>1
        <5>2. CASE v = w
          <6>1. r = NoRequest  BY <3>1, <5>2 DEF StartedInv, WaitsEmpty
          <6> QED BY <3>1, <6>1 DEF IInv, TypeOK, Request
        <5> QED BY <5>1, <5>2
      <4>4. CASE \E v \in Worker : worker[v] = "panicked"  BY <3>1, <3>2, <4>4
      <4> QED BY <3>1, <4>1, <4>2, <4>3, <4>4 DEF StartedInv, StartedGoesOn
    <3>6. LeftResult' /\ WaitsEmpty'
      BY <3>1, <3>2, <3>4 DEF StartedInv, LeftResult, WaitsEmpty, Done
    <3> QED BY <3>5, <3>6 DEF StartedInv
  <2>2. CASE PromptEnds(w) \/ EmitError(w) \/ JoinForwarder(w) \/ Release(w) \/ Exit(w)
    <3>1. /\ UNCHANGED <<started, queue, job, restarts>>
          /\ \E to \in {"emit", "join", "complete", "pop", "exited"} :
               /\ worker' = [worker EXCEPT ![w] = to]
               /\ to = "pop" => worker[w] = "release"
          /\ worker[w] # "panicked"
      BY <2>2 DEF PromptEnds, EmitError, JoinForwarder, Release, Exit
    <3>2. worker \in [Worker -> {"recv", "release", "pop"} \cup Prompting \cup Dead]
      BY DEF IInv, TypeOK
    <3>3. /\ \A v \in Worker : worker[v] = "panicked" => worker'[v] = "panicked"
          /\ \A v \in Worker : worker'[v] = "recv" => worker[v] = "recv"
          /\ \A v \in Worker : worker'[v] \in {"release", "pop"} => worker[v] \in {"release", "pop"}
      BY <3>1, <3>2
    <3> QED BY <1>1, <1>3, <1>4, <3>1, <3>3, StartedStay
  <2>3. CASE Complete(w) \/ CompleteFails(w)
    <3>1. /\ UNCHANGED <<started, queue, job, restarts>>
          /\ worker' = [worker EXCEPT ![w] = "release"] /\ worker[w] = "complete"
      BY <2>3 DEF Complete, CompleteFails
    <3>2. Done(job[w])'
      <4>1. keyOf[job[w]] \in Key  BY <3>1, JobKnown
      <4> QED BY <2>3, <4>1 DEF Complete, CompleteFails, Done, IInv, TypeOK
    <3>3. worker \in [Worker -> {"recv", "release", "pop"} \cup Prompting \cup Dead]
      BY DEF IInv, TypeOK
    <3>4. /\ \A v \in Worker : worker[v] = "panicked" => worker'[v] = "panicked"
          /\ \A v \in Worker : worker'[v] = "recv" => worker[v] = "recv"
          /\ \A v \in Worker : worker'[v] \in {"release", "pop"} =>
               worker[v] \in {"release", "pop"} \/ v = w
      BY <3>1, <3>3
    <3> QED BY <1>1, <1>3, <1>4, <3>1, <3>2, <3>4, StartedStay
  <2>4. CASE Pop(w)
    <3>1. /\ worker[w] = "pop" /\ worker' = [worker EXCEPT ![w] = "recv"]
          /\ job' = [job EXCEPT ![w] = NoRequest]
          /\ UNCHANGED <<record, unrecorded, queue, started>>
      BY <2>4 DEF Pop
    <3>2. /\ worker \in [Worker -> {"recv", "release", "pop"} \cup Prompting \cup Dead]
          /\ job \in [Worker -> Request \cup {NoRequest}]
      BY DEF IInv, TypeOK
    <3>3. Done(job[w])  BY <3>1 DEF StartedInv, LeftResult
    <3>4. StartedGoesOn'
      <4> SUFFICES ASSUME NEW r \in started
                   PROVE  \/ Done(r)'
                          \/ \E i \in 1..Len(queue') : queue'[i] = r
                          \/ \E v \in Worker : job'[v] = r
                          \/ \E v \in Worker : worker'[v] = "panicked"
        BY <3>1 DEF StartedGoesOn
      <4>1. Done(r) => Done(r)'  BY <3>1 DEF Done
      <4>2. CASE \E v \in Worker : job[v] = r  BY <3>1, <3>2, <3>3, <4>1, <4>2
      <4>3. CASE \E v \in Worker : worker[v] = "panicked"  BY <3>1, <3>2, <4>3
      <4> QED BY <3>1, <4>1, <4>2, <4>3 DEF StartedInv, StartedGoesOn
    <3>5. LeftResult' /\ WaitsEmpty'
      BY <3>1, <3>2 DEF StartedInv, LeftResult, WaitsEmpty, Done
    <3> QED BY <3>4, <3>5 DEF StartedInv
  <2> QED BY <1>8, <2>1, <2>2, <2>3, <2>4 DEF Run
<1>9. ASSUME NEW w \in Worker, Panic(w) PROVE StartedInv'
  <2>1. /\ worker[w] = "prompt" /\ worker' = [worker EXCEPT ![w] = "panicked"]
        /\ UNCHANGED <<record, unrecorded, job>>
    BY <1>9 DEF Panic
  <2>2. worker \in [Worker -> {"recv", "release", "pop"} \cup Prompting \cup Dead]
    BY DEF IInv, TypeOK
  <2>3. StartedGoesOn'  BY <2>1, <2>2 DEF StartedGoesOn
  <2>4. LeftResult' /\ WaitsEmpty'
    BY <2>1, <2>2 DEF StartedInv, LeftResult, WaitsEmpty, Done
  <2> QED BY <2>3, <2>4 DEF StartedInv
<1>10. ASSUME NEW w \in Worker, Forwarding(w) \/ Publish(w) PROVE StartedInv'
  BY <1>5, <1>10 DEF Forwarding, Forward, ForwardEnd, Publish
<1>11. CASE DrainStarts \/ DrainProceeds
  BY <1>5, <1>11 DEF DrainStarts, DrainProceeds, DrainWaits, DrainTakesSender, DrainJoins,
     DrainKeeps
<1>12. CASE UNCHANGED vars  BY <1>5, <1>12 DEF vars
<1> QED BY <1>2, <1>6, <1>7, <1>8, <1>9, <1>10, <1>11, <1>12 DEF Next

\* A request answered as started is queued, run or done, whatever drain, quota
\* or failure came between, unless a prompt panicked.
THEOREM RpcStartedGoesOn == Spec => []StartedGoesOn
<1>1. IInv /\ StartedInv /\ [Next]_vars => StartedInv'  BY StepStarted
<1>2. StartedInv => StartedGoesOn  BY DEF StartedInv
<1> QED BY <1>1, <1>2, InitStarted, RpcInv, PTL DEF Spec

-----------------------------------------------------------------------------
(* Streams end.                                                             *)

\* A stream whose terminal event was forwarded has ended, and so has that of a
\* worker past its forwarder.
EndInv ==
  /\ \A r \in Request : forwarded[r] > sent[r] => ended[r]
  /\ \A w \in Worker : worker[w] \in {"complete", "release", "pop"} => ended[job[w]]
  /\ DoneHasEnded

LEMMA InitEnd == Init => EndInv
BY DEF Init, EndInv, DoneHasEnded, Done, Request

\* A step that finishes no request and takes no stream's end away.
LEMMA EndStays ==
  ASSUME IInv, EndInv,
         \A r \in Request : ended[r] => ended'[r],
         \A r \in Request : Done(r)' => Done(r),
         \A r \in Request : forwarded'[r] > sent'[r] => forwarded[r] > sent[r] \/ ended'[r],
         \A w \in Worker : worker'[w] \in {"complete", "release", "pop"} =>
           job[w] \in Request /\ job'[w] = job[w]
           /\ (worker[w] \in {"complete", "release", "pop"} \/ ended'[job[w]])
  PROVE  EndInv'
BY DEF EndInv, DoneHasEnded

LEMMA StepEnd ==
  ASSUME IInv, EndInv, "append" \notin Failing, [Next]_vars  PROVE EndInv'
<1>1. /\ worker \in [Worker -> {"recv", "release", "pop"} \cup Prompting \cup Dead]
      /\ job \in [Worker -> Request \cup {NoRequest}] /\ ended \in [Request -> BOOLEAN]
      /\ record \in [Key -> Record \cup {NoRecord}]
  BY DEF IInv, TypeOK
<1>2. \A w \in Worker : worker[w] \notin {"recv", "exited"} => job[w] \in Request
  BY JobKnown
<1>3. ASSUME UNCHANGED <<ended, unrecorded, threads, prompts>>,
             \A k \in Key : record'[k].state = "completed" => record'[k] = record[k]
      PROVE  EndInv'
  <2>1. \A r \in Request : Done(r)' => Done(r)  BY <1>3 DEF Done
  <2> QED BY <1>2, <1>3, <2>1, EndStays
<1>4. ASSUME NEW c \in Caller, Begin(c) PROVE EndInv'
  <2> PICK k \in Key : \/ BeginStart(c, k) \/ BeginUnwritten(c, k) \/ BeginUnreadable(c, k)
                       \/ BeginReattach(c, k) \/ BeginCompleted(c, k)
    BY <1>4 DEF Begin
  <2>1. CASE BeginStart(c, k) \/ BeginUnwritten(c, k)
    <3>1. /\ UNCHANGED <<ended, unrecorded, threads, prompts>>
          /\ record' = record \/ record' = [record EXCEPT ![k] = Active(Drawn)]
      BY <2>1 DEF BeginStart, BeginUnwritten
    <3>2. \A q \in Key : record'[q].state = "completed" => record'[q] = record[q]
      BY <1>1, <3>1
    <3> QED BY <1>3, <3>1, <3>2
  <2>2. CASE BeginUnreadable(c, k) \/ BeginReattach(c, k) \/ BeginCompleted(c, k)
    BY <1>3, <2>2 DEF BeginUnreadable, BeginReattach, BeginCompleted
  <2> QED BY <2>1, <2>2
<1>5. ASSUME NEW c \in Caller, Proceed(c) PROVE EndInv'
  <2>1. CASE Abandon(c) \/ AbandonFails(c)
    <3>1. /\ UNCHANGED <<ended, unrecorded, threads, prompts>>
          /\ \/ record' = record
             \/ record' = [record EXCEPT ![keyOf[mine[c]]] = NoRecord]
      BY <2>1 DEF Abandon, AbandonFails
    <3>2. \A q \in Key : record'[q].state = "completed" => record'[q] = record[q]
      BY <1>1, <3>1
    <3> QED BY <1>3, <3>1, <3>2
  <2>2. CASE ~(Abandon(c) \/ AbandonFails(c))
    BY <1>3, <1>5, <2>2 DEF Proceed, Lookup, Reserve, OverQuota, Ready, NotReady, CloneSender,
       SenderGone, Send, SendRefused, NotTaken, Pass
  <2> QED BY <2>1, <2>2
<1>6. ASSUME NEW w \in Worker, Run(w) PROVE EndInv'
  <2>1. CASE Take(w)
    <3>1. /\ worker' = [worker EXCEPT ![w] = "prompt"] /\ job' = [job EXCEPT ![w] = Head(queue)]
          /\ UNCHANGED <<record, unrecorded, ended, prompts>>
      BY <2>1 DEF Take
    <3>2. \A r \in Request : Done(r)' => Done(r)  BY <3>1 DEF Done
    <3>3. \A v \in Worker : worker'[v] \in {"complete", "release", "pop"} =>
            worker[v] = worker'[v] /\ job'[v] = job[v]
      BY <1>1, <3>1
    <3> QED BY <1>2, <3>1, <3>2, <3>3, EndStays
  <2>2. CASE PromptEnds(w) \/ Exit(w)
    <3>1. /\ \E to \in {"emit", "join", "exited"} : worker' = [worker EXCEPT ![w] = to]
          /\ UNCHANGED <<record, unrecorded, ended, prompts, job>>
      BY <2>2 DEF PromptEnds, Exit
    <3>2. \A r \in Request : Done(r)' => Done(r)  BY <3>1 DEF Done
    <3>3. \A v \in Worker : worker'[v] \in {"complete", "release", "pop"} => worker[v] = worker'[v]
      BY <1>1, <3>1
    <3> QED BY <1>2, <3>1, <3>2, <3>3, EndStays
  <2>3. CASE EmitError(w)
    <3>1. /\ worker' = [worker EXCEPT ![w] = "join"] /\ worker[w] = "emit"
          /\ ended' = [ended EXCEPT ![job[w]] = TRUE]
          /\ UNCHANGED <<record, unrecorded, prompts, job>>
      BY <2>3 DEF EmitError, End, Unappended
    <3>2. \A r \in Request : Done(r)' => Done(r)  BY <3>1 DEF Done
    <3>3. \A v \in Worker : worker'[v] \in {"complete", "release", "pop"} => worker[v] = worker'[v]
      BY <1>1, <3>1
    <3>4. \A r \in Request : ended[r] => ended'[r]  BY <1>1, <3>1
    <3> QED BY <1>2, <3>1, <3>2, <3>3, <3>4, EndStays
  <2>4. CASE JoinForwarder(w)
    <3>1. /\ worker' = [worker EXCEPT ![w] = "complete"] /\ worker[w] = "join"
          /\ forwarded[job[w]] > sent[job[w]]
          /\ UNCHANGED <<record, unrecorded, ended, prompts, job>>
      BY <2>4 DEF JoinForwarder, Forwarded
    <3>2. \A r \in Request : Done(r)' => Done(r)  BY <3>1 DEF Done
    <3>3. \A v \in Worker : worker'[v] \in {"complete", "release", "pop"} =>
            worker[v] = worker'[v] \/ v = w
      BY <1>1, <3>1
    <3>4. job[w] \in Request /\ ended[job[w]]  BY <1>2, <3>1 DEF EndInv
    <3> QED BY <1>2, <3>1, <3>2, <3>3, <3>4, EndStays
  <2>5. CASE Complete(w) \/ CompleteFails(w)
    <3> DEFINE r == job[w]
               k == keyOf[r]
    <3>1. /\ worker' = [worker EXCEPT ![w] = "release"] /\ worker[w] = "complete"
          /\ record' = record \/ record' = [record EXCEPT ![k] = Completed(r)]
          /\ unrecorded' = unrecorded \/ unrecorded' = [unrecorded EXCEPT ![k] = r]
          /\ UNCHANGED <<ended, prompts, job>>
      BY <2>5 DEF Complete, CompleteFails
    <3>2. r \in Request /\ ended[r]  BY <1>2, <3>1 DEF EndInv
    <3> HIDE DEF k
    <3>3. \A q \in Request : Done(q)' => Done(q) \/ q = r
      BY <1>1, <3>1 DEF Done, IInv, TypeOK
    <3>4. DoneHasEnded'  BY <3>1, <3>2, <3>3 DEF EndInv, DoneHasEnded
    <3>5. \A v \in Worker : worker'[v] \in {"complete", "release", "pop"} => ended'[job'[v]]
      BY <1>1, <3>1, <3>2 DEF EndInv
    <3> QED BY <3>1, <3>4, <3>5 DEF EndInv
  <2>6. CASE Release(w)
    <3>1. /\ worker' = [worker EXCEPT ![w] = "pop"] /\ worker[w] = "release"
          /\ UNCHANGED <<record, unrecorded, ended, prompts, job>>
      BY <2>6 DEF Release
    <3>2. \A r \in Request : Done(r)' => Done(r)  BY <3>1 DEF Done
    <3>3. \A v \in Worker : worker'[v] \in {"complete", "release", "pop"} =>
            worker[v] \in {"complete", "release", "pop"}
      BY <1>1, <3>1
    <3> QED BY <1>2, <3>1, <3>2, <3>3, EndStays
  <2>7. CASE Pop(w)
    <3>1. /\ worker' = [worker EXCEPT ![w] = "recv"] /\ job' = [job EXCEPT ![w] = NoRequest]
          /\ UNCHANGED <<record, unrecorded, ended, prompts>>
      BY <2>7 DEF Pop
    <3>2. \A r \in Request : Done(r)' => Done(r)  BY <3>1 DEF Done
    <3>3. \A v \in Worker : worker'[v] \in {"complete", "release", "pop"} =>
            worker[v] = worker'[v] /\ job'[v] = job[v]
      BY <1>1, <3>1
    <3> QED BY <1>2, <3>1, <3>2, <3>3, EndStays
  <2> QED BY <1>6, <2>1, <2>2, <2>3, <2>4, <2>5, <2>6, <2>7 DEF Run
<1>7. ASSUME NEW w \in Worker, Panic(w) PROVE EndInv'
  <2>1. /\ worker' = [worker EXCEPT ![w] = "panicked"]
        /\ UNCHANGED <<record, unrecorded, ended, prompts, job>>
    BY <1>7 DEF Panic
  <2>2. \A r \in Request : Done(r)' => Done(r)  BY <2>1 DEF Done
  <2>3. \A v \in Worker : worker'[v] \in {"complete", "release", "pop"} => worker[v] = worker'[v]
    BY <1>1, <2>1
  <2> QED BY <1>2, <2>1, <2>2, <2>3, EndStays
<1>8. ASSUME NEW w \in Worker, Forwarding(w) \/ Publish(w) PROVE EndInv'
  <2>1. /\ \A q \in Request : forwarded[q] \in Nat /\ sent[q] \in Nat
        /\ forwarded \in [Request -> 0..MaxEvents + 1] /\ sent \in [Request -> 0..MaxEvents]
    BY DEF IInv, TypeOK
  <2>2. CASE Forward(w)
    <3>1. /\ UNCHANGED <<record, unrecorded, ended, sent, threads>>
          /\ forwarded' = [forwarded EXCEPT ![job[w]] = @ + 1]
          /\ forwarded[job[w]] < sent[job[w]] /\ job[w] \in Request
      BY <1>2, <2>2 DEF Forward
    <3>2. \A r \in Request : Done(r)' => Done(r)  BY <3>1 DEF Done
    <3>3. \A q \in Request : forwarded'[q] > sent'[q] => forwarded[q] > sent[q]
      <4> SUFFICES ASSUME NEW q \in Request, forwarded'[q] > sent'[q]
                   PROVE  forwarded[q] > sent[q]
        OBVIOUS
      <4>1. CASE q = job[w]
        <5>1. forwarded'[q] = forwarded[q] + 1 /\ sent'[q] = sent[q]  BY <2>1, <3>1, <4>1
        <5> QED BY <2>1, <3>1, <4>1, <5>1
      <4>2. CASE q # job[w]  BY <2>1, <3>1, <4>2
      <4> QED BY <4>1, <4>2
    <3> QED BY <1>2, <3>1, <3>2, <3>3, EndStays
  <2>3. CASE ForwardEnd(w)
    <3>1. /\ UNCHANGED <<record, unrecorded, sent, threads>>
          /\ forwarded' = [forwarded EXCEPT ![job[w]] = @ + 1]
          /\ ended' = [ended EXCEPT ![job[w]] = TRUE] /\ job[w] \in Request
      BY <1>2, <2>3 DEF ForwardEnd, End, Unappended
    <3>2. \A r \in Request : Done(r)' => Done(r)  BY <3>1 DEF Done
    <3>3. \A q \in Request : (ended[q] => ended'[q])
            /\ (forwarded'[q] > sent'[q] => forwarded[q] > sent[q] \/ ended'[q])
      BY <1>1, <2>1, <3>1
    <3> QED BY <1>2, <3>1, <3>2, <3>3, EndStays
  <2>4. CASE Publish(w)
    <3>1. /\ UNCHANGED <<record, unrecorded, ended, forwarded, threads>>
          /\ sent' = [sent EXCEPT ![job[w]] = @ + 1] /\ job[w] \in Request
      BY <1>2, <2>4 DEF Publish
    <3>2. \A r \in Request : Done(r)' => Done(r)  BY <3>1 DEF Done
    <3>3. \A q \in Request : forwarded'[q] > sent'[q] => forwarded[q] > sent[q]
      BY <2>1, <3>1
    <3> QED BY <1>2, <3>1, <3>2, <3>3, EndStays
  <2> QED BY <1>8, <2>2, <2>3, <2>4 DEF Forwarding
<1>9. CASE DrainStarts \/ DrainProceeds
  BY <1>3, <1>9 DEF DrainStarts, DrainProceeds, DrainWaits, DrainTakesSender, DrainJoins,
     DrainKeeps
<1>10. CASE Restart
  <2>1. \A r \in Request : Done(r)' => Done(r)  BY <1>10 DEF Restart, Done, Request
  <2> QED BY <1>10, <2>1 DEF Restart, EndInv, DoneHasEnded
<1>11. CASE UNCHANGED vars  BY <1>3, <1>11 DEF vars
<1> QED BY <1>4, <1>5, <1>6, <1>7, <1>8, <1>9, <1>10, <1>11 DEF Next

\* Where appends do not fail, a request that is done has the end of its stream,
\* also if its prompt failed or its daemon was restarted.
THEOREM RpcDoneHasEnded == ASSUME "append" \notin Failing PROVE Spec => []DoneHasEnded
<1>1. IInv /\ EndInv /\ [Next]_vars => EndInv'  BY StepEnd
<1>2. EndInv => DoneHasEnded  BY DEF EndInv
<1> QED BY <1>1, <1>2, InitEnd, RpcInv, PTL DEF Spec


-----------------------------------------------------------------------------
(* The service keeps the promise of KeyedPrompts.                           *)

Holders == [k \in Key |-> record[k].request]
ResultOf(r, u) == IF r.state = "completed" THEN "disk" ELSE IF u # 0 THEN "memory" ELSE "none"
Results == [k \in Key |-> ResultOf(record[k], unrecorded[k])]

LEMMA KeyedIs ==
  /\ Keyed!vars = <<Len(keyOf), Holders, ran, Results, given>>
  /\ Keyed!vars' = <<Len(keyOf'), Holders', ran', Results', given'>>
BY DEF Keyed!vars, Holders, Results, ResultOf

\* A function that differs from another at one argument.
LEMMA OneChanged ==
  ASSUME NEW S, NEW f, NEW g, NEW j \in S, NEW v, f = [k \in S |-> f[k]], g = [k \in S |-> g[k]],
         \A k \in S : g[k] = IF k = j THEN v ELSE f[k]
  PROVE  g = [f EXCEPT ![j] = v]
OBVIOUS

LEMMA KeyedTypes ==
  ASSUME IInv
  PROVE  /\ record \in [Key -> Record \cup {NoRecord}]
         /\ unrecorded \in [Key -> Request \cup {NoRequest}]
         /\ ran \in [Key -> SUBSET Request] /\ given \in [Key -> SUBSET Request]
         /\ keyOf \in Seq(Key) /\ Len(keyOf) \in Nat
         /\ Request \subseteq Nat /\ 0 \notin Request
         /\ \A k \in Key : /\ record[k].request = 0 <=> record[k] = NoRecord
                           /\ Holders[k] = record[k].request
                           /\ Results[k] = ResultOf(record[k], unrecorded[k])
         /\ Holders = [k \in Key |-> Holders[k]] /\ Results = [k \in Key |-> Results[k]]
<1>1. /\ record \in [Key -> Record \cup {NoRecord}]
      /\ unrecorded \in [Key -> Request \cup {NoRequest}]
      /\ ran \in [Key -> SUBSET Request] /\ given \in [Key -> SUBSET Request]
      /\ keyOf \in Seq(Key)
  BY DEF IInv, TypeOK
<1>2. Request \subseteq Nat /\ 0 \notin Request
  BY BoundAssumption DEF Request
<1>3. \A k \in Key : record[k].request = 0 <=> record[k] = NoRecord
  BY <1>1, <1>2 DEF Record
<1>4. /\ \A k \in Key : /\ Holders[k] = record[k].request
                        /\ Results[k] = ResultOf(record[k], unrecorded[k])
      /\ Holders = [k \in Key |-> Holders[k]] /\ Results = [k \in Key |-> Results[k]]
  BY DEF Holders, Results
<1> QED BY <1>1, <1>2, <1>3, <1>4

\* Nothing is promised of the rest.
LEMMA KeyedStutter ==
  ASSUME UNCHANGED <<record, unrecorded, keyOf, ran, given>>
  PROVE  UNCHANGED Keyed!vars
BY DEF Keyed!vars

LEMMA KeyedDraw ==
  ASSUME IInv, NEW k \in Key, keyOf' = Append(keyOf, k), UNCHANGED <<record, unrecorded, ran, given>>
  PROVE  Keyed!Draw
<1>1. Len(keyOf') = Len(keyOf) + 1
  BY KeyedTypes
<1> QED BY <1>1 DEF Keyed!Draw

\* A record written where there was none is a key held.
LEMMA KeyedHold ==
  ASSUME IInv, NEW k \in Key, record[k] = NoRecord, keyOf' = Append(keyOf, k),
         record' = [record EXCEPT ![k] = Active(Drawn)], UNCHANGED <<unrecorded, ran, given>>
  PROVE  Keyed!Hold(k)
<1>1. Len(keyOf') = Len(keyOf) + 1 /\ Drawn = Len(keyOf) + 1
  BY KeyedTypes DEF Drawn
<1>2. \A j \in Key : record'[j] = IF j = k THEN Active(Drawn) ELSE record[j]
  BY KeyedTypes
<1>3. Holders[k] = 0
  BY KeyedTypes
<1>4. Holders' = [Holders EXCEPT ![k] = Len(keyOf) + 1]
  <2>1. Holders' = [j \in Key |-> record'[j].request]
    BY DEF Holders
  <2>2. Holders' = [j \in Key |-> Holders'[j]]
    BY <2>1
  <2>3. \A j \in Key : Holders'[j] = IF j = k THEN Len(keyOf) + 1 ELSE Holders[j]
    BY <1>1, <1>2, <2>1, KeyedTypes
  <2> QED BY <2>2, <2>3, KeyedTypes, OneChanged
<1>5. Results' = Results
  <2>1. \A j \in Key : (record'[j].state = "completed") <=> (record[j].state = "completed")
    BY <1>2
  <2> QED BY <2>1 DEF Results, ResultOf
<1> QED BY <1>1, <1>3, <1>4, <1>5 DEF Keyed!Hold, Holders, Results, ResultOf

\* The record of a request that waits, taken away, is a key given up.
LEMMA KeyedFree ==
  ASSUME IInv, NEW c \in Caller, pc[c] \in Holding, NEW k \in Key, k = keyOf[mine[c]],
         record' = [record EXCEPT ![k] = NoRecord], UNCHANGED <<unrecorded, keyOf, ran, given>>
  PROVE  Keyed!Free(k)
<1>1. Waiting(mine[c])
  BY DEF IInv, Hands, CallInv, CallOK
<1>2. record[k] = Active(mine[c]) /\ mine[c] \notin ran[k] /\ mine[c] # 0
  BY <1>1, KeyedTypes DEF Waiting
<1>3. ran[k] = {}
  BY <1>2 DEF IInv, Known, KeyInv, KeyOK
<1>4. \A j \in Key : record'[j] = IF j = k THEN NoRecord ELSE record[j]
  BY KeyedTypes
<1>5. Holders[k] # 0
  BY <1>2, KeyedTypes
<1>6. Holders' = [Holders EXCEPT ![k] = 0]
  <2>1. Holders' = [j \in Key |-> record'[j].request]
    BY DEF Holders
  <2>2. Holders' = [j \in Key |-> Holders'[j]]
    BY <2>1
  <2>3. \A j \in Key : Holders'[j] = IF j = k THEN 0 ELSE Holders[j]
    BY <1>4, <2>1, KeyedTypes
  <2> QED BY <2>2, <2>3, KeyedTypes, OneChanged
<1>7. Results' = Results
  <2>1. \A j \in Key : (record'[j].state = "completed") <=> (record[j].state = "completed")
    BY <1>2, <1>4
  <2> QED BY <2>1 DEF Results, ResultOf
<1> QED BY <1>3, <1>5, <1>6, <1>7 DEF Keyed!Free, Holders, Results, ResultOf

\* A job taken is a prompt.
LEMMA KeyedPrompt ==
  ASSUME IInv, NEW w \in Worker, Take(w)
  PROVE  \E k \in Key : Keyed!Prompt(k)
<1>1. Head(queue) = queue[1] /\ 1 \in 1..Len(queue)
  BY DEF Take, Takeable, IInv, TypeOK
<1>2. Waiting(Head(queue))
  BY <1>1 DEF IInv, Hands, QueueInv, QueueOK
<1>3. PICK r \in Nat \ {0}, k \in Key :
        r = Head(queue) /\ k = keyOf[r] /\ record[k] = Active(r) /\ r \notin ran[k]
  <2>1. Head(queue) \in 1..Len(keyOf)
    BY <1>2 DEF Waiting
  <2>2. Head(queue) \in Nat \ {0} /\ keyOf[Head(queue)] \in Key
    BY <2>1, KeyedTypes
  <2> QED BY <1>2, <2>2 DEF Waiting
<1>4. ran' = [ran EXCEPT ![k] = ran[k] \cup {r}] /\ UNCHANGED <<record, unrecorded, keyOf, given>>
  BY <1>3 DEF Take
<1>5. ran[k] = {}
  BY <1>3 DEF IInv, Known, KeyInv, KeyOK
<1>6. Holders[k] = r
  BY <1>3, KeyedTypes
<1>7. ran' = [ran EXCEPT ![k] = {Holders[k]}]
  BY <1>4, <1>5, <1>6
<1>8. Keyed!Prompt(k)
  BY <1>3, <1>4, <1>5, <1>6, <1>7 DEF Keyed!Prompt, Holders
<1> QED BY <1>3, <1>8

\* A result recorded, or kept in memory, or both.
LEMMA KeyedFinish ==
  ASSUME IInv, NEW w \in Worker, Complete(w) \/ CompleteFails(w)
  PROVE  (\E k \in Key, place \in {"memory", "disk"} : Keyed!Finish(k, place)) \/ UNCHANGED Keyed!vars
<1>1. worker[w] = "complete"
  BY DEF Complete, CompleteFails
<1>2. PICK r \in Request, k \in Key :
        r = job[w] /\ k = keyOf[r] /\ record[k].request = r /\ r \in ran[k]
  BY <1>1, JobKnown
<1>3. /\ \/ record' = record
         \/ record[k] = Active(r) /\ record' = [record EXCEPT ![k] = Completed(r)]
      /\ unrecorded' = unrecorded \/ unrecorded' = [unrecorded EXCEPT ![k] = r]
      /\ UNCHANGED <<keyOf, ran, given>>
  BY <1>2 DEF Complete, CompleteFails
<1>4. Holders' = Holders
  <2>1. \A j \in Key : record'[j].request = record[j].request
    BY <1>2, <1>3, KeyedTypes
  <2> QED BY <2>1 DEF Holders
<1>5. PICK where \in {"none", "memory", "disk"} : where = ResultOf(record'[k], unrecorded'[k])
  BY DEF ResultOf
<1>6. Results' = [Results EXCEPT ![k] = where]
  <2>1. Results' = [j \in Key |-> ResultOf(record'[j], unrecorded'[j])]
    BY DEF Results
  <2>2. Results' = [j \in Key |-> Results'[j]]
    BY <2>1
  <2>3. \A j \in Key : j # k => record'[j] = record[j] /\ unrecorded'[j] = unrecorded[j]
    BY <1>2, <1>3, KeyedTypes
  <2>4. \A j \in Key : Results'[j] = IF j = k THEN where ELSE Results[j]
    BY <1>5, <2>1, <2>3, KeyedTypes
  <2> QED BY <1>2, <2>2, <2>4, KeyedTypes, OneChanged
<1>7. Results[k] = "disk" => where = "disk"
  BY <1>2, <1>3, <1>5, KeyedTypes DEF ResultOf
<1>8. where = "none" => Results[k] = "none"
  BY <1>2, <1>3, <1>5, KeyedTypes DEF ResultOf
<1>9. CASE Results[k] # "disk" /\ where # "none"
  <2>1. ran[k] # {} /\ where \in {"memory", "disk"}
    BY <1>2, <1>5, <1>9
  <2>2. Keyed!Finish(k, where)
    BY <1>3, <1>4, <1>6, <1>9, <2>1 DEF Keyed!Finish, Holders, Results, ResultOf
  <2> QED BY <1>2, <2>1, <2>2
<1>10. CASE ~(Results[k] # "disk" /\ where # "none")
  <2>1. Results' = Results
    BY <1>6, <1>7, <1>8, <1>10, KeyedTypes
  <2> QED BY <1>3, <1>4, <2>1, KeyedIs
<1> QED BY <1>9, <1>10

\* A retry's answer is the result of the key's own request.
LEMMA KeyedGive ==
  ASSUME IInv, NEW k \in Key, ResultOf(record[k], unrecorded[k]) # "none",
         given' = [given EXCEPT ![k] = given[k] \cup {record[k].request}],
         Len(keyOf') = Len(keyOf) \/ Len(keyOf') = Len(keyOf) + 1,
         UNCHANGED <<record, unrecorded, ran>>
  PROVE  Keyed!Give(k)
<1>1. Holders[k] = record[k].request /\ Results[k] # "none"
  BY KeyedTypes
<1> QED BY <1>1 DEF Keyed!Give, Holders, Results, ResultOf

LEMMA KeyedLookup ==
  ASSUME IInv, NEW c \in Caller, Lookup(c)
  PROVE  (\E k \in Key : Keyed!Give(k)) \/ UNCHANGED Keyed!vars
<1>1. mine[c] \in 1..Len(keyOf)
  BY DEF Lookup, IInv, Hands, CallInv, CallOK
<1>2. PICK k \in Key : k = keyOf[mine[c]]
  BY <1>1, KeyedTypes
<1>3. /\ given' = [given EXCEPT ![k] = given[k] \cup ({unrecorded[k]} \ {0})]
      /\ UNCHANGED <<record, unrecorded, keyOf, ran>>
  BY <1>2 DEF Lookup
<1>4. CASE unrecorded[k] = 0
  <2>1. given' = given
    BY <1>2, <1>3, <1>4, KeyedTypes
  <2> QED BY <1>3, <2>1, KeyedStutter
<1>5. CASE unrecorded[k] # 0
  <2>1. record[k].request = unrecorded[k]
    BY <1>2, <1>5 DEF IInv, Known, KeyInv, KeyOK
  <2>2. given' = [given EXCEPT ![k] = given[k] \cup {record[k].request}]
    BY <1>3, <1>5, <2>1
  <2>3. ResultOf(record[k], unrecorded[k]) # "none"
    BY <1>5 DEF ResultOf
  <2> QED BY <1>2, <1>3, <2>2, <2>3, KeyedGive
<1> QED BY <1>4, <1>5

\* A daemon that stops loses what is only in its memory.
LEMMA KeyedStop ==
  ASSUME IInv, Restart
  PROVE  Keyed!Stop
<1>1. /\ unrecorded' = [k \in Key |-> 0] /\ UNCHANGED <<record, keyOf, ran, given>>
  BY DEF Restart
<1>2. Results' = [k \in Key |-> IF Results[k] = "memory" THEN "none" ELSE Results[k]]
  <2>1. Results' = [k \in Key |-> ResultOf(record[k], 0)]
    BY <1>1 DEF Results
  <2>2. \A k \in Key : ResultOf(record[k], 0) = IF Results[k] = "memory" THEN "none" ELSE Results[k]
    BY KeyedTypes DEF ResultOf
  <2> QED BY <2>1, <2>2
<1>3. Holders' = Holders
  BY <1>1 DEF Holders
<1> QED BY <1>1, <1>2, <1>3 DEF Keyed!Stop, Holders, Results, ResultOf

LEMMA StepKeepsPromise ==
  ASSUME IInv, [Next]_vars
  PROVE  [Keyed!Next]_Keyed!vars
<1>1. ASSUME NEW c \in Caller, Begin(c) PROVE [Keyed!Next]_Keyed!vars
  <2> PICK k \in Key : \/ BeginStart(c, k) \/ BeginUnwritten(c, k) \/ BeginUnreadable(c, k)
                       \/ BeginReattach(c, k) \/ BeginCompleted(c, k)
    BY <1>1 DEF Begin
  <2>1. CASE BeginStart(c, k)
    <3>1. Keyed!Hold(k)
      BY <2>1, KeyedHold DEF BeginStart
    <3> QED BY <3>1 DEF Keyed!Next
  <2>2. CASE BeginUnwritten(c, k)
    <3>1. Keyed!Hold(k) \/ Keyed!Draw
      BY <2>2, KeyedHold, KeyedDraw DEF BeginUnwritten
    <3> QED BY <3>1 DEF Keyed!Next
  <2>3. CASE BeginUnreadable(c, k) \/ BeginReattach(c, k)
    <3>1. Keyed!Draw
      BY <2>3, KeyedDraw DEF BeginUnreadable, BeginReattach
    <3> QED BY <3>1 DEF Keyed!Next
  <2>4. CASE BeginCompleted(c, k)
    <3>1. Len(keyOf') = Len(keyOf) + 1
      BY <2>4, KeyedTypes DEF BeginCompleted
    <3>2. ResultOf(record[k], unrecorded[k]) # "none"
      BY <2>4 DEF BeginCompleted, ResultOf
    <3>3. Keyed!Give(k)
      BY <2>4, <3>1, <3>2, KeyedGive DEF BeginCompleted
    <3> QED BY <3>3 DEF Keyed!Next
  <2> QED BY <2>1, <2>2, <2>3, <2>4
<1>2. ASSUME NEW c \in Caller, Proceed(c) PROVE [Keyed!Next]_Keyed!vars
  <2>1. CASE Abandon(c) \/ AbandonFails(c)
    <3>1. pc[c] = "abandon" /\ mine[c] \in 1..Len(keyOf)
      BY <2>1 DEF Abandon, AbandonFails, IInv, Hands, CallInv, CallOK
    <3>2. PICK k \in Key : k = keyOf[mine[c]]
      BY <3>1, KeyedTypes
    <3>3. /\ record' = [record EXCEPT ![k] = NoRecord] \/ record' = record
          /\ UNCHANGED <<unrecorded, keyOf, ran, given>>
      BY <2>1, <3>2 DEF Abandon, AbandonFails
    <3>4. CASE record' = [record EXCEPT ![k] = NoRecord]
      <4>1. Keyed!Free(k)
        BY <3>1, <3>2, <3>3, <3>4, KeyedFree
      <4> QED BY <4>1 DEF Keyed!Next
    <3>5. CASE record' = record
      BY <3>3, <3>5, KeyedStutter
    <3> QED BY <3>3, <3>4, <3>5
  <2>2. CASE Lookup(c)
    BY <2>2, KeyedLookup DEF Keyed!Next
  <2>3. CASE ~(Abandon(c) \/ AbandonFails(c) \/ Lookup(c))
    <3>1. UNCHANGED <<record, unrecorded, keyOf, ran, given>>
      BY <1>2, <2>3 DEF Proceed, Reserve, OverQuota, Ready, NotReady, CloneSender,
         SenderGone, Send, SendRefused, NotTaken, Pass
    <3> QED BY <3>1, KeyedStutter
  <2> QED BY <2>1, <2>2, <2>3
<1>3. ASSUME NEW w \in Worker, Run(w) PROVE [Keyed!Next]_Keyed!vars
  <2>1. CASE Take(w)
    BY <2>1, KeyedPrompt DEF Keyed!Next
  <2>2. CASE Complete(w) \/ CompleteFails(w)
    BY <2>2, KeyedFinish DEF Keyed!Next
  <2>3. CASE ~(Take(w) \/ Complete(w) \/ CompleteFails(w))
    <3>1. UNCHANGED <<record, unrecorded, keyOf, ran, given>>
      BY <1>3, <2>3 DEF Run, PromptEnds, EmitError, JoinForwarder, Release, Pop, Exit
    <3> QED BY <3>1, KeyedStutter
  <2> QED BY <2>1, <2>2, <2>3
<1>4. ASSUME NEW w \in Worker, Forwarding(w) \/ Publish(w) \/ Panic(w) PROVE [Keyed!Next]_Keyed!vars
  BY <1>4, KeyedStutter DEF Forwarding, Forward, ForwardEnd, Publish, Panic
<1>5. CASE DrainStarts \/ DrainProceeds
  BY <1>5, KeyedStutter DEF DrainStarts, DrainProceeds, DrainWaits, DrainTakesSender, DrainJoins, DrainKeeps
<1>6. CASE Restart
  BY <1>6, KeyedStop DEF Keyed!Next
<1>7. CASE UNCHANGED vars
  BY <1>7, KeyedStutter DEF vars
<1> QED BY <1>1, <1>2, <1>3, <1>4, <1>5, <1>6, <1>7 DEF Next

LEMMA InitKeepsPromise == Init => Keyed!Init
<1> SUFFICES ASSUME Init PROVE Keyed!Init
  OBVIOUS
<1>1. Len(keyOf) = 0 /\ Holders = [k \in Key |-> 0] /\ Results = [k \in Key |-> "none"]
  BY DEF Init, Holders, Results, ResultOf
<1> QED BY <1>1 DEF Init, Keyed!Init, Holders, Results, ResultOf

\* The service implements KeyedPrompts: no retry, refusal, failed write, panic, drain or
\* restart shows a caller anything of a key the promise does not allow.
THEOREM RpcKeepsPromise == Spec => KeyedSpec
<1>1. Spec => Keyed!Init /\ [][Keyed!Next]_Keyed!vars
  BY InitKeepsPromise, StepKeepsPromise, RpcInv, PTL DEF Spec
<1> QED BY <1>1 DEF KeyedSpec, Keyed!Spec
=============================================================================
