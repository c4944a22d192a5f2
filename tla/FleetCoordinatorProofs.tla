----------------------- MODULE FleetCoordinatorProofs -----------------------
(***************************************************************************)
(* Proofs about FleetCoordinator, for every finite set of jobs, every set  *)
(* of workers and descriptors, and every bound.                            *)
(***************************************************************************)
EXTENDS FleetCoordinator, FiniteSetTheorems, SequenceTheorems, TLAPS

\* What is known of a job: its attempts are numbered like their tokens, the
\* superseded ones failed, its lease is the latest attempt's, its outcome is
\* the latest attempt's, and it waits only when no one asked it to stop.
JobInv(j) ==
  /\ next_fencing_token[j] = Len(attempts[j]) + 1
  /\ \A n \in 1..Len(attempts[j]) :
       /\ attempts[j][n].fencing_token = n
       /\ n < Len(attempts[j]) \/ phase[j] = "Pending" => attempts[j][n].phase = "Failed"
  /\ phase[j] \in Leased <=> lease[j] # NoLease
  /\ lease[j] # NoLease =>
       /\ lease[j].attempt = Len(attempts[j])
       /\ lease[j].worker_id = attempts[j][Len(attempts[j])].worker_id
       /\ lease[j].fencing_token = Len(attempts[j])
       /\ Len(attempts[j]) # 0
  /\ outcome[j] # 0 <=> phase[j] = "Succeeded"
  /\ outcome[j] # 0 => outcome[j] = Len(attempts[j])
  /\ phase[j] = NotSubmitted => Len(attempts[j]) = 0
  /\ phase[j] \in {NotSubmitted, "Pending"} => ~cancel_requested[j]
  /\ phase[j] \in {"Cancelling", "Cancelled"} => cancel_requested[j]

IInv == TypeOK /\ (\A j \in Job : JobInv(j)) /\ RunningIsHeld

-----------------------------------------------------------------------------
(* Sequences and finite sets. *)

\* Rewriting the phase of the latest attempt keeps every attempt's worker and
\* token, and the attempts before it.
LEMMA LatestRewritten ==
  ASSUME NEW s \in Seq(Attempt), Len(s) # 0, NEW p \in AttemptPhase, NEW t,
         t = [s EXCEPT ![Len(s)].phase = p]
  PROVE  /\ t \in Seq(Attempt)
         /\ Len(t) = Len(s)
         /\ \A n \in 1..Len(s) :
              /\ t[n].worker_id = s[n].worker_id
              /\ t[n].fencing_token = s[n].fencing_token
              /\ n < Len(s) => t[n] = s[n]
         /\ t[Len(s)].phase = p
<1> DEFINE e == [s[Len(s)] EXCEPT !.phase = p]
<1>1. Len(s) \in 1..Len(s)
  BY LenProperties
<1>2. s[Len(s)] \in Attempt
  BY <1>1, ElementOfSeq
<1>3. e \in Attempt /\ e.worker_id = s[Len(s)].worker_id
        /\ e.fencing_token = s[Len(s)].fencing_token /\ e.phase = p
  BY <1>2 DEF Attempt
<1>4. t = [s EXCEPT ![Len(s)] = e]
  OBVIOUS
<1> HIDE DEF e
<1>5. /\ t \in Seq(Attempt) /\ Len(t) = Len(s)
      /\ \A n \in 1..Len(s) : t[n] = IF n = Len(s) THEN e ELSE s[n]
  BY <1>1, <1>3, <1>4, ExceptSeq
<1>6. QED
  BY <1>1, <1>3, <1>5

\* Appending keeps what was there.
LEMMA Appended ==
  ASSUME NEW s \in Seq(Attempt), NEW e \in Attempt
  PROVE  /\ Append(s, e) \in Seq(Attempt)
         /\ Len(Append(s, e)) = Len(s) + 1
         /\ \A n \in 1..Len(s) : Append(s, e)[n] = s[n]
         /\ Append(s, e)[Len(s) + 1] = e
OBVIOUS

\* Taking a finite subset away leaves as many elements fewer.
LEMMA TakenAway ==
  ASSUME NEW S, NEW T \in SUBSET S, IsFiniteSet(S)
  PROVE  /\ Cardinality(S \ T) \in Nat /\ Cardinality(T) \in Nat /\ Cardinality(S) \in Nat
         /\ Cardinality(S) = Cardinality(S \ T) + Cardinality(T)
<1>1. IsFiniteSet(T) /\ IsFiniteSet(S \ T)
  BY FS_Subset
<1>2. (S \ T) \cup T = S /\ (S \ T) \cap T = {}
  OBVIOUS
<1>3. Cardinality(S) = Cardinality(S \ T) + Cardinality(T) - Cardinality({})
  BY <1>1, <1>2, FS_Union
<1>4. QED
  BY <1>1, <1>3, FS_EmptySet, FS_CardinalityType

-----------------------------------------------------------------------------
(* What a step leaves alone. *)

\* A job none of whose variables change keeps its invariant.
LEMMA Untouched ==
  ASSUME NEW k \in Job, JobInv(k),
         phase'[k] = phase[k], attempts'[k] = attempts[k], lease'[k] = lease[k],
         outcome'[k] = outcome[k], next_fencing_token'[k] = next_fencing_token[k],
         cancel_requested'[k] = cancel_requested[k]
  PROVE  JobInv(k)'
BY DEF JobInv

LEMMA HeldFinite ==
  ASSUME NEW w
  PROVE  IsFiniteSet(Held(w)) /\ Cardinality(Held(w)) \in Nat
<1>1. Held(w) \in SUBSET Job
  BY DEF Held
<1>2. QED
  BY <1>1, SetAssumption, FS_Subset, FS_CardinalityType

\* The counters stay right when no job changes hands.
LEMMA SameHands ==
  ASSUME RunningIsHeld, running' = running, \A w \in Worker : Held(w)' = Held(w)
  PROVE  RunningIsHeld'
BY DEF RunningIsHeld

\* They stay right when one job leaves the worker that held it ...
LEMMA OneHandLess ==
  ASSUME TypeOK, RunningIsHeld, NEW j \in Job, NEW u \in Worker, j \in Held(u), OneLess(u),
         Held(u)' = Held(u) \ {j},
         \A w \in Worker \ {u} : Held(w)' = Held(w)
  PROVE  RunningIsHeld'
<1>1. Cardinality(Held(u) \ {j}) = Cardinality(Held(u)) - 1
  BY HeldFinite, FS_RemoveElement
<1>2. Cardinality(Held(u)) # 0
  BY HeldFinite, FS_EmptySet
<1>3. running'[u] = Cardinality(Held(u)')
  BY <1>1, <1>2, HeldFinite DEF OneLess, RunningIsHeld, TypeOK
<1>4. QED
  BY <1>3 DEF OneLess, RunningIsHeld, TypeOK

\* ... and when one job comes to a worker.
LEMMA OneHandMore ==
  ASSUME TypeOK, RunningIsHeld, NEW j \in Job, NEW u \in Worker, j \notin Held(u),
         running' = [running EXCEPT ![u] = @ + 1],
         Held(u)' = Held(u) \cup {j},
         \A w \in Worker \ {u} : Held(w)' = Held(w)
  PROVE  RunningIsHeld'
<1>1. Cardinality(Held(u) \cup {j}) = Cardinality(Held(u)) + 1
  BY HeldFinite, FS_AddElement
<1>2. QED
  BY <1>1 DEF RunningIsHeld, TypeOK

-----------------------------------------------------------------------------
(* The first state. *)

LEMMA InitInv == Init => IInv
<1> SUFFICES ASSUME Init PROVE IInv
  OBVIOUS
<1>1. TypeOK
  BY BoundAssumption DEF Init, TypeOK, FirstEpoch, NotSubmitted, JobPhase
<1>2. ASSUME NEW j \in Job PROVE JobInv(j)
  BY DEF Init, JobInv, Leased, NotSubmitted
<1>3. RunningIsHeld
  <2>1. ASSUME NEW w \in Worker PROVE Held(w) = {}
    BY DEF Init, Held
  <2>2. QED
    BY <2>1, FS_EmptySet DEF Init, RunningIsHeld
<1>4. QED
  BY <1>1, <1>2, <1>3 DEF IInv

-----------------------------------------------------------------------------
(* The steps. *)

USE DEF NotSubmitted, Leased, Terminal, JobPhase, AttemptPhase

LEMMA OpenInv == IInv /\ Open => IInv'
<1> SUFFICES ASSUME IInv, Open PROVE IInv'
  OBVIOUS
<1> USE DEF IInv, Open, workerVars
<1>1. TypeOK'
  BY DEF TypeOK
<1>2. ASSUME NEW k \in Job PROVE JobInv(k)'
  BY Untouched
<1>3. RunningIsHeld'
  BY SameHands DEF Held
<1>4. QED
  BY <1>1, <1>2, <1>3

LEMMA RegisterInv ==
  ASSUME IInv, NEW w \in Worker, NEW inc \in 1..MaxIncarnation, NEW desc \in Descriptor,
         RegisterWorker(w, inc, desc)
  PROVE  IInv'
<1> USE DEF IInv, RegisterWorker
<1>1. TypeOK'
  <2>1. inc \in 0..MaxIncarnation /\ Cardinality(Held(w)) \in Nat
    BY HeldFinite, BoundAssumption
  <2>2. QED
    BY <2>1 DEF TypeOK
<1>2. ASSUME NEW k \in Job PROVE JobInv(k)'
  BY Untouched
<1>3. RunningIsHeld'
  <2>1. ASSUME NEW v \in Worker PROVE Held(v)' = Held(v)
    BY DEF Held
  <2>2. QED
    BY <2>1 DEF RunningIsHeld, TypeOK
<1>4. QED
  BY <1>1, <1>2, <1>3

LEMMA SubmitInv ==
  ASSUME IInv, NEW j \in Job, Submit(j)
  PROVE  IInv'
<1> USE DEF IInv, Submit, workerVars
<1>1. TypeOK'
  BY DEF TypeOK
<1>2. ASSUME NEW k \in Job \ {j} PROVE JobInv(k)'
  BY Untouched DEF TypeOK
<1>3. JobInv(j)'
  <2>1. /\ phase'[j] = "Pending"
        /\ attempts'[j] = attempts[j] /\ lease'[j] = lease[j] /\ outcome'[j] = outcome[j]
        /\ next_fencing_token'[j] = next_fencing_token[j]
        /\ cancel_requested'[j] = cancel_requested[j]
    BY DEF TypeOK
  <2>2. JobInv(j) /\ attempts[j] \in Seq(Attempt)
    BY DEF TypeOK
  <2>3. QED
    BY <2>1, <2>2 DEF JobInv
<1>4. RunningIsHeld'
  <2>1. \A k \in Job : (phase'[k] \in Terminal <=> phase[k] \in Terminal) \/ lease[k] = NoLease
    BY DEF TypeOK, JobInv
  <2>2. ASSUME NEW w \in Worker PROVE Held(w)' = Held(w)
    BY <2>1 DEF Held
  <2>3. QED
    BY <2>2, SameHands
<1>5. QED
  BY <1>1, <1>2, <1>3, <1>4

LEMMA PlaceInv ==
  ASSUME IInv, NEW j \in Job, Place(j)
  PROVE  IInv'
<1> USE DEF IInv, Place, workerVars
<1>1. TypeOK'
  BY DEF TypeOK
<1>2. ASSUME NEW k \in Job PROVE JobInv(k)'
  BY Untouched
<1>3. RunningIsHeld'
  BY SameHands DEF Held
<1>4. QED
  BY <1>1, <1>2, <1>3

LEMMA CancelInv ==
  ASSUME IInv, NEW j \in Job, Cancel(j)
  PROVE  IInv'
<1> USE DEF IInv, Cancel, Cancellable, workerVars
<1>1. TypeOK'
  BY DEF TypeOK
<1>2. ASSUME NEW k \in Job \ {j} PROVE JobInv(k)'
  BY Untouched DEF TypeOK
<1>3. JobInv(j)'
  <2>1. /\ phase'[j] = IF phase[j] = "Pending" THEN "Cancelled" ELSE "Cancelling"
        /\ attempts'[j] = attempts[j] /\ lease'[j] = lease[j] /\ outcome'[j] = outcome[j]
        /\ next_fencing_token'[j] = next_fencing_token[j]
        /\ cancel_requested'[j] = TRUE
    BY DEF TypeOK
  <2>2. JobInv(j) /\ phase[j] \in {"Pending"} \cup Leased
    BY DEF TypeOK
  <2>3. QED
    BY <2>1, <2>2 DEF JobInv
<1>4. RunningIsHeld'
  <2>1. \A k \in Job : (phase'[k] \in Terminal <=> phase[k] \in Terminal) \/ lease[k] = NoLease
    BY DEF TypeOK, JobInv
  <2>2. ASSUME NEW w \in Worker PROVE Held(w)' = Held(w)
    BY <2>1 DEF Held
  <2>3. QED
    BY <2>2, SameHands
<1>5. QED
  BY <1>1, <1>2, <1>3, <1>4

LEMMA AssignInv ==
  ASSUME IInv, NEW j \in Job, NEW w \in Worker, NEW now \in Time, Assign(j, w, now)
  PROVE  IInv'
<1> DEFINE f == next_fencing_token[j]
<1> DEFINE a == [worker_id |-> w, fencing_token |-> f, phase |-> "Offered"]
<1> DEFINE l == [attempt |-> Len(attempts[j]) + 1, worker_id |-> w, fencing_token |-> f,
                 expires_at |-> now + LeaseMs]
<1>1. TypeOK /\ JobInv(j) /\ RunningIsHeld /\ phase[j] = "Pending" /\ lease[j] = NoLease
  BY DEF IInv, Assign, Offerable
<1>2. attempts[j] \in Seq(Attempt) /\ Len(attempts[j]) \in Nat /\ f = Len(attempts[j]) + 1
  BY <1>1 DEF TypeOK, JobInv
<1>3. a \in Attempt /\ a.worker_id = w /\ a.fencing_token = f
  BY <1>2 DEF Attempt
<1>4. /\ l \in Lease /\ l.attempt = Len(attempts[j]) + 1 /\ l.worker_id = w
      /\ l.fencing_token = f /\ l # NoLease
  BY <1>2, TimeAssumption DEF Lease, NoLease
<1>5. /\ attempts' = [attempts EXCEPT ![j] = Append(attempts[j], a)]
      /\ lease' = [lease EXCEPT ![j] = l]
      /\ next_fencing_token' = [next_fencing_token EXCEPT ![j] = f + 1]
      /\ phase' = [phase EXCEPT ![j] = "Assigned"]
      /\ running' = [running EXCEPT ![w] = @ + 1]
      /\ UNCHANGED <<epoch, incarnation, descriptor, outcome, events, cancel_requested, decisions>>
  BY DEF Assign, NextFence
<1>6. /\ Append(attempts[j], a) \in Seq(Attempt)
      /\ Len(Append(attempts[j], a)) = Len(attempts[j]) + 1
      /\ \A n \in 1..Len(attempts[j]) : Append(attempts[j], a)[n] = attempts[j][n]
      /\ Append(attempts[j], a)[Len(attempts[j]) + 1] = a
  BY <1>2, <1>3, Appended
<1> HIDE DEF a, l
<1>7. TypeOK'
  BY <1>1, <1>2, <1>4, <1>5, <1>6 DEF TypeOK
<1>8. ASSUME NEW k \in Job \ {j} PROVE JobInv(k)'
  BY <1>1, <1>5, Untouched DEF TypeOK, IInv
<1>9. JobInv(j)'
  <2>1. /\ phase'[j] = "Assigned" /\ lease'[j] = l /\ outcome'[j] = outcome[j]
        /\ attempts'[j] = Append(attempts[j], a) /\ next_fencing_token'[j] = f + 1
        /\ cancel_requested'[j] = cancel_requested[j]
    BY <1>1, <1>5 DEF TypeOK
  <2>2. ASSUME NEW n \in 1..Len(attempts'[j])
        PROVE  /\ attempts'[j][n].fencing_token = n
               /\ n < Len(attempts'[j]) => attempts'[j][n].phase = "Failed"
    <3>1. CASE n \in 1..Len(attempts[j])
      BY <1>1, <1>6, <2>1, <3>1 DEF JobInv
    <3>2. CASE n = Len(attempts[j]) + 1
      BY <1>2, <1>3, <1>6, <2>1, <3>2
    <3>3. QED
      BY <1>2, <1>6, <2>1, <3>1, <3>2
  <2>3. QED
    BY <1>1, <1>2, <1>3, <1>4, <1>6, <2>1, <2>2 DEF JobInv
<1>10. RunningIsHeld'
  <2>1. j \notin Held(w) /\ Held(w)' = Held(w) \cup {j}
    BY <1>1, <1>4, <1>5 DEF Held, TypeOK
  <2>2. \A v \in Worker \ {w} : Held(v)' = Held(v)
    BY <1>1, <1>4, <1>5 DEF Held, TypeOK
  <2>3. QED
    BY <1>1, <1>5, <2>1, <2>2, OneHandMore
<1>11. QED
  BY <1>7, <1>8, <1>9, <1>10 DEF IInv

-----------------------------------------------------------------------------
(* What workers report. *)

\* The attempt that holds the lease is the latest, and its job is held.
LEMMA HolderIsLatest ==
  ASSUME IInv, NEW j \in Job, NEW n \in DOMAIN attempts[j], HoldsLease(j, n)
  PROVE  /\ TypeOK /\ JobInv(j) /\ RunningIsHeld
         /\ attempts[j] \in Seq(Attempt) /\ n = Len(attempts[j]) /\ n # 0
         /\ lease[j] \in Lease /\ lease[j] # NoLease
         /\ phase[j] \in Leased
         /\ attempts[j][n].worker_id = lease[j].worker_id
         /\ lease[j].worker_id \in Worker
         /\ j \in Held(lease[j].worker_id)
<1>1. TypeOK /\ JobInv(j) /\ RunningIsHeld
  BY DEF IInv
<1>2. /\ attempts[j] \in Seq(Attempt) /\ lease[j] \in Lease /\ lease[j] # NoLease
  BY <1>1 DEF TypeOK, HoldsLease
<1>3. n = Len(attempts[j]) /\ n # 0 /\ phase[j] \in Leased
  BY <1>1, <1>2 DEF JobInv, HoldsLease
<1>4. attempts[j][n].worker_id = lease[j].worker_id /\ lease[j].worker_id \in Worker
  BY <1>2 DEF HoldsLease, Lease
<1>5. j \in Held(lease[j].worker_id)
  BY <1>2, <1>3 DEF Held
<1>6. QED
  BY <1>1, <1>2, <1>3, <1>4, <1>5

\* Its new phase in the attempts.
LEMMA LatestPhaseSet ==
  ASSUME IInv, NEW j \in Job, Len(attempts[j]) # 0, NEW p \in AttemptPhase,
         SetAttemptPhase(j, p)
  PROVE  /\ attempts' \in [Job -> Seq(Attempt)]
         /\ \A k \in Job \ {j} : attempts'[k] = attempts[k]
         /\ Len(attempts'[j]) = Len(attempts[j])
         /\ \A n \in 1..Len(attempts[j]) :
              /\ attempts'[j][n].worker_id = attempts[j][n].worker_id
              /\ attempts'[j][n].fencing_token = attempts[j][n].fencing_token
              /\ n < Len(attempts[j]) => attempts'[j][n] = attempts[j][n]
         /\ attempts'[j][Len(attempts[j])].phase = p
<1>1. attempts \in [Job -> Seq(Attempt)]
  BY DEF IInv, TypeOK
<1>2. /\ attempts' = [attempts EXCEPT ![j] = attempts'[j]]
      /\ attempts'[j] = [attempts[j] EXCEPT ![Len(attempts[j])].phase = p]
  BY <1>1 DEF SetAttemptPhase
<1>3. attempts[j] \in Seq(Attempt)
  BY <1>1
<1> DEFINE t == attempts'[j]
<1>4. t = [attempts[j] EXCEPT ![Len(attempts[j])].phase = p]
  BY <1>2
<1>5. attempts' = [attempts EXCEPT ![j] = t]
  BY <1>2
<1> HIDE DEF t, AttemptPhase
<1>6. /\ t \in Seq(Attempt)
      /\ Len(t) = Len(attempts[j])
      /\ \A n \in 1..Len(attempts[j]) :
           /\ t[n].worker_id = attempts[j][n].worker_id
           /\ t[n].fencing_token = attempts[j][n].fencing_token
           /\ n < Len(attempts[j]) => t[n] = attempts[j][n]
      /\ t[Len(attempts[j])].phase = p
  BY <1>3, <1>4, LatestRewritten
<1>7. t \in Seq(Attempt)
  BY <1>6
<1>8. attempts' \in [Job -> Seq(Attempt)]
  BY <1>1, <1>5, <1>7
<1>9. attempts'[j] = t /\ \A k \in Job \ {j} : attempts'[k] = attempts[k]
  BY <1>1, <1>5
<1>10. QED
  BY <1>6, <1>8, <1>9

\* A step that keeps a job's attempts but for the latest one's phase.
SameAttempts(j) ==
  /\ Len(attempts'[j]) = Len(attempts[j])
  /\ \A n \in 1..Len(attempts[j]) :
       /\ attempts'[j][n].worker_id = attempts[j][n].worker_id
       /\ attempts'[j][n].fencing_token = attempts[j][n].fencing_token
       /\ n < Len(attempts[j]) => attempts'[j][n] = attempts[j][n]
  /\ next_fencing_token'[j] = next_fencing_token[j]
  /\ cancel_requested'[j] = cancel_requested[j]

\* A held job keeps its invariant when it stays held under the same lease,
\* when it ends, and when it goes back to waiting.
LEMMA HeldJobKept ==
  ASSUME TypeOK, NEW j \in Job, JobInv(j), phase[j] \in Leased, SameAttempts(j),
         \/ /\ phase'[j] \in Leased
            /\ phase'[j] = "Cancelling" => phase[j] = "Cancelling"
            /\ lease'[j] # NoLease /\ lease'[j].attempt = lease[j].attempt
            /\ lease'[j].worker_id = lease[j].worker_id
            /\ lease'[j].fencing_token = lease[j].fencing_token
            /\ outcome'[j] = outcome[j]
         \/ /\ phase'[j] \in Terminal /\ lease'[j] = NoLease
            /\ phase'[j] = "Cancelled" => cancel_requested[j]
            /\ outcome'[j] = IF phase'[j] = "Succeeded" THEN Len(attempts[j]) ELSE outcome[j]
         \/ /\ phase'[j] = "Pending" /\ lease'[j] = NoLease /\ ~cancel_requested[j]
            /\ attempts'[j][Len(attempts[j])].phase = "Failed"
            /\ outcome'[j] = outcome[j]
  PROVE  JobInv(j)'
<1>1. /\ Len(attempts[j]) \in Nat /\ Len(attempts[j]) # 0
      /\ lease[j] # NoLease /\ outcome[j] = 0
  BY DEF TypeOK, JobInv
<1>2. /\ Len(attempts'[j]) = Len(attempts[j])
      /\ Len(attempts[j]) \in 1..Len(attempts[j])
      /\ next_fencing_token'[j] = Len(attempts'[j]) + 1
      /\ \A n \in 1..Len(attempts[j]) :
           /\ attempts'[j][n].fencing_token = n
           /\ n < Len(attempts[j]) => attempts'[j][n].phase = "Failed"
      /\ attempts'[j][Len(attempts[j])].worker_id = attempts[j][Len(attempts[j])].worker_id
  BY <1>1 DEF SameAttempts, JobInv
<1>3. /\ lease[j].attempt = Len(attempts[j])
      /\ lease[j].worker_id = attempts[j][Len(attempts[j])].worker_id
      /\ lease[j].fencing_token = Len(attempts[j])
      /\ cancel_requested'[j] = cancel_requested[j]
      /\ phase[j] = "Cancelling" => cancel_requested[j]
  BY <1>1 DEF SameAttempts, JobInv
<1> DEFINE L == Len(attempts[j])
<1>4. \A n \in 1..L : n < L \/ phase'[j] = "Pending" => attempts'[j][n].phase = "Failed"
  <2>1. phase'[j] = "Pending" => attempts'[j][L].phase = "Failed"
    OBVIOUS
  <2>2. \A n \in 1..L : n < L \/ n = L
    BY <1>1
  <2>3. QED
    BY <1>2, <2>1, <2>2
<1>5. /\ phase'[j] \in Leased <=> lease'[j] # NoLease
      /\ lease'[j] # NoLease =>
           /\ lease'[j].attempt = L
           /\ lease'[j].worker_id = attempts'[j][L].worker_id
           /\ lease'[j].fencing_token = L
  BY <1>2, <1>3
<1>6. /\ outcome'[j] # 0 <=> phase'[j] = "Succeeded"
      /\ outcome'[j] # 0 => outcome'[j] = L
  BY <1>1
<1>7. /\ phase'[j] # NotSubmitted
      /\ phase'[j] = "Pending" => ~cancel_requested'[j]
      /\ phase'[j] \in {"Cancelling", "Cancelled"} => cancel_requested'[j]
  BY <1>3
<1>8. QED
  BY <1>1, <1>2, <1>4, <1>5, <1>6, <1>7 DEF JobInv

\* An extended lease differs from the lease by its expiry alone.
LEMMA LeaseExtended ==
  ASSUME TypeOK, NEW j \in Job, lease[j] \in Lease, NEW now \in Time, Extended(j, now)
  PROVE  /\ lease' \in [Job -> Lease \cup {NoLease}]
         /\ \A k \in Job \ {j} : lease'[k] = lease[k]
         /\ lease'[j] # NoLease /\ lease'[j].attempt = lease[j].attempt
         /\ lease'[j].worker_id = lease[j].worker_id
         /\ lease'[j].fencing_token = lease[j].fencing_token
<1> DEFINE l == [lease[j] EXCEPT !.expires_at = now + LeaseMs]
<1>1. /\ l \in Lease /\ l # NoLease /\ l.attempt = lease[j].attempt
      /\ l.worker_id = lease[j].worker_id /\ l.fencing_token = lease[j].fencing_token
  BY TimeAssumption DEF Lease, NoLease
<1>2. lease' = [lease EXCEPT ![j] = l]
  BY DEF Extended
<1> HIDE DEF l
<1>3. lease \in [Job -> Lease \cup {NoLease}]
  BY DEF TypeOK
<1>4. QED
  BY <1>1, <1>2, <1>3

LEMMA AcknowledgeInv ==
  ASSUME IInv, NEW j \in Job, NEW n \in DOMAIN attempts[j], NEW now \in Time,
         Acknowledge(j, n, now)
  PROVE  IInv'
<1> USE DEF workerVars
<1>1. /\ TypeOK /\ JobInv(j) /\ RunningIsHeld /\ attempts[j] \in Seq(Attempt)
      /\ n = Len(attempts[j]) /\ n # 0 /\ lease[j] # NoLease /\ phase[j] \in Leased
  BY HolderIsLatest DEF Acknowledge, HoldsLiveLease
<1>2. /\ attempts' \in [Job -> Seq(Attempt)]
      /\ \A k \in Job \ {j} : attempts'[k] = attempts[k]
      /\ SameAttempts(j)
  BY <1>1, LatestPhaseSet DEF Acknowledge, SameAttempts
<1>3. TypeOK'
  BY <1>1, <1>2 DEF Acknowledge, TypeOK
<1>4. ASSUME NEW k \in Job \ {j} PROVE JobInv(k)'
  BY <1>1, <1>2, Untouched DEF Acknowledge, TypeOK, IInv
<1>5. JobInv(j)'
  <2>1. phase'[j] = "Running" /\ lease'[j] = lease[j] /\ outcome'[j] = outcome[j]
    BY <1>1 DEF Acknowledge, TypeOK
  <2>2. QED
    BY <1>1, <1>2, <2>1, HeldJobKept
<1>6. RunningIsHeld'
  <2>1. \A k \in Job : phase'[k] \in Terminal <=> phase[k] \in Terminal
    BY <1>1 DEF Acknowledge, TypeOK
  <2>2. ASSUME NEW w \in Worker PROVE Held(w)' = Held(w)
    BY <2>1 DEF Held, Acknowledge
  <2>3. QED
    BY <1>1, <2>2, SameHands DEF Acknowledge
<1>7. QED
  BY <1>3, <1>4, <1>5, <1>6 DEF IInv

LEMMA ExtendInv ==
  ASSUME IInv, NEW j \in Job, NEW n \in DOMAIN attempts[j], NEW now \in Time,
         Heartbeat(j, n, now) \/ Adopt(j, n, now)
  PROVE  IInv'
<1> USE DEF workerVars
<1>1. /\ TypeOK /\ JobInv(j) /\ RunningIsHeld /\ lease[j] \in Lease /\ lease[j] # NoLease
      /\ phase[j] \in Leased
  BY HolderIsLatest DEF Heartbeat, Adopt, HoldsLiveLease
<1>2. /\ lease' \in [Job -> Lease \cup {NoLease}]
      /\ \A k \in Job \ {j} : lease'[k] = lease[k]
      /\ lease'[j] # NoLease /\ lease'[j].attempt = lease[j].attempt
      /\ lease'[j].worker_id = lease[j].worker_id
      /\ lease'[j].fencing_token = lease[j].fencing_token
  BY <1>1, LeaseExtended DEF Heartbeat, Adopt
<1>3. TypeOK'
  BY <1>1, <1>2 DEF Heartbeat, Adopt, TypeOK
<1>4. /\ phase' = phase /\ attempts' = attempts /\ outcome' = outcome /\ running' = running
      /\ next_fencing_token' = next_fencing_token /\ cancel_requested' = cancel_requested
  BY DEF Heartbeat, Adopt
<1>5. ASSUME NEW k \in Job \ {j} PROVE JobInv(k)'
  BY <1>2, <1>4, Untouched DEF IInv
<1>6. JobInv(j)'
  BY <1>1, <1>2, <1>4, HeldJobKept DEF SameAttempts
<1>7. RunningIsHeld'
  <2>1. ASSUME NEW w \in Worker PROVE Held(w)' = Held(w)
    BY <1>1, <1>2, <1>4 DEF Held
  <2>2. QED
    BY <1>1, <1>4, <2>1, SameHands
<1>8. QED
  BY <1>3, <1>5, <1>6, <1>7 DEF IInv

LEMMA RecordEventInv ==
  ASSUME IInv, NEW j \in Job, NEW n \in DOMAIN attempts[j], NEW now \in Time,
         NEW s \in 1..MaxEvents, NEW p \in EventPhase, RecordEvent(j, n, s, p, now)
  PROVE  IInv'
<1> USE DEF workerVars
<1>1. /\ TypeOK /\ JobInv(j) /\ RunningIsHeld /\ attempts[j] \in Seq(Attempt)
      /\ n = Len(attempts[j]) /\ n # 0 /\ lease[j] # NoLease /\ phase[j] \in Leased
  BY HolderIsLatest DEF RecordEvent, HoldsLiveLease
<1>2. p \in AttemptPhase /\ s \in Nat /\ n \in Nat
  BY <1>1, EventPhaseAssumption, BoundAssumption
<1>3. /\ attempts' \in [Job -> Seq(Attempt)]
      /\ \A k \in Job \ {j} : attempts'[k] = attempts[k]
      /\ SameAttempts(j)
  BY <1>1, <1>2, LatestPhaseSet DEF RecordEvent, SameAttempts
<1>4. events' \in [Job -> SUBSET Event]
  <2>1. [attempt |-> n, sequence |-> s, phase |-> p] \in Event
    BY <1>2 DEF Event
  <2>2. QED
    BY <1>1, <2>1 DEF RecordEvent, TypeOK
<1>5. TypeOK'
  BY <1>1, <1>3, <1>4 DEF RecordEvent, TypeOK
<1>6. ASSUME NEW k \in Job \ {j} PROVE JobInv(k)'
  BY <1>3, Untouched DEF RecordEvent, IInv
<1>7. JobInv(j)'
  <2>1. phase'[j] = phase[j] /\ lease'[j] = lease[j] /\ outcome'[j] = outcome[j]
    BY DEF RecordEvent
  <2>2. QED
    BY <1>1, <1>3, <2>1, HeldJobKept
<1>8. RunningIsHeld'
  BY <1>1, SameHands DEF RecordEvent, Held
<1>9. QED
  BY <1>5, <1>6, <1>7, <1>8 DEF IInv

\* Commit, fail and confirm_cancelled end the job and give the slot back.
LEMMA EndInv ==
  ASSUME IInv, NEW j \in Job, NEW n \in DOMAIN attempts[j], HoldsLease(j, n),
         NEW jp \in Terminal, NEW ap \in AttemptPhase, End(j, n, jp, ap),
         jp = "Cancelled" => cancel_requested[j],
         outcome' = IF jp = "Succeeded" THEN [outcome EXCEPT ![j] = n] ELSE outcome
  PROVE  IInv'
<1>0. PICK u \in Worker : u = lease[j].worker_id
  BY HolderIsLatest
<1>1. /\ TypeOK /\ JobInv(j) /\ RunningIsHeld /\ attempts[j] \in Seq(Attempt)
      /\ n = Len(attempts[j]) /\ n # 0 /\ lease[j] # NoLease /\ phase[j] \in Leased
      /\ attempts[j][n].worker_id = u /\ j \in Held(u)
  BY <1>0, HolderIsLatest
<1>2. /\ phase' = [phase EXCEPT ![j] = jp]
      /\ lease' = [lease EXCEPT ![j] = NoLease]
      /\ OneLess(u)
      /\ UNCHANGED <<epoch, incarnation, descriptor, events, next_fencing_token,
                     cancel_requested, decisions>>
  BY <1>1 DEF End
<1>3. /\ attempts' \in [Job -> Seq(Attempt)]
      /\ \A k \in Job \ {j} : attempts'[k] = attempts[k]
      /\ SameAttempts(j)
  BY <1>1, <1>2, LatestPhaseSet DEF End, SameAttempts
<1>4. running' \in [Worker -> Nat]
  BY <1>1, <1>2 DEF OneLess, TypeOK
<1>5. outcome' \in [Job -> Nat] /\ \A k \in Job \ {j} : outcome'[k] = outcome[k]
  BY <1>1 DEF TypeOK
<1>6. TypeOK'
  BY <1>1, <1>2, <1>3, <1>4, <1>5 DEF TypeOK
<1>7. ASSUME NEW k \in Job \ {j} PROVE JobInv(k)'
  <2>1. phase'[k] = phase[k] /\ lease'[k] = lease[k]
    BY <1>1, <1>2 DEF TypeOK
  <2>2. QED
    BY <1>2, <1>3, <1>5, <2>1, Untouched DEF IInv
<1>8. JobInv(j)'
  <2>1. /\ phase'[j] = jp /\ lease'[j] = NoLease
        /\ outcome'[j] = IF jp = "Succeeded" THEN n ELSE outcome[j]
    BY <1>1, <1>2 DEF TypeOK
  <2>2. QED
    BY <1>1, <1>3, <2>1, HeldJobKept
<1>9. RunningIsHeld'
  <2>1. Held(u)' = Held(u) \ {j}
    BY <1>1, <1>2 DEF Held, TypeOK
  <2>2. \A w \in Worker \ {u} : Held(w)' = Held(w)
    BY <1>0, <1>1, <1>2 DEF Held, TypeOK
  <2>3. QED
    BY <1>1, <1>2, <2>1, <2>2, OneHandLess
<1>10. QED
  BY <1>6, <1>7, <1>8, <1>9 DEF IInv

LEMMA CommitInv ==
  ASSUME IInv, NEW j \in Job, NEW n \in DOMAIN attempts[j], NEW now \in Time,
         Commit(j, n, now)
  PROVE  IInv'
BY EndInv DEF Commit, HoldsLiveLease

LEMMA FailInv ==
  ASSUME IInv, NEW j \in Job, NEW n \in DOMAIN attempts[j], NEW now \in Time,
         Fail(j, n, now)
  PROVE  IInv'
BY EndInv DEF Fail, HoldsLiveLease

LEMMA ConfirmCancelledInv ==
  ASSUME IInv, NEW j \in Job, NEW n \in DOMAIN attempts[j], ConfirmCancelled(j, n)
  PROVE  IInv'
<1>1. cancel_requested[j]
  BY HolderIsLatest DEF ConfirmCancelled, JobInv
<1>2. QED
  BY <1>1, EndInv DEF ConfirmCancelled

\* Expiry ends many leases at once: each job is treated as if alone, and each
\* worker gets back as many slots as it lost jobs.
LEMMA ExpireInv ==
  ASSUME IInv, NEW now \in Time, ExpireLeases(now)
  PROVE  IInv'
<1> DEFINE E == Expired(now)
<1> DEFINE Rewritten(j) == [attempts[j] EXCEPT ![Len(attempts[j])].phase = "Failed"]
<1>1. TypeOK /\ RunningIsHeld /\ \A j \in Job : JobInv(j)
  BY DEF IInv
<1>2. /\ phase' = [j \in Job |-> IF j \in E THEN AfterExpiry(j) ELSE phase[j]]
      /\ lease' = [j \in Job |-> IF j \in E THEN NoLease ELSE lease[j]]
      /\ attempts' = [j \in Job |-> IF j \in E THEN Rewritten(j) ELSE attempts[j]]
      /\ running' = [w \in Worker |->
           IF LostBy(w, E) > running[w] THEN 0 ELSE running[w] - LostBy(w, E)]
      /\ UNCHANGED <<epoch, incarnation, descriptor, outcome, events, next_fencing_token,
                     cancel_requested, decisions>>
  BY DEF ExpireLeases
<1>3. /\ E \subseteq Job
      /\ \A j \in E : lease[j] # NoLease /\ phase[j] \notin Terminal
      /\ \A j \in E : phase[j] \in Leased /\ Len(attempts[j]) # 0
  BY <1>1 DEF Expired, JobInv
<1>4. ASSUME NEW j \in E
      PROVE  /\ Rewritten(j) \in Seq(Attempt)
             /\ Len(Rewritten(j)) = Len(attempts[j])
             /\ \A n \in 1..Len(attempts[j]) :
                  /\ Rewritten(j)[n].worker_id = attempts[j][n].worker_id
                  /\ Rewritten(j)[n].fencing_token = attempts[j][n].fencing_token
                  /\ n < Len(attempts[j]) => Rewritten(j)[n] = attempts[j][n]
             /\ Rewritten(j)[Len(attempts[j])].phase = "Failed"
  <2>1. attempts[j] \in Seq(Attempt) /\ Len(attempts[j]) # 0
    BY <1>1, <1>3 DEF TypeOK
  <2> DEFINE r == Rewritten(j)
  <2>2. r = [attempts[j] EXCEPT ![Len(attempts[j])].phase = "Failed"]
    OBVIOUS
  <2>3. "Failed" \in AttemptPhase
    OBVIOUS
  <2> HIDE DEF r
  <2>4. /\ r \in Seq(Attempt)
        /\ Len(r) = Len(attempts[j])
        /\ \A n \in 1..Len(attempts[j]) :
             /\ r[n].worker_id = attempts[j][n].worker_id
             /\ r[n].fencing_token = attempts[j][n].fencing_token
             /\ n < Len(attempts[j]) => r[n] = attempts[j][n]
        /\ r[Len(attempts[j])].phase = "Failed"
    BY <2>1, <2>2, <2>3, LatestRewritten
  <2>5. QED
    BY <2>4 DEF r
<1> HIDE DEF Rewritten, E
<1>5. ASSUME NEW w \in Worker
      PROVE  /\ LostBy(w, E) \in Nat
             /\ Cardinality(Held(w)') = Cardinality(Held(w)) - LostBy(w, E)
             /\ Cardinality(Held(w)') \in Nat
  <2> DEFINE T == {j \in E : lease[j].worker_id = w}
  <2>1. T \in SUBSET Held(w)
    BY <1>3 DEF Held
  <2>2. Held(w)' = Held(w) \ T
    <3>1. ASSUME NEW j \in Job PROVE j \in Held(w)' <=> j \in Held(w) \ T
      <4>1. CASE j \in E
        BY <1>2, <4>1 DEF Held
      <4>2. CASE j \notin E
        BY <1>2, <4>2 DEF Held
      <4>3. QED
        BY <4>1, <4>2
    <3>2. QED
      BY <3>1 DEF Held
  <2>3. LostBy(w, E) = Cardinality(T)
    BY DEF LostBy
  <2> HIDE DEF T
  <2>4. QED
    BY <2>1, <2>2, <2>3, HeldFinite, TakenAway
<1>6. running' \in [Worker -> Nat]
  <2>1. \A w \in Worker : running[w] \in Nat /\ LostBy(w, E) \in Nat
    BY <1>1, <1>5 DEF TypeOK
  <2>2. QED
    BY <1>2, <2>1
<1>7. attempts' \in [Job -> Seq(Attempt)]
  BY <1>1, <1>2, <1>4 DEF TypeOK
<1>8. TypeOK'
  BY <1>1, <1>2, <1>6, <1>7 DEF TypeOK, AfterExpiry
<1>9. ASSUME NEW j \in Job PROVE JobInv(j)'
  <2>1. CASE j \notin E
    BY <1>1, <1>2, <2>1, Untouched
  <2>2. CASE j \in E
    <3>1. SameAttempts(j) /\ attempts'[j][Len(attempts[j])].phase = "Failed"
      BY <1>2, <1>4, <2>2 DEF SameAttempts
    <3>2. /\ phase'[j] = AfterExpiry(j) /\ lease'[j] = NoLease /\ outcome'[j] = outcome[j]
          /\ phase[j] \in Leased /\ cancel_requested[j] \in BOOLEAN
      BY <1>1, <1>2, <1>3, <2>2 DEF TypeOK
    <3>3. QED
      BY <1>1, <3>1, <3>2, HeldJobKept DEF AfterExpiry
  <2>3. QED
    BY <2>1, <2>2
<1>10. RunningIsHeld'
  <2>1. ASSUME NEW w \in Worker PROVE running'[w] = Cardinality(Held(w)')
    <3>1. /\ running[w] = Cardinality(Held(w)) /\ running[w] \in Nat
          /\ running'[w] = IF LostBy(w, E) > running[w] THEN 0 ELSE running[w] - LostBy(w, E)
      BY <1>1, <1>2 DEF RunningIsHeld, TypeOK
    <3>2. QED
      BY <1>5, <3>1
  <2>2. QED
    BY <2>1 DEF RunningIsHeld
<1>11. QED
  BY <1>8, <1>9, <1>10 DEF IInv

-----------------------------------------------------------------------------
(* The theorems. *)

LEMMA StutterInv == IInv /\ UNCHANGED vars => IInv'
<1> SUFFICES ASSUME IInv, UNCHANGED vars PROVE IInv'
  OBVIOUS
<1> USE DEF IInv, vars, workerVars
<1>1. TypeOK'
  BY DEF TypeOK
<1>2. ASSUME NEW k \in Job PROVE JobInv(k)'
  BY Untouched
<1>3. RunningIsHeld'
  BY SameHands DEF Held
<1>4. QED
  BY <1>1, <1>2, <1>3

LEMMA NextInv == IInv /\ [Next]_vars => IInv'
<1> SUFFICES ASSUME IInv, [Next]_vars PROVE IInv'
  OBVIOUS
<1>1. ASSUME NEW j \in Job, JobStep(j) PROVE IInv'
  <2>1. ASSUME NEW w \in Worker, NEW now \in Time, Assign(j, w, now) PROVE IInv'
    BY <2>1, AssignInv
  <2>2. ASSUME NEW n \in DOMAIN attempts[j], NEW now \in Time, WorkerCall(j, n, now)
        PROVE  IInv'
    BY <2>2, AcknowledgeInv, ExtendInv, CommitInv, FailInv, ConfirmCancelledInv,
       RecordEventInv DEF WorkerCall
  <2>3. QED
    BY <1>1, <2>1, <2>2, SubmitInv, PlaceInv, CancelInv DEF JobStep
<1>2. QED
  BY <1>1, RegisterInv, ExpireInv, OpenInv, StutterInv DEF Next

\* In every run the variables stay in their types, and the inductive
\* invariant holds.
THEOREM FleetInv == Spec => []IInv
BY InitInv, NextInv, PTL DEF Spec

\* The values of the coordinator's state keep their types.
THEOREM FleetTypes == Spec => []TypeOK
<1>1. IInv => TypeOK
  BY DEF IInv
<1>2. QED
  BY <1>1, FleetInv, PTL

\* A worker's counter is always the number of jobs it holds.
THEOREM FleetRunningIsHeld == Spec => []RunningIsHeld
<1>1. IInv => RunningIsHeld
  BY DEF IInv
<1>2. QED
  BY <1>1, FleetInv, PTL

\* The lease of a job is always its latest attempt's.
THEOREM FleetLeaseIsLatest == Spec => []LeaseIsLatest
<1>1. IInv => LeaseIsLatest
  BY DEF IInv, JobInv, LeaseIsLatest, Last
<1>2. QED
  BY <1>1, FleetInv, PTL

\* Fencing tokens always grow from attempt to attempt.
THEOREM FleetFencesGrow == Spec => []FencesGrow
<1>1. ASSUME IInv, NEW j \in Job, NEW n \in DOMAIN attempts[j]
      PROVE  /\ attempts[j][n].fencing_token < next_fencing_token[j]
             /\ \A m \in 1..(n - 1) : attempts[j][m].fencing_token < attempts[j][n].fencing_token
  <2>1. /\ attempts[j] \in Seq(Attempt) /\ Len(attempts[j]) \in Nat
        /\ next_fencing_token[j] = Len(attempts[j]) + 1
        /\ \A i \in 1..Len(attempts[j]) : attempts[j][i].fencing_token = i
    BY <1>1 DEF IInv, TypeOK, JobInv
  <2>2. n \in 1..Len(attempts[j])
    BY <2>1
  <2>3. QED
    BY <2>1, <2>2
<1>2. IInv => FencesGrow
  BY <1>1 DEF FencesGrow
<1>3. QED
  BY <1>2, FleetInv, PTL

\* Superseded attempts, and the latest one of a waiting job, always failed.
THEOREM FleetSupersededFailed == Spec => []SupersededFailed
<1>1. ASSUME IInv, NEW j \in Job, NEW n \in DOMAIN attempts[j],
             n < Len(attempts[j]) \/ phase[j] = "Pending"
      PROVE  attempts[j][n].phase = "Failed"
  <2>1. attempts[j] \in Seq(Attempt) /\ JobInv(j)
    BY <1>1 DEF IInv, TypeOK
  <2>2. n \in 1..Len(attempts[j])
    BY <2>1
  <2>3. QED
    BY <1>1, <2>1, <2>2 DEF JobInv
<1>2. IInv => SupersededFailed
  BY <1>1 DEF SupersededFailed
<1>3. QED
  BY <1>2, FleetInv, PTL

\* A job has an outcome exactly when it succeeded, its latest attempt's.
THEOREM FleetOutcomeIsLatest == Spec => []OutcomeIsLatest
<1>1. IInv => OutcomeIsLatest
  BY DEF IInv, JobInv, OutcomeIsLatest
<1>2. QED
  BY <1>1, FleetInv, PTL

-----------------------------------------------------------------------------
(* What no step does. *)

LEMMA TerminalStep ==
  ASSUME IInv, Next, NEW j \in Job, phase[j] \in Terminal
  PROVE  /\ phase'[j] = phase[j] /\ outcome'[j] = outcome[j]
         /\ attempts'[j] = attempts[j] /\ events'[j] = events[j]
<1>1. TypeOK /\ lease[j] = NoLease
  BY DEF IInv, JobInv
<1>2. ASSUME NEW k \in Job, JobStep(k) 
      PROVE  /\ phase'[j] = phase[j] /\ outcome'[j] = outcome[j]
             /\ attempts'[j] = attempts[j] /\ events'[j] = events[j]
  <2>1. ASSUME NEW n \in DOMAIN attempts[k], NEW now \in Time, WorkerCall(k, n, now)
        PROVE  /\ phase'[j] = phase[j] /\ outcome'[j] = outcome[j]
               /\ attempts'[j] = attempts[j] /\ events'[j] = events[j]
    <3>1. HoldsLease(k, n)
      BY <2>1 DEF WorkerCall, Acknowledge, Heartbeat, Commit, Fail, ConfirmCancelled, Adopt,
                  RecordEvent, HoldsLiveLease
    <3>2. k # j
      BY <1>1, <3>1 DEF HoldsLease
    <3>3. QED
      BY <1>1, <2>1, <3>2 DEF WorkerCall, Acknowledge, Heartbeat, Commit, Fail,
         ConfirmCancelled, Adopt, RecordEvent, End, SetAttemptPhase, TypeOK
  <2>2. CASE Submit(k) \/ Place(k) \/ Cancel(k)
    BY <1>1, <2>2 DEF Submit, Place, Cancel, Cancellable, TypeOK
  <2>3. ASSUME NEW w \in Worker, NEW now \in Time, Assign(k, w, now)
        PROVE  /\ phase'[j] = phase[j] /\ outcome'[j] = outcome[j]
               /\ attempts'[j] = attempts[j] /\ events'[j] = events[j]
    BY <1>1, <2>3 DEF Assign, Offerable, TypeOK
  <2>4. QED
    BY <1>2, <2>1, <2>2, <2>3 DEF JobStep
<1>3. CASE Open \/ \E w \in Worker, inc \in 1..MaxIncarnation, desc \in Descriptor :
                     RegisterWorker(w, inc, desc)
  BY <1>3 DEF Open, RegisterWorker
<1>4. ASSUME NEW now \in Time, ExpireLeases(now)
      PROVE  /\ phase'[j] = phase[j] /\ outcome'[j] = outcome[j]
             /\ attempts'[j] = attempts[j] /\ events'[j] = events[j]
  <2>1. j \notin Expired(now)
    BY DEF Expired
  <2>2. QED
    BY <1>4, <2>1 DEF ExpireLeases
<1>5. QED
  BY <1>2, <1>3, <1>4 DEF Next

\* Terminal jobs keep their phase, outcome, attempts and events.
THEOREM FleetTerminalIsFinal == Spec => TerminalIsFinal
<1>1. IInv /\ [Next]_vars =>
        [\A j \in Job : phase[j] \in Terminal =>
           /\ phase'[j] = phase[j] /\ outcome'[j] = outcome[j]
           /\ attempts'[j] = attempts[j] /\ events'[j] = events[j]]_vars
  BY TerminalStep
<1>2. QED
  BY <1>1, FleetInv, PTL DEF Spec, TerminalIsFinal

\* Expiry rewrites attempts, and adds none.
LEMMA ExpiryKeepsLength ==
  ASSUME IInv, NEW now \in Time, ExpireLeases(now), NEW j \in Job
  PROVE  Len(attempts'[j]) = Len(attempts[j])
<1>0. attempts[j] \in Seq(Attempt)
  BY DEF IInv, TypeOK
<1>1. attempts'[j] = IF j \in Expired(now)
                     THEN [attempts[j] EXCEPT ![Len(attempts[j])].phase = "Failed"]
                     ELSE attempts[j]
  BY DEF ExpireLeases
<1>2. j \in Expired(now) => Len(attempts[j]) # 0
  BY DEF IInv, JobInv, Expired
<1> DEFINE t == attempts'[j]
<1>3. CASE j \in Expired(now)
  <2>1. t = [attempts[j] EXCEPT ![Len(attempts[j])].phase = "Failed"]
    BY <1>1, <1>3
  <2>2. Len(attempts[j]) # 0 /\ "Failed" \in AttemptPhase
    BY <1>2, <1>3
  <2> HIDE DEF t
  <2>3. Len(t) = Len(attempts[j])
    BY <1>0, <2>1, <2>2, LatestRewritten
  <2>4. QED
    BY <2>3 DEF t
<1>4. QED
  BY <1>1, <1>3

LEMMA CancelledStep ==
  ASSUME IInv, Next, NEW j \in Job, cancel_requested[j]
  PROVE  Len(attempts'[j]) = Len(attempts[j])
<1>1. TypeOK /\ phase[j] # "Pending" /\ attempts[j] \in Seq(Attempt)
  BY DEF IInv, TypeOK, JobInv
<1>2. ASSUME NEW k \in Job, JobStep(k)
      PROVE  Len(attempts'[j]) = Len(attempts[j])
  <2>1. ASSUME NEW n \in DOMAIN attempts[k], NEW now \in Time, WorkerCall(k, n, now)
        PROVE  Len(attempts'[j]) = Len(attempts[j])
    <3>1. HoldsLease(k, n)
      BY <2>1 DEF WorkerCall, Acknowledge, Heartbeat, Commit, Fail, ConfirmCancelled, Adopt,
                  RecordEvent, HoldsLiveLease
    <3>2. Len(attempts[k]) # 0
      BY <3>1, HolderIsLatest
    <3>3. ASSUME NEW p \in AttemptPhase, SetAttemptPhase(k, p)
          PROVE  Len(attempts'[j]) = Len(attempts[j])
      BY <3>2, <3>3, LatestPhaseSet
    <3>4. attempts' = attempts \/ \E p \in AttemptPhase : SetAttemptPhase(k, p)
      BY <2>1, EventPhaseAssumption DEF WorkerCall, Acknowledge, Heartbeat, Commit, Fail,
         ConfirmCancelled, Adopt, RecordEvent, End
    <3>5. QED
      BY <3>3, <3>4
  <2>2. CASE Submit(k) \/ Place(k) \/ Cancel(k)
    BY <2>2 DEF Submit, Place, Cancel
  <2>3. ASSUME NEW w \in Worker, NEW now \in Time, Assign(k, w, now)
        PROVE  Len(attempts'[j]) = Len(attempts[j])
    BY <1>1, <2>3 DEF Assign, Offerable, TypeOK
  <2>4. QED
    BY <1>2, <2>1, <2>2, <2>3 DEF JobStep
<1>3. CASE Open \/ \E w \in Worker, inc \in 1..MaxIncarnation, desc \in Descriptor :
                     RegisterWorker(w, inc, desc)
  BY <1>3 DEF Open, RegisterWorker
<1>4. ASSUME NEW now \in Time, ExpireLeases(now)
      PROVE  Len(attempts'[j]) = Len(attempts[j])
  BY <1>4, ExpiryKeepsLength
<1>5. QED
  BY <1>2, <1>3, <1>4 DEF Next

\* A job whose cancellation was accepted gets no further attempt.
THEOREM FleetCancelledNotRetried == Spec => CancelledNotRetried
<1>1. IInv /\ [Next]_vars =>
        [\A j \in Job : cancel_requested[j] => Len(attempts'[j]) = Len(attempts[j])]_vars
  BY CancelledStep
<1>2. QED
  BY <1>1, FleetInv, PTL DEF Spec, CancelledNotRetried

-----------------------------------------------------------------------------
(* The recorded events.                                                    *)

\* What is known of a job's events: each is of an attempt there was, the
\* sequences of an attempt are the first so many, and none stands for two.
EventInv(j) ==
  /\ \A e \in events[j] : e.attempt \in 1..Len(attempts[j])
  /\ \A n \in 1..Len(attempts[j]) :
       \E c \in 0..MaxEvents : Sequences(EventsOf(j, n)) = 1..c
  /\ \A d, e \in events[j] : d.attempt = e.attempt /\ d.sequence = e.sequence => d = e

EventsInv == \A j \in Job : EventInv(j)

\* After the first c events of an attempt the next sequence is c + 1.
LEMMA NextIsOneMore ==
  ASSUME NEW j \in Job, NEW n, NEW c \in Nat, Sequences(EventsOf(j, n)) = 1..c,
         NEW s \in NextSequence(j, n)
  PROVE  s = c + 1
<1>1. EventsOf(j, n) = {} <=> Sequences(EventsOf(j, n)) = {}
  BY DEF Sequences
<1>2. CASE c = 0
  BY <1>1, <1>2 DEF NextSequence
<1>3. CASE c # 0
  <2> DEFINE S == Sequences(EventsOf(j, n))
  <2>1. c \in S /\ \A k \in S : k <= c
    BY <1>3
  <2>2. \A m \in S : (\A k \in S : k <= m) => m = c
    BY <2>1
  <2>3. EventsOf(j, n) # {}
    BY <1>1, <2>1
  <2>4. s = 1 + CHOOSE m \in S : \A k \in S : k <= m
    BY <2>3 DEF NextSequence
  <2> HIDE DEF S
  <2> DEFINE x == CHOOSE m \in S : \A k \in S : k <= m
  <2>5. x \in S /\ \A k \in S : k <= x
    BY <2>1, Zenon
  <2>6. s = 1 + x
    BY <2>4
  <2> HIDE DEF x
  <2>7. QED
    BY <2>2, <2>5, <2>6
<1>4. QED
  BY <1>2, <1>3

\* A job keeps its events' invariant when it keeps the events and loses no attempt.
LEMMA EventsKept ==
  ASSUME IInv, IInv', NEW j \in Job, EventInv(j), events'[j] = events[j],
         Len(attempts'[j]) = Len(attempts[j])
           \/ Len(attempts'[j]) = Len(attempts[j]) + 1
  PROVE  EventInv(j)'
<1>1. attempts[j] \in Seq(Attempt) /\ Len(attempts[j]) \in Nat
  BY DEF IInv, TypeOK
<1>2. \A n : EventsOf(j, n)' = EventsOf(j, n)
  BY DEF EventsOf
<1>3. \A n : Sequences(EventsOf(j, n))' = Sequences(EventsOf(j, n))
  BY <1>2 DEF Sequences
<1>4. \A e \in events'[j] : e.attempt \in 1..Len(attempts'[j])
  BY <1>1 DEF EventInv
<1>5. ASSUME NEW n \in 1..Len(attempts'[j])
      PROVE  \E c \in 0..MaxEvents : Sequences(EventsOf(j, n))' = 1..c
  <2>1. CASE n \in 1..Len(attempts[j])
    BY <1>3, <2>1 DEF EventInv
  <2>2. CASE n = Len(attempts[j]) + 1
    <3>1. EventsOf(j, n) = {}
      BY <1>1, <2>2 DEF EventInv, EventsOf
    <3>2. Sequences(EventsOf(j, n)) = {}
      BY <3>1 DEF Sequences
    <3>3. Sequences(EventsOf(j, n))' = 1..0
      BY <1>3, <3>2
    <3>4. QED
      BY <3>3, BoundAssumption
  <2>3. QED
    BY <1>1, <2>1, <2>2
<1>6. \A d, e \in events'[j] : d.attempt = e.attempt /\ d.sequence = e.sequence => d = e
  BY DEF EventInv
<1>7. QED
  BY <1>4, <1>5, <1>6 DEF EventInv

\* An event recorded is the next of its attempt.
LEMMA EventRecorded ==
  ASSUME IInv, NEW j \in Job, EventInv(j), NEW n \in DOMAIN attempts[j], NEW now \in Time,
         NEW s \in 1..MaxEvents, NEW p \in EventPhase, RecordEvent(j, n, s, p, now)
  PROVE  EventInv(j)'
<1> DEFINE x == [attempt |-> n, sequence |-> s, phase |-> p]
<1>1. /\ attempts[j] \in Seq(Attempt) /\ n \in 1..Len(attempts[j])
      /\ Len(attempts[j]) \in Nat /\ Len(attempts[j]) # 0
      /\ TypeOK
  BY HolderIsLatest DEF RecordEvent, HoldsLiveLease
<1>2. Len(attempts'[j]) = Len(attempts[j])
  BY <1>1, EventPhaseAssumption, LatestPhaseSet DEF RecordEvent
<1>3. events'[j] = events[j] \cup {x} /\ x.attempt = n /\ x.sequence = s
  BY <1>1 DEF RecordEvent, TypeOK
<1>4. PICK c \in 0..MaxEvents : Sequences(EventsOf(j, n)) = 1..c
  BY <1>1 DEF EventInv
<1>5. s = c + 1 /\ c \in Nat
  BY <1>4, NextIsOneMore, BoundAssumption DEF RecordEvent
<1> HIDE DEF x
<1>6. \A d \in events[j] : d.attempt = n => d.sequence \in 1..c
  BY <1>4 DEF EventsOf, Sequences
<1>7. \A d, e \in events'[j] : d.attempt = e.attempt /\ d.sequence = e.sequence => d = e
  <2>1. ASSUME NEW d \in events[j] PROVE ~(d.attempt = n /\ d.sequence = s)
    <3>1. s \notin 1..c
      BY <1>5
    <3>2. QED
      BY <1>6, <3>1
  <2>2. QED
    BY <1>3, <2>1 DEF EventInv
<1>8. EventsOf(j, n)' = EventsOf(j, n) \cup {x}
  BY <1>3 DEF EventsOf
<1>9. ASSUME NEW m, m # n PROVE EventsOf(j, m)' = EventsOf(j, m)
  BY <1>3, <1>9 DEF EventsOf
<1>10. ASSUME NEW m \in 1..Len(attempts'[j])
       PROVE  \E b \in 0..MaxEvents : Sequences(EventsOf(j, m))' = 1..b
  <2>1. CASE m = n
    <3>1. Sequences(EventsOf(j, n))' = Sequences(EventsOf(j, n)) \cup {s}
      BY <1>3, <1>8 DEF Sequences
    <3>2. (1..c) \cup {s} = 1..s /\ s \in 0..MaxEvents
      BY <1>5
    <3>3. QED
      BY <1>4, <2>1, <3>1, <3>2
  <2>2. CASE m # n
    <3>1. Sequences(EventsOf(j, m))' = Sequences(EventsOf(j, m))
      BY <1>9, <2>2 DEF Sequences
    <3>2. QED
      BY <1>2, <3>1 DEF EventInv
  <2>3. QED
    BY <2>1, <2>2
<1>11. \A e \in events'[j] : e.attempt \in 1..Len(attempts'[j])
  BY <1>1, <1>2, <1>3 DEF EventInv
<1>12. QED
  BY <1>7, <1>10, <1>11 DEF EventInv

\* What any step does to one job's attempts and events.
LEMMA EventsStep ==
  ASSUME IInv, Next, NEW j \in Job
  PROVE  \/ /\ events'[j] = events[j]
            /\ \/ Len(attempts'[j]) = Len(attempts[j])
               \/ Len(attempts'[j]) = Len(attempts[j]) + 1
         \/ \E n \in DOMAIN attempts[j], now \in Time, s \in 1..MaxEvents, p \in EventPhase :
              RecordEvent(j, n, s, p, now)
<1> DEFINE Kept == /\ events'[j] = events[j]
                   /\ \/ Len(attempts'[j]) = Len(attempts[j])
                      \/ Len(attempts'[j]) = Len(attempts[j]) + 1
<1> DEFINE Recorded ==
      \E n \in DOMAIN attempts[j], now \in Time, s \in 1..MaxEvents, p \in EventPhase :
        RecordEvent(j, n, s, p, now)
<1>1. TypeOK /\ attempts[j] \in Seq(Attempt)
  BY DEF IInv, TypeOK
<1>2. ASSUME NEW k \in Job, JobStep(k) PROVE Kept \/ Recorded
  <2>1. ASSUME NEW n \in DOMAIN attempts[k], NEW now \in Time, WorkerCall(k, n, now)
        PROVE  Kept \/ Recorded
    <3>1. HoldsLease(k, n)
      BY <2>1 DEF WorkerCall, Acknowledge, Heartbeat, Commit, Fail, ConfirmCancelled, Adopt,
                  RecordEvent, HoldsLiveLease
    <3>2. Len(attempts[k]) # 0
      BY <3>1, HolderIsLatest
    <3>3. ASSUME NEW p \in AttemptPhase, SetAttemptPhase(k, p)
          PROVE  Len(attempts'[j]) = Len(attempts[j])
      BY <3>2, <3>3, LatestPhaseSet
    <3>4. attempts' = attempts \/ \E p \in AttemptPhase : SetAttemptPhase(k, p)
      BY <2>1, EventPhaseAssumption DEF WorkerCall, Acknowledge, Heartbeat, Commit, Fail,
         ConfirmCancelled, Adopt, RecordEvent, End
    <3>5. Len(attempts'[j]) = Len(attempts[j])
      BY <3>3, <3>4
    <3>6. ASSUME NEW s \in 1..MaxEvents, NEW p \in EventPhase, RecordEvent(k, n, s, p, now)
          PROVE  Kept \/ Recorded
      <4>1. CASE k = j
        BY <3>6, <4>1
      <4>2. CASE k # j
        BY <1>1, <3>5, <3>6, <4>2 DEF RecordEvent, TypeOK
      <4>3. QED
        BY <4>1, <4>2
    <3>7. events' = events \/ \E s \in 1..MaxEvents, p \in EventPhase : RecordEvent(k, n, s, p, now)
      BY <2>1 DEF WorkerCall, Acknowledge, Heartbeat, Commit, Fail, ConfirmCancelled, Adopt, End
    <3>8. QED
      BY <3>5, <3>6, <3>7
  <2>2. CASE Submit(k) \/ Place(k) \/ Cancel(k)
    BY <2>2 DEF Submit, Place, Cancel
  <2>3. ASSUME NEW w \in Worker, NEW now \in Time, Assign(k, w, now)
        PROVE  Kept
    <3>1. events' = events
      BY <2>3 DEF Assign
    <3>2. attempts'[j] = attempts[j] \/ \E a : attempts'[j] = Append(attempts[j], a)
      BY <1>1, <2>3 DEF Assign, TypeOK
    <3>3. \A a : Len(Append(attempts[j], a)) = Len(attempts[j]) + 1
      BY <1>1
    <3>4. QED
      BY <3>1, <3>2, <3>3
  <2>4. QED
    BY <1>2, <2>1, <2>2, <2>3 DEF JobStep
<1>3. CASE Open \/ \E w \in Worker, inc \in 1..MaxIncarnation, desc \in Descriptor :
                     RegisterWorker(w, inc, desc)
  BY <1>3 DEF Open, RegisterWorker
<1>4. ASSUME NEW now \in Time, ExpireLeases(now) PROVE Kept
  <2>1. events' = events
    BY <1>4 DEF ExpireLeases
  <2>2. Len(attempts'[j]) = Len(attempts[j])
    BY <1>4, ExpiryKeepsLength
  <2>3. QED
    BY <2>1, <2>2
<1>5. QED
  BY <1>2, <1>3, <1>4 DEF Next

LEMMA EventsInvStep == IInv /\ IInv' /\ EventsInv /\ [Next]_vars => EventsInv'
<1> SUFFICES ASSUME IInv, IInv', EventsInv, [Next]_vars, NEW j \in Job PROVE EventInv(j)'
  BY DEF EventsInv
<1>1. EventInv(j)
  BY DEF EventsInv
<1>2. CASE Next
  BY <1>1, <1>2, EventsStep, EventsKept, EventRecorded
<1>3. CASE UNCHANGED vars
  BY <1>1, <1>3, EventsKept DEF vars
<1>4. QED
  BY <1>2, <1>3

LEMMA InitEvents == Init => EventsInv
BY DEF Init, EventsInv, EventInv

\* The events of an attempt are always numbered 1, 2, ... with one event for
\* each number, in any number of attempts and events.
THEOREM FleetEventsGapless == Spec => []EventsGapless
<1>1. ASSUME IInv, EventsInv, NEW j \in Job, NEW e \in events[j]
      PROVE  /\ e.attempt \in DOMAIN attempts[j]
             /\ \A s \in 1..(e.sequence) : \E d \in EventsOf(j, e.attempt) : d.sequence = s
             /\ \A d \in EventsOf(j, e.attempt) : d.sequence = e.sequence => d = e
  <2>1. EventInv(j) /\ attempts[j] \in Seq(Attempt)
    BY <1>1 DEF IInv, TypeOK, EventsInv
  <2>2. e.attempt \in 1..Len(attempts[j])
    BY <2>1 DEF EventInv
  <2>3. PICK c \in 0..MaxEvents : Sequences(EventsOf(j, e.attempt)) = 1..c
    BY <2>1, <2>2 DEF EventInv
  <2>4. e.sequence \in 1..c
    BY <2>3 DEF EventsOf, Sequences
  <2>5. ASSUME NEW s \in 1..(e.sequence)
        PROVE  \E d \in EventsOf(j, e.attempt) : d.sequence = s
    <3>1. s \in 1..c
      BY <2>4, BoundAssumption
    <3>2. QED
      BY <2>3, <3>1 DEF Sequences
  <2>6. \A d \in EventsOf(j, e.attempt) : d.sequence = e.sequence => d = e
    BY <2>1 DEF EventInv, EventsOf
  <2>7. QED
    BY <2>1, <2>2, <2>5, <2>6
<1>2. IInv /\ EventsInv => EventsGapless
  BY <1>1 DEF EventsGapless
<1>3. QED
  BY <1>2, InitEvents, EventsInvStep, FleetInv, PTL DEF Spec

-----------------------------------------------------------------------------
(* The coordinator keeps the promise of FencedJobs.  Under the invariant   *)
(* the tokens are the numbers of the attempts.                             *)

tokens == [j \in Job |-> next_fencing_token[j] - 1]
holders == [j \in Job |-> IF lease[j] = NoLease THEN 0 ELSE lease[j].fencing_token]
winners == [j \in Job |-> IF outcome[j] = 0 THEN 0 ELSE attempts[j][outcome[j]].fencing_token]
EndOf(p) == IF p = "Succeeded" THEN "done" ELSE IF p = "Failed" THEN "failed"
            ELSE IF p = "Cancelled" THEN "cancelled" ELSE "open"
ends == [j \in Job |->
            IF phase[j] = "Succeeded" THEN "done" ELSE IF phase[j] = "Failed" THEN "failed"
            ELSE IF phase[j] = "Cancelled" THEN "cancelled" ELSE "open"]

\* What the mapped variables are.
MappedValues ==
  /\ tokens = [j \in Job |-> Len(attempts[j])]
  /\ holders = [j \in Job |-> IF lease[j] = NoLease THEN 0 ELSE Len(attempts[j])]
  /\ winners = outcome
  /\ ends = [j \in Job |-> EndOf(phase[j])]

LEMMA Mapped == IInv => MappedValues
<1> SUFFICES ASSUME IInv PROVE MappedValues
  OBVIOUS
<1>1. ASSUME NEW j \in Job
      PROVE  /\ next_fencing_token[j] - 1 = Len(attempts[j])
             /\ lease[j] # NoLease => lease[j].fencing_token = Len(attempts[j])
             /\ outcome[j] # 0 => attempts[j][outcome[j]].fencing_token = outcome[j]
  <2>1. JobInv(j) /\ attempts[j] \in Seq(Attempt) /\ outcome[j] \in Nat
    BY DEF IInv, TypeOK
  <2>2. outcome[j] # 0 => outcome[j] \in 1..Len(attempts[j])
    BY <2>1 DEF JobInv
  <2>3. QED
    BY <2>1, <2>2 DEF JobInv
<1>2. outcome = [j \in Job |-> outcome[j]]
  BY DEF IInv, TypeOK
<1>3. winners = [j \in Job |-> outcome[j]]
  BY <1>1 DEF winners
<1>4. QED
  BY <1>1, <1>2, <1>3 DEF MappedValues, tokens, holders, ends, EndOf

LEMMA MappedAfter == IInv' => MappedValues'
BY Mapped, PTL

\* Nothing abstract changes while every job keeps its attempts, the holding
\* of its lease, its outcome and its end.
LEMMA AbstractStutter ==
  ASSUME IInv, IInv', UNCHANGED <<outcome, cancel_requested>>,
         \A j \in Job : /\ Len(attempts'[j]) = Len(attempts[j])
                        /\ lease'[j] = NoLease <=> lease[j] = NoLease
                        /\ EndOf(phase'[j]) = EndOf(phase[j])
  PROVE  UNCHANGED Fenced!vars
<1>1. tokens' = tokens /\ holders' = holders /\ winners' = winners /\ ends' = ends
  <2>1. /\ tokens' = [j \in Job |-> Len(attempts'[j])]
        /\ holders' = [j \in Job |-> IF lease'[j] = NoLease THEN 0 ELSE Len(attempts'[j])]
        /\ winners' = outcome'
        /\ ends' = [j \in Job |-> EndOf(phase'[j])]
    BY MappedAfter DEF MappedValues
  <2>2. QED
    BY <2>1, Mapped DEF MappedValues
<1>2. QED
  BY <1>1 DEF Fenced!vars, tokens, holders, winners, ends

\* The mapped values of one job before and after a step, for the lemmas below.
LEMMA MappedJob ==
  ASSUME IInv, IInv', NEW k \in Job
  PROVE  /\ tokens[k] = Len(attempts[k]) /\ tokens'[k] = Len(attempts'[k])
         /\ holders[k] = IF lease[k] = NoLease THEN 0 ELSE Len(attempts[k])
         /\ holders'[k] = IF lease'[k] = NoLease THEN 0 ELSE Len(attempts'[k])
         /\ winners[k] = outcome[k] /\ winners'[k] = outcome'[k]
         /\ ends[k] = EndOf(phase[k]) /\ ends'[k] = EndOf(phase'[k])
BY Mapped, MappedAfter DEF MappedValues

\* The mapped variables are functions on the jobs.
LEMMA MappedFunctions ==
  /\ tokens = [k \in Job |-> tokens[k]] /\ tokens' = [k \in Job |-> tokens'[k]]
  /\ holders = [k \in Job |-> holders[k]] /\ holders' = [k \in Job |-> holders'[k]]
  /\ ends = [k \in Job |-> ends[k]] /\ ends' = [k \in Job |-> ends'[k]]
BY DEF tokens, holders, ends

\* A function that differs from another at one argument.
LEMMA OneChanged ==
  ASSUME NEW f, NEW g, NEW j \in Job, NEW v, f = [k \in Job |-> f[k]], g = [k \in Job |-> g[k]],
         \A k \in Job : g[k] = IF k = j THEN v ELSE f[k]
  PROVE  g = [f EXCEPT ![j] = v]
OBVIOUS

\* An assignment grants the job under the next token.
LEMMA AssignGrants ==
  ASSUME IInv, IInv', NEW j \in Job, NEW w \in Worker, NEW now \in Time, Assign(j, w, now)
  PROVE  Fenced!Grant(j)
<1>1. /\ TypeOK /\ JobInv(j) /\ phase[j] = "Pending" /\ lease[j] = NoLease
      /\ attempts[j] \in Seq(Attempt)
  BY DEF IInv, TypeOK, Assign, Offerable
<1>2. ends[j] = "open" /\ holders[j] = 0 /\ ~cancel_requested[j]
  BY <1>1, MappedJob DEF EndOf, JobInv
<1>3. /\ Len(attempts'[j]) = Len(attempts[j]) + 1 /\ lease'[j] # NoLease
      /\ phase'[j] = "Assigned"
      /\ \A k \in Job \ {j} : /\ attempts'[k] = attempts[k] /\ lease'[k] = lease[k]
                              /\ phase'[k] = phase[k]
      /\ UNCHANGED <<outcome, cancel_requested>>
  BY <1>1 DEF Assign, TypeOK, NoLease
<1>4. tokens' = [tokens EXCEPT ![j] = tokens[j] + 1]
  <2>1. \A k \in Job : tokens'[k] = IF k = j THEN tokens[j] + 1 ELSE tokens[k]
    BY <1>3, MappedJob
  <2>2. QED
    BY <2>1, MappedFunctions, OneChanged
<1>5. holders' = [holders EXCEPT ![j] = tokens[j] + 1]
  <2>1. \A k \in Job : holders'[k] = IF k = j THEN tokens[j] + 1 ELSE holders[k]
    BY <1>3, MappedJob
  <2>2. QED
    BY <2>1, MappedFunctions, OneChanged
<1>6. winners' = winners /\ ends' = ends
  BY <1>1, <1>3, Mapped, MappedAfter DEF MappedValues, EndOf
<1>7. QED
  BY <1>2, <1>3, <1>4, <1>5, <1>6 DEF Fenced!Grant, tokens, holders, winners, ends

LEMMA CancelAsks ==
  ASSUME IInv, IInv', NEW j \in Job, Cancel(j)
  PROVE  Fenced!AskToStop(j)
<1>1. /\ TypeOK /\ JobInv(j) /\ phase[j] \in {"Pending"} \cup Leased /\ ~cancel_requested[j]
  BY DEF IInv, TypeOK, Cancel, Cancellable
<1>2. ends[j] = "open"
  BY <1>1, MappedJob DEF EndOf
<1>3. /\ cancel_requested' = [cancel_requested EXCEPT ![j] = TRUE]
      /\ phase' = [phase EXCEPT ![j] = IF phase[j] = "Pending" THEN "Cancelled" ELSE "Cancelling"]
      /\ UNCHANGED <<attempts, lease, outcome, next_fencing_token>>
  BY DEF Cancel
<1>4. holders[j] = 0 <=> phase[j] = "Pending"
  BY <1>1, MappedJob DEF JobInv
<1>5. ends' = [ends EXCEPT ![j] = IF holders[j] = 0 THEN "cancelled" ELSE ends[j]]
  <2>1. /\ EndOf(phase'[j]) = IF holders[j] = 0 THEN "cancelled" ELSE ends[j]
        /\ \A k \in Job \ {j} : phase'[k] = phase[k]
    BY <1>1, <1>2, <1>3, <1>4 DEF EndOf, TypeOK
  <2>2. \A k \in Job :
          ends'[k] = IF k = j THEN IF holders[j] = 0 THEN "cancelled" ELSE ends[j] ELSE ends[k]
    BY <2>1, MappedJob
  <2>3. QED
    BY <2>2, MappedFunctions, OneChanged
<1>6. tokens' = tokens /\ holders' = holders /\ winners' = winners
  BY <1>3 DEF tokens, holders, winners
<1>7. QED
  BY <1>1, <1>2, <1>3, <1>5, <1>6 DEF Fenced!AskToStop, tokens, holders, winners, ends

\* Commit, fail and confirm_cancelled finish the job under the latest token.
LEMMA EndFinishes ==
  ASSUME IInv, IInv', NEW j \in Job, NEW n \in DOMAIN attempts[j], HoldsLease(j, n),
         NEW jp \in Terminal, NEW ap \in AttemptPhase, End(j, n, jp, ap),
         jp = "Cancelled" => cancel_requested[j],
         outcome' = IF jp = "Succeeded" THEN [outcome EXCEPT ![j] = n] ELSE outcome
  PROVE  Fenced!Finish(j, EndOf(jp))
<1>1. /\ TypeOK /\ phase[j] \in Leased /\ lease[j] # NoLease
      /\ n = Len(attempts[j]) /\ n # 0
  BY HolderIsLatest
<1>2. /\ ends[j] = "open" /\ holders[j] = n /\ tokens[j] = n
  BY <1>1, MappedJob DEF EndOf
<1>3. /\ phase' = [phase EXCEPT ![j] = jp] /\ lease' = [lease EXCEPT ![j] = NoLease]
      /\ UNCHANGED <<next_fencing_token, cancel_requested>>
  BY DEF End
<1>4. tokens' = tokens
  BY <1>3 DEF tokens
<1>5. \A k \in Job : Len(attempts'[k]) = Len(attempts[k])
  BY <1>4, MappedJob
<1>6. holders' = [holders EXCEPT ![j] = 0]
  <2>1. \A k \in Job : lease'[k] = IF k = j THEN NoLease ELSE lease[k]
    BY <1>1, <1>3 DEF TypeOK
  <2>2. \A k \in Job : holders'[k] = IF k = j THEN 0 ELSE holders[k]
    BY <1>5, <2>1, MappedJob
  <2>3. QED
    BY <2>2, MappedFunctions, OneChanged
<1>7. ends' = [ends EXCEPT ![j] = EndOf(jp)]
  <2>1. \A k \in Job : phase'[k] = IF k = j THEN jp ELSE phase[k]
    BY <1>1, <1>3 DEF TypeOK
  <2>2. \A k \in Job : ends'[k] = IF k = j THEN EndOf(jp) ELSE ends[k]
    BY <2>1, MappedJob
  <2>3. QED
    BY <2>2, MappedFunctions, OneChanged
<1>8. winners' = IF EndOf(jp) = "done" THEN [winners EXCEPT ![j] = holders[j]] ELSE winners
  BY <1>2, Mapped, MappedAfter DEF MappedValues, EndOf
<1>9. EndOf(jp) = "cancelled" => cancel_requested[j]
  BY DEF EndOf
<1>10. QED
  BY <1>1, <1>2, <1>3, <1>4, <1>6, <1>7, <1>8, <1>9
     DEF Fenced!Finish, tokens, holders, winners, ends

\* Expiry takes every job whose lease ran out from its holder.
LEMMA ExpireLoses ==
  ASSUME IInv, IInv', NEW now \in Time, ExpireLeases(now),
         NEW E \in SUBSET Job, E = Expired(now)
  PROVE  Fenced!Lose(E)
<1>1. /\ TypeOK
      /\ \A j \in E : lease[j] # NoLease /\ phase[j] \in Leased /\ Len(attempts[j]) # 0
  BY DEF IInv, JobInv, Expired
<1>2. /\ phase' = [j \in Job |-> IF j \in E THEN AfterExpiry(j) ELSE phase[j]]
      /\ lease' = [j \in Job |-> IF j \in E THEN NoLease ELSE lease[j]]
      /\ UNCHANGED <<outcome, next_fencing_token, cancel_requested>>
  BY DEF ExpireLeases
<1>3. tokens' = tokens
  BY <1>2 DEF tokens
<1>4. \A k \in Job : Len(attempts'[k]) = Len(attempts[k])
  BY <1>3, MappedJob
<1>5. \A j \in E : ends[j] = "open" /\ holders[j] # 0
  BY <1>1, MappedJob DEF EndOf
<1>6. holders' = [j \in Job |-> IF j \in E THEN 0 ELSE holders[j]]
  BY <1>1, <1>2, <1>4, Mapped, MappedAfter DEF MappedValues
<1>7. ends' = [j \in Job |-> IF j \in E /\ cancel_requested[j] THEN "cancelled" ELSE ends[j]]
  <2>1. ASSUME NEW j \in Job
        PROVE  EndOf(phase'[j]) = IF j \in E /\ cancel_requested[j] THEN "cancelled" ELSE ends[j]
    <3>1. CASE j \in E
      BY <1>2, <1>5, <3>1 DEF AfterExpiry, EndOf
    <3>2. CASE j \notin E
      BY <1>2, <3>2, MappedJob
    <3>3. QED
      BY <3>1, <3>2
  <2>2. ends' = [j \in Job |-> EndOf(phase'[j])]
    BY MappedAfter DEF MappedValues
  <2>3. QED
    BY <2>1, <2>2
<1>8. winners' = winners
  BY <1>2, Mapped, MappedAfter DEF MappedValues
<1>9. QED
  BY <1>2, <1>3, <1>5, <1>6, <1>7, <1>8 DEF Fenced!Lose, tokens, holders, winners, ends

LEMMA StepKeepsPromise ==
  ASSUME IInv, IInv', [Next]_vars
  PROVE  [Fenced!Next]_Fenced!vars
<1>1. ASSUME NEW j \in Job, JobStep(j) PROVE [Fenced!Next]_Fenced!vars
  <2>1. ASSUME NEW w \in Worker, NEW now \in Time, Assign(j, w, now)
        PROVE  [Fenced!Next]_Fenced!vars
    BY <2>1, AssignGrants DEF Fenced!Next
  <2>2. ASSUME NEW n \in DOMAIN attempts[j], NEW now \in Time, WorkerCall(j, n, now)
        PROVE  [Fenced!Next]_Fenced!vars
    <3>1. HoldsLease(j, n)
      BY <2>2 DEF WorkerCall, Acknowledge, Heartbeat, Commit, Fail, ConfirmCancelled, Adopt,
                  RecordEvent, HoldsLiveLease
    <3>2. /\ TypeOK /\ JobInv(j) /\ Len(attempts[j]) # 0 /\ lease[j] \in Lease
          /\ phase[j] \in Leased
      BY <3>1, HolderIsLatest
    <3>3. CASE Commit(j, n, now)
      <4>1. Fenced!Finish(j, "done")
        BY <3>1, <3>3, EndFinishes DEF Commit, EndOf
      <4>2. QED
        BY <4>1 DEF Fenced!Next
    <3>4. CASE Fail(j, n, now)
      <4>1. Fenced!Finish(j, "failed")
        BY <3>1, <3>4, EndFinishes DEF Fail, EndOf
      <4>2. QED
        BY <4>1 DEF Fenced!Next
    <3>5. CASE ConfirmCancelled(j, n)
      <4>1. cancel_requested[j]
        BY <3>2, <3>5 DEF ConfirmCancelled, JobInv
      <4>2. Fenced!Finish(j, "cancelled")
        BY <3>1, <3>5, <4>1, EndFinishes DEF ConfirmCancelled, EndOf
      <4>3. QED
        BY <4>2 DEF Fenced!Next
    <3>6. CASE Acknowledge(j, n, now)
      <4>1. \A k \in Job : /\ Len(attempts'[k]) = Len(attempts[k]) /\ lease'[k] = lease[k]
                           /\ EndOf(phase'[k]) = EndOf(phase[k])
        BY <3>2, <3>6, LatestPhaseSet DEF Acknowledge, EndOf, TypeOK
      <4>2. QED
        BY <3>6, <4>1, AbstractStutter DEF Acknowledge
    <3>7. CASE Heartbeat(j, n, now) \/ Adopt(j, n, now)
      <4>1. \A k \in Job : lease'[k] = NoLease <=> lease[k] = NoLease
        BY <3>1, <3>2, <3>7, LeaseExtended DEF Heartbeat, Adopt, HoldsLease
      <4>2. QED
        BY <3>7, <4>1, AbstractStutter DEF Heartbeat, Adopt
    <3>8. ASSUME NEW s \in 1..MaxEvents, NEW p \in EventPhase, RecordEvent(j, n, s, p, now)
          PROVE  [Fenced!Next]_Fenced!vars
      <4>1. p \in AttemptPhase
        BY EventPhaseAssumption
      <4>2. \A k \in Job : Len(attempts'[k]) = Len(attempts[k])
        BY <3>2, <3>8, <4>1, LatestPhaseSet DEF RecordEvent
      <4>3. QED
        BY <3>8, <4>2, AbstractStutter DEF RecordEvent
    <3>9. QED
      BY <2>2, <3>3, <3>4, <3>5, <3>6, <3>7, <3>8 DEF WorkerCall
  <2>3. CASE Cancel(j)
    BY <2>3, CancelAsks DEF Fenced!Next
  <2>4. CASE Submit(j)
    <3>1. \A k \in Job : EndOf(phase'[k]) = EndOf(phase[k])
      BY <2>4 DEF Submit, EndOf, IInv, TypeOK
    <3>2. QED
      BY <2>4, <3>1, AbstractStutter DEF Submit
  <2>5. CASE Place(j)
    BY <2>5, AbstractStutter DEF Place
  <2>6. QED
    BY <1>1, <2>1, <2>2, <2>3, <2>4, <2>5 DEF JobStep
<1>2. ASSUME NEW now \in Time, ExpireLeases(now) PROVE [Fenced!Next]_Fenced!vars
  <2>1. PICK E \in SUBSET Job : E = Expired(now)
    BY DEF Expired
  <2>2. Fenced!Lose(E)
    BY <1>2, <2>1, ExpireLoses
  <2>3. QED
    BY <2>2 DEF Fenced!Next
<1>3. CASE Open \/ \E w \in Worker, inc \in 1..MaxIncarnation, desc \in Descriptor :
                     RegisterWorker(w, inc, desc)
  BY <1>3, AbstractStutter DEF Open, RegisterWorker
<1>4. CASE UNCHANGED vars
  BY <1>4, AbstractStutter DEF vars
<1>5. QED
  BY <1>1, <1>2, <1>3, <1>4 DEF Next

LEMMA InitKeepsPromise == Init => Fenced!Init
<1> SUFFICES ASSUME Init PROVE Fenced!Init
  OBVIOUS
<1>1. /\ tokens = [j \in Job |-> 0] /\ holders = [j \in Job |-> 0]
      /\ winners = [j \in Job |-> 0] /\ ends = [j \in Job |-> "open"]
  BY DEF Init, tokens, holders, winners, ends
<1>2. QED
  BY <1>1 DEF Init, Fenced!Init, tokens, holders, winners, ends

\* The coordinator implements FencedJobs: its calls, restarts and clocks show
\* nothing that the promise does not allow.
THEOREM FleetKeepsPromise == Spec => FencedSpec
<1>1. Spec => Fenced!Init /\ [][Fenced!Next]_Fenced!vars
  BY InitKeepsPromise, StepKeepsPromise, FleetInv, PTL DEF Spec
<1>2. QED
  BY <1>1 DEF FencedSpec, Fenced!Spec
=============================================================================
