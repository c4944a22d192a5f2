---------------------------- MODULE SessionLedger ----------------------------
(* The ledger of a session, rust/session and rust/cli/reports/sessions: an      *)
(* append-only transcript of parent-linked events beside a state file, and the  *)
(* pending file actions recorded in it.  A thread is one caller of these        *)
(* functions; a process holds one append lock for all of its threads, and       *)
(* another jeden process on the same session has its own.                       *)
EXTENDS Naturals, FiniteSets, SequencesExt

CONSTANTS Thread, Process, ProcessOf,  \* ProcessOf[t] is the process of thread t
          Ops,             \* Ops[t] is the set of operations thread t performs
          Pending,         \* identities of pending actions, one preview each
          Tears,           \* what a failed write leaves: "nothing", "torn", "bare"
          None,
          MaxLines, MaxEach, MaxFailures, MaxEdits   \* bounds: lines in all, plain
                           \* ones of a thread, failures, outside edits

ASSUME ThreadAssumption ==
  /\ ProcessOf \in [Thread -> Process]
  /\ None \notin Thread \cup Pending
  /\ Tears \subseteq {"nothing", "torn", "bare"}
  /\ MaxLines \in Nat \ {0} /\ MaxEach \in Nat /\ MaxFailures \in Nat /\ MaxEdits \in Nat

VARIABLES lines,    \* the transcript's terminated lines, and a last complete bare one
          tail,     \* how the transcript ends: "ended", "torn", or "bare"
          legacy,   \* whether lines of an older format are among them
          temps,    \* processes whose migration file exists
          lock,     \* the thread that holds each process's append lock
          made,     \* identities given to pending actions so far, each once
          payload,  \* pending actions whose payload file exists
          target,   \* what the target file holds: "base", "edit", or a pending action
          pc, call, \* the place of each thread, and its call in hand
          got,      \* what each thread read of the transcript for its append
          failures, edits,   \* failures and outside edits so far
          applied,  \* how often each pending action replaced the target
          overlapped \* history: two processes were in a deciding append at once

vars == <<lines, tail, legacy, temps, lock, made, payload, target, pc, call, got,
          failures, edits, applied, overlapped>>

\* An event names its parent by id; an id is the place it was made for and its maker.
Id == (1..MaxLines) \X (Thread \cup {None})
NoId == <<0, None>>
Kind == {"entry", "checkpoint", "rewind", "preview", "claim", "apply", "discard"}
Event == [id : Id, parent : Id \cup {NoId}, kind : Kind, from : Id \cup {NoId},
          pending : Pending \cup {None}, expect : {"base", "edit", "none"} \cup Pending]
Malformed == [kind |-> "malformed"]

Leaf(s) == IF s = <<>> THEN NoId ELSE Last(s).id
At(s, id) == {i \in DOMAIN s : s[i].id = id}

\* The places of the events on the path from the last event back to the first.
Lineage(s) ==
  LET path[i \in 0..Len(s)] ==
        IF i = 0 THEN {} ELSE {i} \cup UNION {path[j] : j \in {k \in At(s, s[i].parent) : k < i}}
  IN  path[Len(s)]

\* The check a line passes against the events before it.
ValidNext(s, e) ==
  /\ e.id[1] = Len(s) + 1
  /\ IF e.kind = "rewind"
     THEN /\ e.from = Leaf(s)
          /\ \E i \in Lineage(s) : s[i].id = e.parent /\ s[i].kind = "checkpoint"
     ELSE e.parent = Leaf(s)

\* The transcript reads when every line is an event that follows those before it.
Readable == /\ \A i \in DOMAIN lines : lines[i] # Malformed
            /\ \A i \in DOMAIN lines : ValidNext(SubSeq(lines, 1, i - 1), lines[i])

On(s, places, kinds, p) == \E i \in places : s[i].kind \in kinds /\ s[i].pending = p
Everywhere(s) == DOMAIN s

\* A pending action is settled for a new claim or discard; resolved for good.
PendingTerminalUnclaimed(p) == On(lines, Everywhere(lines), {"apply", "discard"}, p)
PendingTerminal(p) == On(lines, Everywhere(lines), {"claim", "apply", "discard"}, p)
PendingResolved(s, places, p) == On(s, places, {"apply", "discard"}, p)
UnresolvedClaimNever(s, places) == FALSE
UnresolvedClaim(s, places) ==
  \E p \in Pending : On(s, places, {"claim"}, p) /\ ~PendingResolved(s, places, p)

NoCall == [op |-> "none", pending |-> None, checkpoint |-> NoId, expect |-> "none"]
Call(op, p) == [NoCall EXCEPT !.op = op, !.pending = p]

\* A new session, or one that an older build left with an event of its format.
Older == [id |-> <<1, None>>, parent |-> NoId, kind |-> "entry", from |-> NoId,
          pending |-> None, expect |-> "none"]

Init ==
  /\ legacy \in BOOLEAN /\ lines = IF legacy THEN <<Older>> ELSE <<>>
  /\ tail = "ended" /\ temps = {}
  /\ lock = [r \in Process |-> None]
  /\ made = {} /\ payload = {} /\ target = "base"
  /\ pc = [t \in Thread |-> "idle"] /\ call = [t \in Thread |-> NoCall]
  /\ got = [t \in Thread |-> <<>>]
  /\ failures = 0 /\ edits = 0
  /\ applied = [p \in Pending |-> 0] /\ overlapped = FALSE

Lock(t) == lock[ProcessOf[t]] = None /\ lock' = [lock EXCEPT ![ProcessOf[t]] = t]
Unlock(t) == lock' = [lock EXCEPT ![ProcessOf[t]] = IF @ = t THEN None ELSE @]

Go(t, place) == pc' = [pc EXCEPT ![t] = place]
disk == <<lines, tail, legacy, temps, made, payload, target>>
counts == <<failures, edits, applied>>
Forget(t) == got' = [got EXCEPT ![t] = <<>>]

\* The call ends, its lock freed with its guard.
Return(t) ==
  /\ Go(t, "idle") /\ Unlock(t)
  /\ call' = [call EXCEPT ![t] = NoCall] /\ Forget(t)

-----------------------------------------------------------------------------
(* Beginning a call: under the lock the transcript is parsed and the call is    *)
(* checked against it; a refused call frees the lock and changes nothing, so it *)
(* is no step here.                                                             *)
Begin(t, c) ==
  /\ Lock(t) /\ Go(t, "read")
  /\ call' = [call EXCEPT ![t] = c]
  /\ UNCHANGED <<disk, counts, got>>

\* A plain entry, or a checkpoint, which parse nothing before the append.
BeginAppend(t, op) ==
  /\ pc[t] = "idle" /\ op \in Ops[t] \cap {"entry", "checkpoint"}
  /\ Cardinality({i \in DOMAIN lines : lines[i].kind = op /\ lines[i].id[2] = t}) < MaxEach
  /\ Begin(t, Call(op, None))

\* A rewind to a checkpoint of the active lineage.
BeginRewind(t) ==
  /\ pc[t] = "idle" /\ "rewind" \in Ops[t] /\ Readable
  /\ ~UnresolvedClaim(lines, Lineage(lines))
  /\ \E i \in Lineage(lines) :
       /\ lines[i].kind = "checkpoint"
       /\ Begin(t, [Call("rewind", None) EXCEPT !.checkpoint = lines[i].id])

\* A preview is made from what the target holds; create_pending_action writes its
\* payload before it takes the lock.
WritePayload(t, p) ==
  /\ pc[t] = "idle" /\ "pending" \in Ops[t]
  /\ p \notin made /\ made' = made \cup {p}
  /\ payload' = payload \cup {p}
  /\ call' = [call EXCEPT ![t] = [Call("preview", p) EXCEPT !.expect = target]]
  /\ Go(t, "preview")
  /\ UNCHANGED <<lines, tail, legacy, temps, lock, target, counts, got>>

BeginPreview(t) ==
  /\ pc[t] = "preview" /\ Begin(t, call[t])

\* A claim needs the preview on the active lineage, no claim or end of it
\* anywhere, and its payload.
BeginClaim(t, p) ==
  /\ pc[t] = "idle" /\ "pending" \in Ops[t] /\ Readable
  /\ ~PendingTerminal(p)
  /\ p \in payload
  /\ \E i \in Lineage(lines) :
       /\ lines[i].kind = "preview" /\ lines[i].pending = p
       /\ Begin(t, [Call("claim", p) EXCEPT !.expect = lines[i].expect])

BeginDiscardEarly(t, p) ==
  /\ pc[t] = "idle" /\ "pending" \in Ops[t] /\ Readable
  /\ ~PendingTerminal(p) /\ On(lines, Lineage(lines), {"preview"}, p)
  /\ Lock(t) /\ Go(t, "read") /\ payload' = payload \ {p}
  /\ call' = [call EXCEPT ![t] = Call("discard", p)]
  /\ UNCHANGED <<lines, tail, legacy, temps, made, target, counts, got>>

BeginDiscard(t, p) ==
  /\ pc[t] = "idle" /\ "pending" \in Ops[t] /\ Readable
  /\ ~PendingTerminal(p)
  /\ On(lines, Lineage(lines), {"preview"}, p)
  /\ Begin(t, Call("discard", p))

\* What completes a claim whose action took effect.
Completable(p) ==
  /\ Readable
  /\ ~PendingResolved(lines, Everywhere(lines), p)
  /\ On(lines, Lineage(lines), {"claim"}, p)

BeginCompleteUnlocked(t) ==
  /\ pc[t] = "complete" /\ Completable(call[t].pending)
  /\ Go(t, "read") /\ call' = [call EXCEPT ![t].op = "apply"]
  /\ UNCHANGED <<lock, disk, counts, got>>

BeginComplete(t) ==
  /\ pc[t] = "complete" /\ Completable(call[t].pending)
  /\ Begin(t, Call("apply", call[t].pending))

\* The completion is refused: the action took effect and stays unrecorded.
CompleteRefused(t) ==
  /\ pc[t] = "complete" /\ lock[ProcessOf[t]] = None
  /\ ~Completable(call[t].pending)
  /\ Return(t) /\ UNCHANGED <<disk, counts>>

-----------------------------------------------------------------------------
(* The append: read, migrate an older transcript, write the line, mirror.       *)

\* The event a call makes to follow the events s it read.
Sealed(t, s) ==
  [id |-> <<Len(s) + 1, t>>, kind |-> call[t].op,
   parent |-> IF call[t].op = "rewind" THEN call[t].checkpoint ELSE Leaf(s),
   from |-> IF call[t].op = "rewind" THEN Leaf(s) ELSE NoId,
   pending |-> call[t].pending, expect |-> IF call[t].op = "preview" THEN call[t].expect ELSE "none"]

\* The transcript may be appended to: it reads, and its tail was not cut.
Read(t) ==
  /\ pc[t] = "read" /\ Len(lines) < MaxLines
  /\ Readable /\ tail # "torn"
  /\ got' = [got EXCEPT ![t] = lines]
  /\ Go(t, IF legacy THEN "migrate" ELSE "write")
  /\ UNCHANGED <<disk, lock, call, counts>>

\* It may not, or the new event does not follow what was read.
ReadRefused(t) ==
  /\ \/ pc[t] = "read" /\ ~(Readable /\ tail # "torn")
     \/ pc[t] = "write" /\ ~ValidNext(got[t], Sealed(t, got[t]))
  /\ Return(t) /\ UNCHANGED <<disk, counts>>

\* The migration file is created anew; the process's own leftover refuses it.
Migrate(t) ==
  /\ pc[t] = "migrate"
  /\ IF ProcessOf[t] \in temps
     THEN Return(t) /\ UNCHANGED temps
     ELSE /\ temps' = temps \cup {ProcessOf[t]} /\ Go(t, "publish")
          /\ UNCHANGED <<lock, call, got>>
  /\ UNCHANGED <<lines, tail, legacy, made, payload, target, counts>>

\* It is renamed over the transcript and holds the events that were read.
MigratePublished(t) ==
  /\ pc[t] = "publish"
  /\ lines' = got[t] /\ tail' = "ended" /\ legacy' = FALSE
  /\ temps' = temps \ {ProcessOf[t]}
  /\ Go(t, "write")
  /\ UNCHANGED <<lock, made, payload, target, call, counts, got>>

\* One append of the whole line, at the end of whatever the file holds by now:
\* after a line without its newline, or a part of one, it makes one bad line.
Joined(e) ==
  CASE tail = "ended" -> Append(lines, e)
    [] tail = "bare"  -> Append(Front(lines), Malformed)
    [] tail = "torn"  -> Append(lines, Malformed)

WriteLine(t) ==
  /\ pc[t] = "write" /\ ValidNext(got[t], Sealed(t, got[t])) /\ Len(lines) < MaxLines
  /\ lines' = Joined(Sealed(t, got[t])) /\ tail' = "ended"
  /\ Go(t, "mirror")
  /\ UNCHANGED <<legacy, temps, lock, made, payload, target, call, counts, got>>

\* What a write that did not finish leaves behind: nothing, a part of the line, or
\* all of it but its newline.  After a bare line either is a part of one line.
Left(t, how) ==
  CASE how = "nothing" -> UNCHANGED <<lines, tail>>
    [] how = "bare" /\ tail = "ended" -> /\ lines' = Append(lines, Sealed(t, got[t]))
                                        /\ tail' = "bare"
    [] OTHER -> /\ lines' = IF tail = "bare" THEN Front(lines) ELSE lines
                /\ tail' = "torn"

\* What follows the append: a claim goes on to its target, an end of a pending
\* action removes its payload first, everything else returns.
After(t) ==
  CASE call[t].op = "claim" -> /\ Go(t, "claimed") /\ Unlock(t)
                               /\ Forget(t) /\ UNCHANGED call
    [] call[t].op \in {"apply", "discard"} -> Go(t, "remove") /\ Forget(t) /\ UNCHANGED <<lock, call>>
    [] OTHER -> Return(t)

\* The leaf is mirrored into state.json, which nothing here reads.
Mirror(t) ==
  /\ pc[t] = "mirror" /\ After(t)
  /\ UNCHANGED <<disk, counts>>

RemovePayload(t) ==
  /\ pc[t] = "remove"
  /\ payload' = payload \ {call[t].pending}
  /\ Return(t)
  /\ UNCHANGED <<lines, tail, legacy, temps, made, target, counts>>

-----------------------------------------------------------------------------
(* Between its claim and its completion a rewrite holds no lock.                *)

\* The target still holds what the preview was made against.
CheckTarget(t) ==
  /\ pc[t] = "claimed"
  /\ target = call[t].expect
  /\ Go(t, "replace")
  /\ UNCHANGED <<disk, lock, call, counts, got>>

\* Another content, or a target that is refused or cannot be read, ends the call
\* with its claim standing.
CheckRefused(t) ==
  /\ pc[t] = "claimed"
  /\ Return(t) /\ UNCHANGED <<disk, counts>>

Replace(t) ==
  /\ pc[t] = "replace"
  /\ target' = call[t].pending
  /\ applied' = [applied EXCEPT ![call[t].pending] = @ + 1]
  /\ Go(t, "complete")
  /\ UNCHANGED <<lines, tail, legacy, temps, lock, made, payload, call, failures, edits, got>>

-----------------------------------------------------------------------------
\* A call fails: in a write it leaves a part of it, elsewhere what it did so far.
Fail(t) ==
  /\ pc[t] \notin {"idle", "claimed"} /\ failures < MaxFailures
  /\ failures' = failures + 1
  /\ IF pc[t] = "write"
     THEN \E how \in Tears : Len(lines) < MaxLines /\ Left(t, how)
     ELSE UNCHANGED <<lines, tail>>
  /\ Return(t)
  /\ UNCHANGED <<legacy, temps, made, payload, target, edits, applied>>

\* A process is killed, anywhere; its next one has another number, and so another
\* migration file.
Crash(r) ==
  LET gone == {t \in Thread : ProcessOf[t] = r} IN
  /\ failures < MaxFailures /\ \E t \in gone : pc[t] # "idle"
  /\ failures' = failures + 1
  /\ IF \E t \in gone : pc[t] = "write"
     THEN \E t \in gone, how \in Tears : pc[t] = "write" /\ Len(lines) < MaxLines /\ Left(t, how)
     ELSE UNCHANGED <<lines, tail>>
  /\ pc' = [t \in Thread |-> IF t \in gone THEN "idle" ELSE pc[t]]
  /\ call' = [t \in Thread |-> IF t \in gone THEN NoCall ELSE call[t]]
  /\ got' = [t \in Thread |-> IF t \in gone THEN <<>> ELSE got[t]]
  /\ lock' = [lock EXCEPT ![r] = None] /\ temps' = temps \ {r}
  /\ UNCHANGED <<legacy, made, payload, target, edits, applied>>

\* Somebody else changes the target file, or puts back what it held, while a claim
\* is in hand; an earlier change is no different to the claim.
Edit(c) ==
  /\ edits < MaxEdits /\ (\E t \in Thread : pc[t] \in {"claimed", "replace"}) /\ edits' = edits + 1
  /\ target' = c
  /\ UNCHANGED <<lines, tail, legacy, temps, lock, made, payload, pc, call, got,
                 failures, applied>>

Step ==
  \/ \E t \in Thread :
       \/ \E op \in Ops[t] : BeginAppend(t, op)
       \/ \E p \in Pending : WritePayload(t, p) \/ BeginClaim(t, p) \/ BeginDiscard(t, p)
       \/ BeginRewind(t) \/ BeginPreview(t) \/ BeginComplete(t) \/ CompleteRefused(t)
       \/ Read(t) \/ ReadRefused(t) \/ Migrate(t) \/ MigratePublished(t) \/ WriteLine(t)
       \/ Mirror(t) \/ RemovePayload(t)
       \/ CheckTarget(t) \/ CheckRefused(t) \/ Replace(t)
       \/ Fail(t)
  \/ \E r \in Process : Crash(r)
  \/ \E c \in {"base", "edit"} \ {target} : Edit(c)

\* A claim, a discard and a rewind are decided from the transcript and then appended.
\* The lock keeps the threads of one process from doing so at once; nothing keeps two
\* processes from it (a session's own, and `jeden todo continue` or a daemon that
\* opened the same directory).
Deciding(t) == call[t].op \in {"claim", "discard", "rewind"} /\ lock[ProcessOf[t]] = t
Overlap == \E t, u \in Thread : t # u /\ Deciding(t) /\ Deciding(u)

Next == Step /\ overlapped' = (overlapped \/ Overlap')

Spec == Init /\ [][Next]_vars

-----------------------------------------------------------------------------
Places == {"idle", "preview", "read", "migrate", "publish", "write", "mirror",
           "remove", "claimed", "replace", "complete"}

\* The types of the variables; a thread in an append holds its process's lock.
TypeOK ==
  /\ \A i \in DOMAIN lines : lines[i] = Malformed \/ lines[i] \in Event
  /\ tail \in {"ended", "torn", "bare"} /\ legacy \in BOOLEAN
  /\ temps \subseteq Process /\ payload \subseteq Pending
  /\ target \in {"base", "edit"} \cup Pending
  /\ pc \in [Thread -> Places] /\ overlapped \in BOOLEAN
  /\ lock \in [Process -> Thread \cup {None}]
  /\ \A t \in Thread : pc[t] \in {"read", "migrate", "publish", "write", "remove"}
                         => lock[ProcessOf[t]] = t

\* A pending action replaces its target at most once, and never after it was
\* discarded: whatever is claimed again, rewound over, or retried after a failure, in
\* any process, as long as no two processes decided at once.
AppliedOnce ==
  ~overlapped => \A p \in Pending :
    /\ applied[p] <= 1
    /\ applied[p] = 1 => ~On(lines, DOMAIN lines, {"discard"}, p)

\* A claim nobody has resolved stays on the active lineage of a transcript that
\* reads, so that its completion can be recorded: no rewind leaves it behind, of its
\* own process or of one that did not decide at the same time.
ClaimOnLineage ==
  Readable /\ ~overlapped => \A p \in Pending :
    On(lines, DOMAIN lines, {"claim"}, p) /\ ~PendingResolved(lines, DOMAIN lines, p)
      => On(lines, Lineage(lines), {"claim"}, p)

\* In a transcript that reads, a preview that can still be claimed has its payload on disk, wherever its
\* writer, or whoever ended another one, failed or was killed.
PreviewHasPayload ==
  Readable => \A p \in Pending :
    On(lines, DOMAIN lines, {"preview"}, p) /\ ~PendingTerminal(p) => p \in payload

\* What sessions.mjs promises of a cut transcript: it is read up to its last valid
\* event.  A line that lost only its newline makes the next append unreadable.
HistoryReads == Readable
=============================================================================
