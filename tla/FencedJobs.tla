----------------------------- MODULE FencedJobs -----------------------------
(***************************************************************************)
(* What a coordinator promises of its jobs, without workers, clocks, calls *)
(* or restarts: a job is held under one token at a time, every grant takes *)
(* a token larger than all before it, only the holder ends a job with a    *)
(* result, a job asked to stop is never granted again, and an ended job    *)
(* stays as it ended.                                                      *)
(***************************************************************************)
EXTENDS Naturals

CONSTANTS Job

VARIABLES
  token,      \* per job: the largest token granted, 0 before the first
  holder,     \* per job: the token it is held under, 0 when no one holds it
  winner,     \* per job: the token that ended it with its result, or 0
  stopping,   \* per job: whether it was asked to stop
  end         \* per job: "open", "done", "failed" or "cancelled"

vars == <<token, holder, winner, stopping, end>>

Init ==
  /\ token = [j \in Job |-> 0]
  /\ holder = [j \in Job |-> 0]
  /\ winner = [j \in Job |-> 0]
  /\ stopping = [j \in Job |-> FALSE]
  /\ end = [j \in Job |-> "open"]

\* A job that is free, open and not asked to stop is granted under the next token.
Grant(j) ==
  /\ end[j] = "open" /\ holder[j] = 0 /\ ~stopping[j]
  /\ token' = [token EXCEPT ![j] = @ + 1]
  /\ holder' = [holder EXCEPT ![j] = token[j] + 1]
  /\ UNCHANGED <<winner, stopping, end>>

\* The jobs of S lose their holders; those asked to stop end there.
Lose(S) ==
  /\ \A j \in S : end[j] = "open" /\ holder[j] # 0
  /\ holder' = [j \in Job |-> IF j \in S THEN 0 ELSE holder[j]]
  /\ end' = [j \in Job |-> IF j \in S /\ stopping[j] THEN "cancelled" ELSE end[j]]
  /\ UNCHANGED <<token, winner, stopping>>

\* The holder ends the job.
Finish(j, result) ==
  /\ end[j] = "open" /\ holder[j] = token[j] /\ holder[j] # 0
  /\ result = "cancelled" => stopping[j]
  /\ holder' = [holder EXCEPT ![j] = 0]
  /\ end' = [end EXCEPT ![j] = result]
  /\ winner' = IF result = "done" THEN [winner EXCEPT ![j] = holder[j]] ELSE winner
  /\ UNCHANGED <<token, stopping>>

\* The job is asked to stop; one that no one holds ends at once.
AskToStop(j) ==
  /\ end[j] = "open" /\ ~stopping[j]
  /\ stopping' = [stopping EXCEPT ![j] = TRUE]
  /\ end' = [end EXCEPT ![j] = IF holder[j] = 0 THEN "cancelled" ELSE @]
  /\ UNCHANGED <<token, holder, winner>>

Next ==
  \/ \E j \in Job : Grant(j) \/ AskToStop(j) \/ \E r \in {"done", "failed", "cancelled"} : Finish(j, r)
  \/ \E S \in SUBSET Job : Lose(S)

Spec == Init /\ [][Next]_vars
=============================================================================
