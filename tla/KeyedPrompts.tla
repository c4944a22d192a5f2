---------------------------- MODULE KeyedPrompts ----------------------------
(***************************************************************************)
(* What the daemon promises under an idempotency key, without callers,     *)
(* threads, queues, quotas or records: a key belongs to one request at a   *)
(* time, it is given up only before its request was prompted, the request  *)
(* is prompted once, and every answer to a retry is that request's result, *)
(* which once on disk stays there.                                         *)
(***************************************************************************)
EXTENDS Naturals

CONSTANTS Key

VARIABLES
  drawn,     \* the number of the request drawn last; numbers are not used again
  holder,    \* per key: the request it belongs to, 0 when it is free
  prompted,  \* per key: the requests prompted
  result,    \* per key: where its request's result is, "none", "memory" or "disk"
  given      \* per key: the requests whose result was the answer to a retry

vars == <<drawn, holder, prompted, result, given>>

Init ==
  /\ drawn = 0
  /\ holder = [k \in Key |-> 0]
  /\ prompted = [k \in Key |-> {}]
  /\ result = [k \in Key |-> "none"]
  /\ given = [k \in Key |-> {}]

\* A call draws a request and comes to nothing, or to another's.
Draw ==
  /\ drawn' = drawn + 1
  /\ UNCHANGED <<holder, prompted, result, given>>

\* A free key goes to a request drawn for it.
Hold(k) ==
  /\ holder[k] = 0
  /\ drawn' = drawn + 1
  /\ holder' = [holder EXCEPT ![k] = drawn + 1]
  /\ UNCHANGED <<prompted, result, given>>

\* Its request is refused before anything was prompted under it.
Free(k) ==
  /\ holder[k] # 0 /\ prompted[k] = {}
  /\ holder' = [holder EXCEPT ![k] = 0]
  /\ UNCHANGED <<drawn, prompted, result, given>>

Prompt(k) ==
  /\ holder[k] # 0 /\ prompted[k] = {}
  /\ prompted' = [prompted EXCEPT ![k] = {holder[k]}]
  /\ UNCHANGED <<drawn, holder, result, given>>

\* The prompt has its result.
Finish(k, place) ==
  /\ prompted[k] # {} /\ result[k] # "disk"
  /\ result' = [result EXCEPT ![k] = place]
  /\ UNCHANGED <<drawn, holder, prompted, given>>

\* A retry is answered with it; the call may have drawn a request of its own.
Give(k) ==
  /\ result[k] # "none"
  /\ given' = [given EXCEPT ![k] = @ \cup {holder[k]}]
  /\ drawn' \in {drawn, drawn + 1}
  /\ UNCHANGED <<holder, prompted, result>>

\* The daemon stops: a result it had only in memory is gone.
Stop ==
  /\ result' = [k \in Key |-> IF result[k] = "memory" THEN "none" ELSE result[k]]
  /\ UNCHANGED <<drawn, holder, prompted, given>>

Next ==
  \/ Draw \/ Stop
  \/ \E k \in Key : Hold(k) \/ Free(k) \/ Prompt(k) \/ Give(k)
                    \/ \E place \in {"memory", "disk"} : Finish(k, place)

Spec == Init /\ [][Next]_vars
=============================================================================
