------------------------------ MODULE MCSession ------------------------------
(* Instances of SessionLedger for TLC: the threads of a session's process, a    *)
(* second process, what each of them does, and the bounds.                      *)
EXTENDS SessionLedger, TLC
CONSTANTS a1, a2, b1, here, there

\* A session of one thread; one of two, and another process on the same session.
OneThread == a1 :> here
TwoProcesses == a1 :> here @@ a2 :> here @@ b1 :> there

\* The other process, a `jeden todo continue` or a daemon that opened the session's
\* directory, does everything; so do the session's own threads, but that every
\* checkpoint is the other process's.
AllOps == [t \in {a1, a2} |-> {"rewind", "pending"}] @@ b1 :> {"checkpoint", "rewind", "pending"}
Appends == a1 :> {"entry"}

AllTears == {"nothing", "torn", "bare"}

\* The session's two threads are interchangeable.
Symmetry == Permutations({a1, a2})
=============================================================================
