----------------------------- MODULE MCCompletion -----------------------------
(* Instances of CompletionLedger for TLC: the cfgs give sessions, ids, words    *)
(* and the bounds.                                                              *)
EXTENDS CompletionLedger, TLC

CONSTANTS Main, MainRevisions, ChildRevisions

\* One session is written more often than the others.
Revisions == [s \in Session |-> IF s = Main THEN MainRevisions ELSE ChildRevisions]

\* Ids of tasks and of asks, and words, are interchangeable.
Symmetry == Permutations(Task) \cup Permutations(Ask) \cup Permutations(Word)
=============================================================================
