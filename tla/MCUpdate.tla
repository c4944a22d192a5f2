------------------------------ MODULE MCUpdate ------------------------------
(* Instances of UpdateTransaction for TLC: the cfgs give the updaters, the    *)
(* releases and the bounds on runs, stops and power losses.                   *)
EXTENDS UpdateTransaction, TLC

\* Updaters are interchangeable.
Symmetry == Permutations(Updater)
=============================================================================
