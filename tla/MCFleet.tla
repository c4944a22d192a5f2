------------------------------- MODULE MCFleet -------------------------------
(* Instances of FleetCoordinator for TLC: the cfgs give jobs, workers, what     *)
(* workers declare, and the bounds.                                             *)
EXTENDS FleetCoordinator, TLC

\* A worker with one slot that fits every job and holds no input.
OneSlot == {[max_parallel |-> 1, fits |-> Job, cas_objects |-> {}]}

\* Workers that grow, shrink to nothing, or come to hold the inputs.
Changing ==
  {[max_parallel |-> w[1], fits |-> Job, cas_objects |-> w[2]] : w \in {<<0, {}>>, <<2, {}>>, <<2, Job>>}}
=============================================================================
