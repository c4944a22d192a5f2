------------------------------- MODULE MCTurn --------------------------------
(* Instances of AgentTurn for TLC: the cfgs give the budget and the bounds.     *)
EXTENDS AgentTurn, TLC
=============================================================================
