-------------------------------- MODULE MCRpc --------------------------------
(* Instances of RpcService for TLC: the cfgs give connections, keys, threads,   *)
(* the limits and the bounds.                                                   *)
EXTENDS RpcService, TLC

\* Every storage operation that may fail.
AllFail == {"read", "write", "remove", "complete", "append"}
=============================================================================
