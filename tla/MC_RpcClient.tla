----------------------------- MODULE MC_RpcClient -----------------------------
(* Model-checking instance of RpcClient: a caller making two calls, so that *)
(* every helper meets every transport, status and body in each position.   *)
EXTENDS RpcClient

MC_MaxCalls == 2
=============================================================================
