------------------------------- MODULE MCRpc --------------------------------
(* The instance of RpcChannel that TLC checks. *)
EXTENDS RpcChannel
=============================================================================
