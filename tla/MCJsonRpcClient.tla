-------------------------- MODULE MCJsonRpcClient ---------------------------
(* Two concurrent calls, up to three attempts each, one or two crashes.     *)
EXTENDS JsonRpcClient
=============================================================================
