---------------------------- MODULE MCChatTurns -----------------------------
(* Two threads, of which any may exist at first.                            *)
EXTENDS ChatTurns
=============================================================================
