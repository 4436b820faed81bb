--------------------------- MODULE MCMessageList ----------------------------
(* Two or three turns when the thread is opened, the last of which may run, *)
(* then one more sent here or from another tab; pages of two and three      *)
(* loads: a first page and two older ones, or one of them asked for twice.  *)
EXTENDS MessageList
=============================================================================
