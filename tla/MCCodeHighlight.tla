-------------------------- MODULE MCCodeHighlight ---------------------------
(* Two fences, three codes and a cache of two, so that an entry is evicted. *)
EXTENDS CodeHighlight
=============================================================================
