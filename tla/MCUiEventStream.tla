-------------------------- MODULE MCUiEventStream ---------------------------
(* Four events, a buffer of two, one restart, two faults.                   *)
EXTENDS UiEventStream
=============================================================================
