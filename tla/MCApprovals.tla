---------------------------- MODULE MCApprovals -----------------------------
(* One call starts the work codex asks about; the second restarts codex.    *)
EXTENDS Approvals
=============================================================================
