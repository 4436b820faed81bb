-------------------------- MODULE MCPromptComposer --------------------------
(* Two turns POSTed at most, beside a GET with its attempts.                *)
EXTENDS PromptComposer
=============================================================================
