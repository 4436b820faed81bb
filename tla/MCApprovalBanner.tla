-------------------------- MODULE MCApprovalBanner --------------------------
(* Two interchangeable pages that decide two requests, each of which may be *)
(* clicked again or elsewhere, while codex exits and is started anew.       *)
EXTENDS ApprovalBanner, TLC

Symmetry == Permutations(Pages)
=============================================================================
