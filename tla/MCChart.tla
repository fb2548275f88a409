------------------------------ MODULE MCChart -------------------------------
(* Two strategies of three tests and two hazards. *)
EXTENDS Chart

MCSTRATEGIES == <<"forwarding_stress", "branch_dense">>
=============================================================================
