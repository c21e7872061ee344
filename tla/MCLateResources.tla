-------------------------- MODULE MCLateResources --------------------------
(* Three operations; a credential two directories down. *)
EXTENDS LateResources

CONSTANTS c1, c2, c3

MCCases == {c1, c2, c3}
============================================================================
