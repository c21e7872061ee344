---------------------------- MODULE MCStatusPage ----------------------------
(* Instance of StatusPage for TLC: the reads may run out, so it may stop. *)
EXTENDS StatusPage
=============================================================================
