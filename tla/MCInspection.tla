---------------------------- MODULE MCInspection ----------------------------
(* Instance of Inspection for TLC. *)
EXTENDS Inspection
=============================================================================
