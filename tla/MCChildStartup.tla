--------------------------- MODULE MCChildStartup ---------------------------
(* The confined tree of one session: the instance has no parameters. *)
EXTENDS ChildStartup
=============================================================================
