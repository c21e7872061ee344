---------------------------- MODULE MCSupervisor ----------------------------
(* Two threads, two cases, one binding presented to up to two processes. *)
EXTENDS Supervisor

CONSTANTS t1, t2, c1, c2

MCThreads == {t1, t2}
MCCases == {c1, c2}
============================================================================
