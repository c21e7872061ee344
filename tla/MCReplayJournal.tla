-------------------------- MODULE MCReplayJournal --------------------------
(* Two processes, two bindings that share a nonce and one that does not.   *)
EXTENDS ReplayJournal, TLC

CONSTANTS p1, p2, b1, b2, b3, n1, n2

MCProcs == {p1, p2}
MCBindings == {b1, b2, b3}
MCKeyOf == (b1 :> n1) @@ (b2 :> n1) @@ (b3 :> n2)
MCNotBefore == (b1 :> 0) @@ (b2 :> 0) @@ (b3 :> 1)
MCNotAfter == (b1 :> 1) @@ (b2 :> 2) @@ (b3 :> 2)
ProcSymmetry == Permutations(MCProcs)
============================================================================
