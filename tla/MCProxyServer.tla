---------------------------- MODULE MCProxyServer ----------------------------
(* Two server processes, two runs, two cases with a resource each. *)
EXTENDS ProxyServer, TLC

CONSTANTS s1, s2, n1, n2, o1, o2, r1, r2

MCServers == {s1, s2}
MCRuns == {n1, n2}
MCOps == {o1, o2}
MCRes == {r1, r2}
MCCaseOf == (r1 :> o1) @@ (r2 :> o2)

\* Servers differ in nothing but their name, and so do the two cases with their
\* resources; only safety is checked.
MCSymmetry ==
  Permutations(MCServers) \cup {(o1 :> o2) @@ (o2 :> o1) @@ (r1 :> r2) @@ (r2 :> r1)}
============================================================================
