------------------------- MODULE MCBrokerTranscript -------------------------
(* Two actions, a receipt of at most two chunks, a transcript of at most   *)
(* eight frames: a full exchange with two actions, or with two chunks.     *)
EXTENDS BrokerTranscript, TLC

CONSTANTS a1, a2, m1, m2, e1, e2, d1, d2

MCActionIds == {a1, a2}
MCExecutions == {e1, e2}
MCData == {d1, d2}
MCReceipts == {<<d>> : d \in MCData} \cup {<<d, e>> : d, e \in MCData}
Symmetry == {f @@ g @@ h : f \in Permutations(MCActionIds),
                           g \in Permutations(MCExecutions), h \in Permutations(MCData)}
============================================================================
