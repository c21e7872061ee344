--------------------------- MODULE ReplayStates ----------------------------
(* The states of a nonce and their edges: the tables of live_replay_store.py. *)

TERMINAL == {"COMPLETED", "FAILED", "CANCELLED", "EXPIRED"}
States == {"RESERVED", "RUNNING"} \cup TERMINAL

\* The states that may follow a state in one nonce's history.
EDGES == [s \in States |->
            IF s = "RESERVED" THEN {"RUNNING", "FAILED", "CANCELLED", "EXPIRED"}
            ELSE IF s = "RUNNING" THEN TERMINAL
            ELSE {}]
============================================================================
