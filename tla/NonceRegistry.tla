--------------------------- MODULE NonceRegistry ---------------------------
(***************************************************************************)
(* What the replay journal promises its callers: every nonce has a status  *)
(* that only ever moves forward, and is granted to at most one session.    *)
(***************************************************************************)
EXTENDS Naturals

CONSTANTS Keys, TERMINAL

VARIABLES
  status,  \* FREE, or the durable state of each nonce
  granted  \* how many sessions each nonce was granted to

vars == <<status, granted>>

Later(s) == IF s = "FREE" THEN {"RESERVED", "RUNNING"} \cup TERMINAL
            ELSE IF s = "RESERVED" THEN {"RUNNING"} \cup TERMINAL
            ELSE IF s = "RUNNING" THEN TERMINAL
            ELSE {}

Init == status = [k \in Keys |-> "FREE"] /\ granted = [k \in Keys |-> 0]

\* History becomes durable: any nonces move forward, none moves back.
Persist ==
  /\ status' \in [Keys -> {"FREE", "RESERVED", "RUNNING"} \cup TERMINAL]
  /\ \A k \in Keys : status'[k] = status[k] \/ status'[k] \in Later(status[k])
  /\ UNCHANGED granted

\* A durably reserved nonce is handed to the one session that may use it.
Grant(k) ==
  /\ granted[k] = 0
  /\ status[k] # "FREE"
  /\ granted' = [granted EXCEPT ![k] = 1]
  /\ UNCHANGED status

Next == Persist \/ \E k \in Keys : Grant(k)

Spec == Init /\ [][Next]_vars
============================================================================
