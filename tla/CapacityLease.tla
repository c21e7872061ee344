---------------------------- MODULE CapacityLease ----------------------------
(***************************************************************************)
(* What the reservation ledger and the proxy server promise of the one     *)
(* capacity slot, without ledger rows, servers, crashes or power losses: a *)
(* run gets the slot once, performs every operation at most once and one   *)
(* after another, touches the cluster only while it holds the slot, and    *)
(* gives it back when every operation is known to have left nothing.  A    *)
(* run that does not get that far keeps the slot for good.                 *)
(***************************************************************************)
CONSTANTS Runs, Ops

VARIABLES
  holders,   \* runs that hold the slot
  spent,     \* runs that have ever held it
  begun,     \* operations begun: pairs of a run and an operation
  working,   \* operations at work
  exposed,   \* operations of which something exists or may come to exist
  clean      \* operations known to have left nothing

vars == <<holders, spent, begun, working, exposed, clean>>

Init ==
  /\ holders = {} /\ spent = {}
  /\ begun = {} /\ working = {} /\ exposed = {} /\ clean = {}

Open(n, op) == n \in holders /\ <<n, op>> \in begun \ clean

Acquire(n) ==
  /\ holders = {} /\ n \notin spent
  /\ holders' = {n}
  /\ spent' = spent \cup {n}
  /\ UNCHANGED <<begun, working, exposed, clean>>

Begin(n, op) ==
  /\ n \in holders
  /\ <<n, op>> \notin begun
  /\ \A o \in Ops : ~Open(n, o)
  /\ begun' = begun \cup {<<n, op>>}
  /\ UNCHANGED <<holders, spent, working, exposed, clean>>

Work(n, op) ==
  /\ Open(n, op) /\ working = {}
  /\ working' = {<<n, op>>}
  /\ UNCHANGED <<holders, spent, begun, exposed, clean>>

Rest ==
  /\ working' = {}
  /\ UNCHANGED <<holders, spent, begun, exposed, clean>>

Expose(n, op) ==
  /\ Open(n, op) /\ working = {<<n, op>>}
  /\ exposed' = exposed \cup {<<n, op>>}
  /\ UNCHANGED <<holders, spent, begun, working, clean>>

\* A request that never took effect.
Vanish(n, op) ==
  /\ exposed' = exposed \ {<<n, op>>}
  /\ UNCHANGED <<holders, spent, begun, working, clean>>

\* The last clean operation gives the slot back; another run may have it by
\* the time this is known for certain.
Finish(n, op) ==
  /\ Open(n, op)
  /\ working = {} /\ <<n, op>> \notin exposed
  /\ clean' = clean \cup {<<n, op>>}
  /\ LET released == \A o \in Ops : <<n, o>> \in clean'
     IN  \/ /\ holders' = IF released THEN {} ELSE holders
            /\ UNCHANGED spent
         \/ /\ released
            /\ \E m \in Runs \ spent : holders' = {m} /\ spent' = spent \cup {m}
  /\ UNCHANGED <<begun, working, exposed>>

Next ==
  \/ Rest
  \/ \E n \in Runs : Acquire(n)
  \/ \E n \in Runs, op \in Ops :
       Begin(n, op) \/ Work(n, op) \/ Expose(n, op) \/ Vanish(n, op) \/ Finish(n, op)

Spec == Init /\ [][Next]_vars
============================================================================
