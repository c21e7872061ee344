--------------------------- MODULE AdmissionLedger ---------------------------
(***************************************************************************)
(* The reservation ledger of live_mutation_admission.py as data: what      *)
(* parse_reservations makes of the rows, and which row may come next.  A   *)
(* ledger is the parsed state of every run, keyed by (tenantId, runNonce). *)
(***************************************************************************)
EXTENDS Integers, Sequences

CONSTANTS
  Runs,    \* the runs that may be presented: one binding each
  Ops,     \* CASES
  Res,     \* the signed manifests
  CaseOf,  \* CaseOf[r]: the one case whose caseResourceDigests holds r
  NoOp,    \* current is None
  NoRes

ASSUME OpsAssumption == NoOp \notin Ops /\ Ops # {}
ASSUME ResAssumption == NoRes \notin Res /\ CaseOf \in [Res -> Ops]

NoEntry == [seen |-> FALSE, held |-> FALSE, current |-> NoOp, done |-> {}, recorded |-> {},
            resources |-> [r \in Res |-> "NONE"]]

EmptyLedger == [n \in Runs |-> NoEntry]

\* The ledger fields of a row; `remaining' is the cleanup receipt's list.
Rows == [state : {"RESERVED", "RUNNING", "CREATE_INTENT", "CREATED", "RECORDED"},
         run : Runs, op : Ops \cup {NoOp}, res : Res \cup {NoRes}, remaining : SUBSET Res]

\* The resources an entry holds for one operation.
ResourcesOf(e, op) == {r \in Res : e.resources[r] # "NONE" /\ CaseOf[r] = op}

\* _create_record: the manifest is assigned to this very case.
OwnedByCase(w) == w.res \in Res /\ CaseOf[w.res] = w.op

\* _resource_transition: one open intent at a time, one row pair per resource.
ResourceAccepted(e, w) ==
  /\ w.op = e.current
  /\ w.op \notin e.recorded
  /\ OwnedByCase(w)
  /\ \/ /\ w.state = "CREATE_INTENT"
        /\ \A r \in Res : e.resources[r] # "CREATE_INTENT"
        /\ e.resources[w.res] = "NONE"
     \/ /\ w.state = "CREATED"
        /\ e.resources[w.res] = "CREATE_INTENT"

\* Mutant of RecordedAccepted: the receipt's own list is believed.
RecordedBelieved(e, w) ==
  /\ w.state = "RECORDED"
  /\ e.current = w.op

\* A RECORDED row lists everything the operation may have left behind.
RecordedAccepted(e, w) ==
  /\ w.state = "RECORDED"
  /\ e.current = w.op
  /\ ResourcesOf(e, w.op) # {} => w.remaining = ResourcesOf(e, w.op)

\* Mutant of RowAccepted: a reservation ignores the capacity others hold.
RowAcceptedShared(ledger, w) ==
  LET e == ledger[w.run]
  IN  \/ /\ w.state = "RESERVED"
         /\ ~e.seen
      \/ /\ e.seen /\ e.held
         /\ w.op \in Ops
         /\ \/ /\ w.state = "RUNNING"
               /\ e.current = NoOp
               /\ w.op \notin e.done
            \/ ResourceAccepted(e, w)
            \/ RecordedAccepted(e, w)

\* Mutant of RowAccepted: an operation may run again.
RowAcceptedAgain(ledger, w) ==
  LET e == ledger[w.run]
  IN  \/ /\ w.state = "RESERVED"
         /\ ~e.seen
         /\ \A n \in Runs : ~ledger[n].held
      \/ /\ e.seen /\ e.held
         /\ w.op \in Ops
         /\ \/ w.state = "RUNNING" /\ e.current = NoOp
            \/ ResourceAccepted(e, w)
            \/ RecordedAccepted(e, w)

\* parse_reservations goes on past row w.
RowAccepted(ledger, w) ==
  LET e == ledger[w.run]
  IN  \/ /\ w.state = "RESERVED"
         /\ ~e.seen
         /\ \A n \in Runs : ~ledger[n].held
      \/ /\ e.seen /\ e.held
         /\ w.op \in Ops
         /\ \/ /\ w.state = "RUNNING"
               /\ e.current = NoOp
               /\ w.op \notin e.done
            \/ ResourceAccepted(e, w)
            \/ RecordedAccepted(e, w)

\* What the row makes of its run.  Capacity is released by the last CLEAN.
EntryAfter(e, w) ==
  CASE w.state = "RESERVED" -> [NoEntry EXCEPT !.seen = TRUE, !.held = TRUE]
    [] w.state = "RUNNING" -> [e EXCEPT !.current = w.op, !.done = @ \cup {w.op}]
    [] w.state = "RECORDED" ->
         [e EXCEPT !.recorded = @ \cup {w.op},
                   !.current = IF w.remaining = {} THEN NoOp ELSE w.op,
                   !.held = e.done # Ops \/ w.remaining # {}]
    [] OTHER -> [e EXCEPT !.resources[w.res] = w.state]

AfterRow(ledger, w) == [ledger EXCEPT ![w.run] = EntryAfter(@, w)]
============================================================================
