------------------------- MODULE ProxyServerProofs --------------------------
(***************************************************************************)
(* The proxy server, its capacity broker channel, the transcript of that   *)
(* channel and the reservation ledger, proved for every set of servers,    *)
(* runs, operations and resources, and for every set of actions,           *)
(* manifests, executions and receipts.                                     *)
(*                                                                         *)
(* The servers and the ledger. The flock of admission.lock lets one server *)
(* be up, so a step concerns one server. The ledgers on the way from the   *)
(* disk to the reader are one accepted row apart, at most one row and      *)
(* after it a reservation, and no row takes back what an earlier one says: *)
(* an operation begun, an intent, an identity. An entry keeps as current   *)
(* every operation that has left anything, and a current operation keeps   *)
(* the capacity. Past its reservation a server reads a whole file and      *)
(* between its rows everything is on the disk; so what it does to the      *)
(* cluster, and what it tells the client or the broker, rests on a row no  *)
(* power loss can take.                                                    *)
(*                                                                         *)
(* The processes. What a server holds it acquires under the lock and gives *)
(* back in turn; the lock's turn comes after the channels', and an         *)
(* operation of close that raises does not keep the next from its turn.    *)
(*                                                                         *)
(* The transcript. The parser keeps a handful of fields instead of the     *)
(* frames; each is a function of the frames accepted, and what a field     *)
(* forbids is what would make the frames no transcript.                    *)
(***************************************************************************)
EXTENDS ProxyServer, BrokerTranscript, FiniteSetTheorems, TLAPS

\* What the ledger's entries, the servers and the broker channels may hold.
Marks == {"NONE", "CREATE_INTENT", "CREATED"}
Entries == [seen : BOOLEAN, held : BOOLEAN, current : Ops \cup {NoOp}, done : SUBSET Ops,
            recorded : SUBSET Ops, resources : [Res -> Marks]]
Ledgers == [Runs -> Entries]
Positions == {"down", "boot", "sync", "serving", "execute", "probe", "pass", "fail",
              "finished", "failed"}
ServerStates == [pc : Positions, next : Positions, run : Runs \cup {Down.run}, op : Ops \cup {NoOp}]
Marked == {"none", "sent", "done"}
BrokerStates == [closed : BOOLEAN, dispatch : Marked, pending : Res \cup {NoRes}, chunks : BOOLEAN,
                 api : Marked, intent : Marked, exchange : Marked, created : Marked,
                 result : Marked, retirement : Marked]
Requests == [run : Runs, res : Res]

TypeOK ==
  /\ lock \in Servers \cup {NoServer}
  /\ disk \in Ledgers /\ cached \in Seq(Ledgers)
  /\ torn \in {"no", "cached", "durable"}
  /\ srv \in [Servers -> ServerStates]
  /\ broker \in [Servers -> BrokerStates]
  /\ flight \in SUBSET Requests /\ cluster \in SUBSET Requests /\ results \in SUBSET Requests
  /\ probes \in [Runs -> [Ops -> Nat]]
  /\ posts \in [Res -> Nat]
  /\ replies \in SUBSET [run : Runs, op : Ops, status : {"pass", "fail"}]

\* An entry of the ledger: operations run one after another, and one that has left
\* anything stays the current one, so its run keeps the capacity.
EntryOK(e) ==
  /\ ~e.seen => ~e.held /\ e.done = {}
  /\ e.recorded \subseteq e.done
  /\ e.current # NoOp => e.held /\ e.current \in e.done
  /\ e.done \ {e.current} \subseteq e.recorded
  /\ \A r \in Res : e.resources[r] # "NONE" => e.current = CaseOf[r]

\* A ledger: at most one run holds the capacity.
LedgerOK(L) ==
  \A n \in Runs : EntryOK(L[n]) /\ \A m \in Runs : L[n].held /\ L[m].held => m = n

\* Nothing a ledger says is taken back by a later one.
EntryGrows(e, x) ==
  /\ e.done \subseteq x.done
  /\ \A o \in e.recorded : o # e.current => o \in x.recorded /\ o # x.current
  /\ \A r \in Res : /\ e.resources[r] # "NONE" => x.resources[r] # "NONE"
                    /\ e.resources[r] = "CREATED" => x.resources[r] = "CREATED"
Grows(L, M) == \A n \in Runs : EntryGrows(L[n], M[n])

\* One row apart.
RowStep(L, M) == \E w \in Rows : RowAccepted(L, w) /\ M = AfterRow(L, w)
ReserveStep(L, M) ==
  \E w \in Rows : w.state = "RESERVED" /\ RowAccepted(L, w) /\ M = AfterRow(L, w)

\* The rows no fsync has covered: one, and after it at most a reservation.
ChainInv ==
  /\ Len(cached) <= 2
  /\ Len(cached) >= 1 => RowStep(disk, cached[1])
  /\ Len(cached) = 2 => ReserveStep(cached[1], cached[2])

\* A row that gives or takes nothing of the capacity.
SameEntry(e, x) ==
  (x.held <=> e.held) /\ (x.seen <=> e.seen) /\ x.done = e.done /\ x.recorded = e.recorded
  /\ x.current = e.current
SameLease(L, M) == \A n \in Runs : SameEntry(L[n], M[n])

\* Where a server is, or will be after its sync.
Position(s) == IF srv[s].pc = "sync" THEN srv[s].next ELSE srv[s].pc

\* The flock: who is up holds it, so one server is up.  Past its reservation no
\* fragment is in the file, and between its rows everything is on the disk.
Up(s) ==
  /\ srv[s].pc # "down" => lock = s /\ srv[s].run \in Runs
  /\ srv[s].pc \notin {"down", "boot", "failed"} => torn = "no"
  /\ srv[s].pc \notin {"down", "boot", "failed", "sync"} => cached = <<>>
  /\ srv[s].pc = "sync" => srv[s].next \in {"serving", "execute", "probe", "pass", "fail"}
UpInv == \A s \in Servers : Up(s)

\* What the ledger says of a server's run where the server is.
Place(s) ==
  /\ Position(s) \in {"execute", "probe"} =>
       srv[s].op \in Ops /\ Ledger[srv[s].run].current = srv[s].op
  /\ Position(s) = "execute" => probes[srv[s].run][srv[s].op] = 0
  /\ srv[s].pc = "sync" /\ srv[s].next = "probe" => Len(cached) = 1 /\ SameLease(disk, cached[1])
  /\ Position(s) \in {"pass", "fail"} => srv[s].op \in Ops
  /\ Position(s) = "pass" => /\ srv[s].op \in Ledger[srv[s].run].recorded
                             /\ Ledger[srv[s].run].current = NoOp
PlaceInv == \A s \in Servers : Place(s)

\* The phases of a broker channel b in order ...
PhaseOrder(b) ==
  /\ b.exchange # "none" => b.intent = "done"
  /\ b.created # "none" => b.exchange = "done"
  /\ b.result # "none" => b.created = "done"
  /\ b.retirement # "none" => b.result = "done"
  /\ b.intent # "none" /\ b.retirement = "none" => b.pending \in Res

\* ... and what each phase of server s has left in the ledger and the cluster.
BrokerOK(s, b) ==
  /\ PhaseOrder(b)
  /\ b.intent = "sent" \/ b.created = "sent" => srv[s].pc = "sync"
  /\ b.pending \in Res =>
       /\ b.intent # "none" => Ledger[srv[s].run].resources[b.pending] # "NONE"
       /\ b.exchange = "done" => [run |-> srv[s].run, res |-> b.pending] \in cluster
       /\ b.created # "none" => Ledger[srv[s].run].resources[b.pending] = "CREATED"
  /\ b.intent # "none" /\ b.exchange = "none" => posts[b.pending] = 0
BrokerInv == \A s \in Servers : srv[s].pc \notin {"down", "failed"} => BrokerOK(s, broker[s])

\* What was done is on the disk.
EffectInv ==
  /\ \A f \in flight \cup cluster : disk[f.run].resources[f.res] # "NONE"
  /\ \A f \in results : f \in cluster /\ disk[f.run].resources[f.res] = "CREATED"
  /\ \A p \in replies : p.status = "pass" =>
       p.op \in disk[p.run].recorded /\ disk[p.run].current # p.op
  /\ \A n \in Runs, o \in Ops : probes[n][o] <= 1 /\ (probes[n][o] > 0 => o \in disk[n].done)
  /\ \A r \in Res : posts[r] <= 1 /\ (posts[r] > 0 => \E n \in Runs : disk[n].resources[r] # "NONE")

\* A process at work holds the descriptor of the lock.  One that is closing has it as
\* long as it has a channel, and gives it up without a failure only with the lock.
ProcessOK(s) ==
  /\ closing[s] # "no" => srv[s].pc = "down"
  /\ srv[s].pc # "down" => "lock" \in held[s]
  /\ held[s] # {} => srv[s].pc # "down" \/ closing[s] \in {"running", "failing"}
  /\ held[s] \cap Channels # {} => "lock" \in held[s]
  /\ "lock" \in held[s] => lock = s
  /\ lock = s /\ closing[s] \in {"running", "returned"} => "lock" \in held[s]
ProcessInv ==
  /\ held \in [Servers -> SUBSET DOMAIN Turn]
  /\ closing \in [Servers -> {"no", "running", "failing", "returned", "raised"}]
  /\ \A s \in Servers : ProcessOK(s)

\* The inductive invariant; what the processes hold is a part of its own.
IInv == TypeOK /\ LedgerOK(disk) /\ ChainInv /\ UpInv /\ PlaceInv /\ BrokerInv /\ EffectInv

-----------------------------------------------------------------------------
(* The ledger: what a row does to the entry of its run. *)

\* Append keeps the elements and adds one.
LEMMA AppendFacts ==
    ASSUME NEW S, NEW s \in Seq(S), NEW e \in S
    PROVE  /\ Append(s, e) \in Seq(S) /\ Len(Append(s, e)) = Len(s) + 1
           /\ Append(s, e)[Len(s) + 1] = e
           /\ \A i \in 1..Len(s) : Append(s, e)[i] = s[i]
           /\ Append(s, e) # <<>>
  OBVIOUS

\* A run that has never been presented.
LEMMA NoEntryFacts ==
    /\ NoEntry \in Entries
    /\ ~NoEntry.seen /\ ~NoEntry.held /\ NoEntry.current = NoOp
    /\ NoEntry.done = {} /\ NoEntry.recorded = {} /\ \A r \in Res : NoEntry.resources[r] = "NONE"
  <1>1. FALSE \in BOOLEAN
    BY Zenon
  <1> QED
    BY <1>1 DEF NoEntry, Entries, Marks

\* The fields of an entry after a row, by the row's state.
LEMMA ReservedFields ==
    ASSUME NEW e \in Entries, NEW w \in Rows, w.state = "RESERVED", NEW x, x = EntryAfter(e, w)
    PROVE  /\ x \in Entries
           /\ x.seen /\ x.held /\ x.current = NoOp /\ x.done = {} /\ x.recorded = {}
           /\ \A r \in Res : x.resources[r] = "NONE"
  <1>1. TRUE \in BOOLEAN
    BY Zenon
  <1>2. x = [NoEntry EXCEPT !.seen = TRUE, !.held = TRUE]
    BY DEF EntryAfter
  <1> QED
    BY <1>1, <1>2, NoEntryFacts DEF Entries

\* RUNNING: the operation is begun and current.
LEMMA RunningFields ==
    ASSUME NEW e \in Entries, NEW w \in Rows, w.state = "RUNNING", w.op \in Ops,
           NEW x, x = EntryAfter(e, w)
    PROVE  /\ x \in Entries
           /\ (x.seen <=> e.seen) /\ (x.held <=> e.held) /\ x.current = w.op /\ x.done = e.done \cup {w.op}
           /\ x.recorded = e.recorded /\ x.resources = e.resources
  <1>1. x = [e EXCEPT !.current = w.op, !.done = e.done \cup {w.op}]
    BY DEF EntryAfter, Entries
  <1>2. (x.seen <=> e.seen) /\ (x.held <=> e.held)
    BY <1>1 DEF Entries
  <1>3. x.current = w.op /\ x.done = e.done \cup {w.op}
    BY <1>1 DEF Entries
  <1>4. x.recorded = e.recorded /\ x.resources = e.resources
    BY <1>1 DEF Entries
  <1>5. x \in Entries
    <2>1. e.done \cup {w.op} \in SUBSET Ops
      BY DEF Entries
    <2> QED
      BY <1>1, <2>1 DEF Entries
  <1> QED
    BY <1>2, <1>3, <1>4, <1>5

\* RECORDED: the operation stays current as long as the receipt lists anything, and
\* the capacity is released with the last clean one.
LEMMA RecordedFields ==
    ASSUME NEW e \in Entries, NEW w \in Rows, w.state = "RECORDED", w.op \in Ops,
           NEW x, x = EntryAfter(e, w)
    PROVE  /\ x \in Entries
           /\ (x.seen <=> e.seen) /\ x.done = e.done
           /\ x.held <=> (e.done # Ops \/ w.remaining # {})
           /\ x.recorded = e.recorded \cup {w.op}
           /\ x.current = IF w.remaining = {} THEN NoOp ELSE w.op
           /\ x.resources = e.resources
  <1>2. x = [e EXCEPT !.recorded = e.recorded \cup {w.op},
                      !.current = IF w.remaining = {} THEN NoOp ELSE w.op,
                      !.held = (e.done # Ops \/ w.remaining # {})]
    BY DEF EntryAfter, Entries
  <1>3. (e.done # Ops \/ w.remaining # {}) \in BOOLEAN
    BY Zenon
  <1>4. (x.seen <=> e.seen) /\ x.done = e.done /\ x.resources = e.resources
    BY <1>2 DEF Entries
  <1>5. x.held <=> (e.done # Ops \/ w.remaining # {})
    BY <1>2 DEF Entries
  <1>6. x.recorded = e.recorded \cup {w.op} /\ x.current = IF w.remaining = {} THEN NoOp ELSE w.op
    BY <1>2 DEF Entries
  <1>7. x \in Entries
    <2>1. e.recorded \cup {w.op} \in SUBSET Ops
      BY DEF Entries
    <2>2. (IF w.remaining = {} THEN NoOp ELSE w.op) \in Ops \cup {NoOp}
      OBVIOUS
    <2> QED
      BY <1>2, <1>3, <2>1, <2>2 DEF Entries
  <1> QED
    BY <1>4, <1>5, <1>6, <1>7

\* CREATE_INTENT and CREATED: one resource is marked and nothing else changes.
LEMMA ResourceFields ==
    ASSUME NEW e \in Entries, NEW w \in Rows, w.state \in {"CREATE_INTENT", "CREATED"}, w.res \in Res,
           NEW x, x = EntryAfter(e, w)
    PROVE  /\ x \in Entries /\ SameEntry(e, x)
           /\ x.resources[w.res] = w.state
           /\ \A r \in Res : r # w.res => x.resources[r] = e.resources[r]
  <1>1. x = [e EXCEPT !.resources[w.res] = w.state]
    BY DEF EntryAfter
  <1> QED
    BY <1>1 DEF Entries, Marks, SameEntry

\* A row changes the entry of its run and no other.
LEMMA AfterRowFacts ==
    ASSUME NEW L \in Ledgers, NEW w \in Rows, EntryAfter(L[w.run], w) \in Entries
    PROVE  /\ w.run \in Runs /\ L[w.run] \in Entries
           /\ AfterRow(L, w) \in Ledgers
           /\ AfterRow(L, w)[w.run] = EntryAfter(L[w.run], w)
           /\ \A n \in Runs : n # w.run => AfterRow(L, w)[n] = L[n]
  BY DEF AfterRow, Ledgers, Rows

\* parse_reservations: what a row that it accepts says of the entry before it.
LEMMA AcceptedFacts ==
    ASSUME NEW L \in Ledgers, NEW w \in Rows, RowAccepted(L, w), NEW e, e = L[w.run]
    PROVE  /\ e \in Entries /\ w.run \in Runs
           /\ w.state = "RESERVED" => ~e.seen /\ \A n \in Runs : ~L[n].held
           /\ w.state # "RESERVED" => e.seen /\ e.held /\ w.op \in Ops
           /\ w.state = "RUNNING" => e.current = NoOp /\ w.op \notin e.done
           /\ w.state = "RECORDED" =>
                /\ e.current = w.op
                /\ ResourcesOf(e, w.op) # {} => w.remaining = ResourcesOf(e, w.op)
           /\ w.state = "CREATE_INTENT" => e.resources[w.res] = "NONE"
           /\ w.state = "CREATED" => e.resources[w.res] = "CREATE_INTENT"
           /\ w.state \in {"CREATE_INTENT", "CREATED"} =>
                w.res \in Res /\ CaseOf[w.res] = w.op /\ e.current = w.op /\ w.op \notin e.recorded
  <1>1. e \in Entries /\ w.run \in Runs
    BY DEF Ledgers, Rows
  <1> QED
    BY <1>1 DEF RowAccepted, ResourceAccepted, RecordedAccepted, OwnedByCase

\* What an accepted row makes of its entry: a good entry that takes nothing back.
LEMMA RowEntry ==
    ASSUME NEW L \in Ledgers, NEW w \in Rows, RowAccepted(L, w), LedgerOK(L),
           NEW e, e = L[w.run], NEW x, x = EntryAfter(e, w)
    PROVE  /\ x \in Entries /\ EntryOK(x) /\ EntryGrows(e, x)
           /\ w.state # "RESERVED" => e.held
  <1>1. /\ e \in Entries /\ w.run \in Runs
        /\ w.state \in {"RESERVED", "RUNNING", "CREATE_INTENT", "CREATED", "RECORDED"}
    BY AcceptedFacts DEF Rows
  <1>2. EntryOK(e)
    BY <1>1 DEF LedgerOK
  <1>3. /\ e.done \in SUBSET Ops /\ e.recorded \in SUBSET Ops
        /\ NoOp \notin Ops /\ CaseOf \in [Res -> Ops]
    BY <1>1, OpsAssumption, ResAssumption DEF Entries
  <1>4. CASE w.state = "RESERVED"
    <2>1. ~e.seen
      BY <1>4, AcceptedFacts
    <2>2. e.done = {} /\ e.recorded = {} /\ \A r \in Res : e.resources[r] = "NONE"
      BY <1>2, <1>3, <2>1 DEF EntryOK
    <2>3. /\ x \in Entries
          /\ x.seen /\ x.held /\ x.current = NoOp /\ x.done = {} /\ x.recorded = {}
          /\ \A r \in Res : x.resources[r] = "NONE"
      BY <1>1, <1>4, ReservedFields
    <2> QED
      BY <1>4, <2>2, <2>3 DEF EntryOK, EntryGrows
  <1>5. CASE w.state = "RUNNING"
    <2>1. e.seen /\ e.held /\ w.op \in Ops /\ e.current = NoOp /\ w.op \notin e.done
      BY <1>5, AcceptedFacts
    <2>2. \A r \in Res : e.resources[r] = "NONE"
      BY <1>2, <1>3, <2>1 DEF EntryOK
    <2>3. /\ x \in Entries
          /\ (x.seen <=> e.seen) /\ (x.held <=> e.held) /\ x.current = w.op /\ x.done = e.done \cup {w.op}
          /\ x.recorded = e.recorded /\ x.resources = e.resources
      BY <1>1, <1>5, <2>1, RunningFields
    <2> QED
      BY <1>2, <1>3, <2>1, <2>2, <2>3 DEF EntryOK, EntryGrows
  <1>6. CASE w.state = "RECORDED"
    <2>1. /\ e.seen /\ e.held /\ w.op \in Ops /\ e.current = w.op
          /\ ResourcesOf(e, w.op) # {} => w.remaining = ResourcesOf(e, w.op)
      BY <1>6, AcceptedFacts
    <2>2. /\ x \in Entries
          /\ (x.seen <=> e.seen) /\ x.done = e.done
          /\ x.held <=> (e.done # Ops \/ w.remaining # {})
          /\ x.recorded = e.recorded \cup {w.op}
          /\ x.current = IF w.remaining = {} THEN NoOp ELSE w.op
          /\ x.resources = e.resources
      BY <1>1, <1>6, <2>1, RecordedFields
    <2>3. \A r \in Res : e.resources[r] # "NONE" => CaseOf[r] = w.op /\ w.remaining # {}
      <3>1. \A r \in Res : e.resources[r] # "NONE" => CaseOf[r] = w.op
        BY <1>2, <2>1 DEF EntryOK
      <3> QED
        BY <3>1, <2>1 DEF ResourcesOf
    <2> QED
      BY <1>2, <1>3, <2>1, <2>2, <2>3 DEF EntryOK, EntryGrows
  <1>7. CASE w.state \in {"CREATE_INTENT", "CREATED"}
    <2>1. /\ e.seen /\ e.held /\ w.res \in Res /\ CaseOf[w.res] = w.op /\ e.current = w.op
          /\ w.state = "CREATE_INTENT" => e.resources[w.res] = "NONE"
          /\ w.state = "CREATED" => e.resources[w.res] = "CREATE_INTENT"
      BY <1>7, AcceptedFacts
    <2>2. /\ x \in Entries /\ SameEntry(e, x)
          /\ x.resources[w.res] = w.state
          /\ \A r \in Res : r # w.res => x.resources[r] = e.resources[r]
      BY <1>1, <1>7, <2>1, ResourceFields
    <2>3. EntryOK(x)
      BY <1>2, <1>3, <2>1, <2>2 DEF EntryOK, SameEntry
    <2>4. EntryGrows(e, x)
      BY <1>7, <2>1, <2>2 DEF EntryGrows, SameEntry
    <2> QED
      BY <1>7, <2>1, <2>2, <2>3, <2>4
  <1> QED
    BY <1>1, <1>4, <1>5, <1>6, <1>7

\* Growth is a preorder.
LEMMA GrowsReflexive == \A L : Grows(L, L)
  BY DEF Grows, EntryGrows

\* A ledger that outgrows one outgrows all before it.
LEMMA GrowsTransitive == \A L, M, N : Grows(L, M) /\ Grows(M, N) => Grows(L, N)
  <1> SUFFICES ASSUME NEW L, NEW M, NEW N, Grows(L, M), Grows(M, N), NEW n \in Runs
               PROVE  EntryGrows(L[n], N[n])
    BY DEF Grows
  <1>1. EntryGrows(L[n], M[n]) /\ EntryGrows(M[n], N[n])
    BY DEF Grows
  <1> QED
    BY <1>1 DEF EntryGrows

\* A ledger after an accepted row: the capacity still has one holder at most.
LEMMA RowFacts ==
    ASSUME NEW L \in Ledgers, NEW w \in Rows, RowAccepted(L, w), LedgerOK(L)
    PROVE  AfterRow(L, w) \in Ledgers /\ LedgerOK(AfterRow(L, w)) /\ Grows(L, AfterRow(L, w))
  <1> DEFINE e == L[w.run]
             x == EntryAfter(e, w)
             M == AfterRow(L, w)
  <1>1. /\ x \in Entries /\ EntryOK(x) /\ EntryGrows(e, x)
        /\ w.state # "RESERVED" => e.held
        /\ w.state = "RESERVED" => \A n \in Runs : ~L[n].held
    BY RowEntry, AcceptedFacts
  <1>2. /\ w.run \in Runs /\ M \in Ledgers /\ M[w.run] = x
        /\ \A n \in Runs : n # w.run => M[n] = L[n]
    BY <1>1, AfterRowFacts
  <1> HIDE DEF x, M
  <1>3. ASSUME NEW n \in Runs PROVE EntryOK(M[n]) /\ EntryGrows(L[n], M[n])
    <2>1. CASE n = w.run
      BY <1>1, <1>2, <2>1
    <2>2. CASE n # w.run
      <3>1. M[n] = L[n] /\ EntryOK(L[n])
        BY <1>2, <2>2 DEF LedgerOK
      <3> QED
        BY <3>1 DEF EntryGrows
    <2> QED
      BY <2>1, <2>2
  <1>4. ASSUME NEW n \in Runs, NEW m \in Runs, M[n].held, M[m].held PROVE m = n
    BY <1>1, <1>2, <1>4 DEF LedgerOK
  <1>5. LedgerOK(M)
    BY <1>3, <1>4 DEF LedgerOK
  <1>6. Grows(L, M)
    BY <1>3 DEF Grows
  <1> QED
    BY <1>2, <1>5, <1>6 DEF M

\* The ledgers on the way from the disk to what a reader sees.
LEMMA ChainFacts ==
    ASSUME TypeOK, LedgerOK(disk), ChainInv
    PROVE  /\ \A i \in 1..Len(cached) : cached[i] \in Ledgers /\ LedgerOK(cached[i]) /\ Grows(disk, cached[i])
           /\ Ledger \in Ledgers /\ LedgerOK(Ledger) /\ Grows(disk, Ledger)
  <1>1. disk \in Ledgers /\ cached \in Seq(Ledgers)
    BY DEF TypeOK
  <1>2. Len(cached) \in Nat /\ (cached = <<>> <=> Len(cached) = 0) /\ Len(cached) <= 2
    BY <1>1 DEF ChainInv
  <1>3. Len(cached) >= 1 => cached[1] \in Ledgers /\ LedgerOK(cached[1]) /\ Grows(disk, cached[1])
    BY <1>1, RowFacts DEF ChainInv, RowStep
  <1>4. Len(cached) = 2 => cached[2] \in Ledgers /\ LedgerOK(cached[2]) /\ Grows(cached[1], cached[2])
    BY <1>2, <1>3, RowFacts DEF ChainInv, ReserveStep
  <1>5. Len(cached) = 2 => Grows(disk, cached[2])
    BY <1>2, <1>3, <1>4, GrowsTransitive
  <1>6. \A i \in 1..Len(cached) : cached[i] \in Ledgers /\ LedgerOK(cached[i]) /\ Grows(disk, cached[i])
    <2> SUFFICES ASSUME NEW i \in 1..Len(cached)
                 PROVE  cached[i] \in Ledgers /\ LedgerOK(cached[i]) /\ Grows(disk, cached[i])
      OBVIOUS
    <2>1. (i = 1 /\ Len(cached) >= 1) \/ (i = 2 /\ Len(cached) = 2)
      <3>1. PICK k \in Nat : k = Len(cached) /\ k <= 2
        BY <1>2
      <3>2. i \in 1..k
        BY <3>1
      <3> QED
        BY <3>1, <3>2
    <2> QED
      BY <2>1, <1>3, <1>4, <1>5
  <1>7. cached = <<>> => Ledger = disk
    BY DEF Ledger
  <1>8. cached # <<>> => Ledger = cached[Len(cached)] /\ Len(cached) \in 1..Len(cached)
    BY <1>2 DEF Ledger
  <1> QED
    BY <1>1, <1>6, <1>7, <1>8, GrowsReflexive

-----------------------------------------------------------------------------
(* The servers. *)

\* admission.lock: while one server is up, no other is.
LEMMA OthersDown ==
    ASSUME UpInv, NEW s \in Servers, srv[s].pc # "down"
    PROVE  lock = s /\ srv[s].run \in Runs /\ \A t \in Servers : t # s => srv[t].pc = "down"
  BY DEF UpInv, Up

\* So a step of one server is about that server alone.
LEMMA OneServer ==
    ASSUME NEW s \in Servers, \A t \in Servers : t # s => srv'[t].pc = "down",
           Up(s)', Place(s)', srv'[s].pc \notin {"down", "failed"} => BrokerOK(s, broker[s])'
    PROVE  UpInv' /\ PlaceInv' /\ BrokerInv'
  <1>1. ASSUME NEW t \in Servers
        PROVE  Up(t)' /\ Place(t)' /\ (srv'[t].pc \notin {"down", "failed"} => BrokerOK(t, broker[t])')
    <2>1. CASE t = s
      BY <2>1
    <2>2. CASE t # s
      <3>1. srv'[t].pc = "down"
        BY <2>2
      <3> QED
        BY <3>1 DEF Up, Place, Position
    <2> QED
      BY <2>1, <2>2
  <1> QED
    BY <1>1 DEF UpInv, PlaceInv, BrokerInv

\* A server that is down.
LEMMA DownFacts ==
    Down \in ServerStates /\ Down.pc = "down" /\ Down.op = NoOp
  BY DEF Down, ServerStates, Positions

\* A broker channel that has not been used.
LEMMA NoBrokerFacts ==
    /\ NoBroker \in BrokerStates /\ PhaseOrder(NoBroker)
    /\ NoBroker.intent = "none" /\ NoBroker.exchange = "none" /\ NoBroker.created = "none"
  <1>1. FALSE \in BOOLEAN
    BY Zenon
  <1> QED
    BY <1>1 DEF NoBroker, BrokerStates, Marked, PhaseOrder

\* What was done stays done when the disk only grows.
LEMMA EffectsKept ==
    ASSUME TypeOK, EffectInv, disk' \in Ledgers, Grows(disk, disk'), UNCHANGED <<effects, history>>
    PROVE  EffectInv'
  <1>1. UNCHANGED <<flight, cluster, probes, posts, results, replies>>
    BY DEF effects, history
  <1>2. \A n \in Runs : EntryGrows(disk[n], disk'[n])
    BY DEF Grows
  <1>3. /\ \A n \in Runs, r \in Res :
             /\ disk[n].resources[r] # "NONE" => disk'[n].resources[r] # "NONE"
             /\ disk[n].resources[r] = "CREATED" => disk'[n].resources[r] = "CREATED"
        /\ \A n \in Runs, o \in Ops : o \in disk[n].done => o \in disk'[n].done
        /\ \A n \in Runs, o \in Ops : o \in disk[n].recorded /\ disk[n].current # o
                                        => o \in disk'[n].recorded /\ disk'[n].current # o
    BY <1>2 DEF EntryGrows
  <1>4. /\ \A f \in flight \cup cluster : f.run \in Runs /\ f.res \in Res
        /\ \A f \in results : f.run \in Runs /\ f.res \in Res
        /\ \A p \in replies : p.run \in Runs /\ p.op \in Ops
    BY DEF TypeOK, Requests
  <1>5. \A f \in flight' \cup cluster' : disk'[f.run].resources[f.res] # "NONE"
    BY <1>1, <1>3, <1>4 DEF EffectInv
  <1>6. \A f \in results' : f \in cluster' /\ disk'[f.run].resources[f.res] = "CREATED"
    BY <1>1, <1>3, <1>4 DEF EffectInv
  <1>7. \A p \in replies' : p.status = "pass" =>
          p.op \in disk'[p.run].recorded /\ disk'[p.run].current # p.op
    BY <1>1, <1>3, <1>4 DEF EffectInv
  <1>8. \A n \in Runs, o \in Ops :
          probes'[n][o] <= 1 /\ (probes'[n][o] > 0 => o \in disk'[n].done)
    BY <1>1, <1>3 DEF EffectInv
  <1>9. \A r \in Res : posts'[r] <= 1
                       /\ (posts'[r] > 0 => \E n \in Runs : disk'[n].resources[r] # "NONE")
    BY <1>1, <1>3 DEF EffectInv
  <1> QED
    BY <1>5, <1>6, <1>7, <1>8, <1>9 DEF EffectInv

\* Init: nobody is up and the file is empty.
LEMMA InitInv == Init => IInv
  <1> SUFFICES ASSUME Init PROVE IInv
    OBVIOUS
  <1> USE DEF Init
  <1>1. disk \in Ledgers /\ \A n \in Runs : disk[n] = NoEntry
    BY NoEntryFacts DEF EmptyLedger, Ledgers
  <1>2. \A s \in Servers : srv[s] = Down /\ srv[s].pc = "down" /\ broker[s] = NoBroker
    BY DownFacts
  <1>3. TypeOK
    BY <1>1, DownFacts, NoBrokerFacts DEF TypeOK
  <1>4. LedgerOK(disk)
    BY <1>1, NoEntryFacts DEF LedgerOK, EntryOK
  <1>5. ChainInv
    BY DEF ChainInv
  <1>6. UpInv /\ PlaceInv /\ BrokerInv
    BY <1>2 DEF UpInv, Up, PlaceInv, Place, Position, BrokerInv
  <1>7. EffectInv
    BY DEF EffectInv
  <1> QED
    BY <1>3, <1>4, <1>5, <1>6, <1>7 DEF IInv

\* NativeProxyServer.__init__ takes the run lock: everybody else is down.
LEMMA StartStep == ASSUME IInv, NEW s \in Servers, NEW n \in Runs, Start(s, n) PROVE IInv'
  <1> USE DEF IInv
  <1>1. /\ UNCHANGED <<disk, cached, torn, flight, cluster, probes, posts, results, replies>>
        /\ lock = NoServer /\ lock' = s /\ srv[s].pc = "down"
        /\ srv' = [srv EXCEPT ![s] = [Down EXCEPT !.pc = "boot", !.run = n]]
        /\ broker' = [broker EXCEPT ![s] = NoBroker]
    BY DEF Start, storage, effects, history
  <1> DEFINE d == [Down EXCEPT !.pc = "boot", !.run = n]
  <1>2. d \in ServerStates /\ d.pc = "boot" /\ d.run = n
    BY DownFacts DEF ServerStates, Positions
  <1> HIDE DEF d
  <1>3. /\ srv' \in [Servers -> ServerStates] /\ srv'[s] = d
        /\ \A t \in Servers : t # s => srv'[t] = srv[t]
        /\ broker' \in [Servers -> BrokerStates] /\ broker'[s] = NoBroker
    BY <1>1, <1>2, NoBrokerFacts DEF TypeOK, d
  <1>4. \A t \in Servers : t # s => srv'[t].pc = "down"
    BY <1>1, <1>3, ServerAssumption DEF UpInv, Up
  <1>5. TypeOK'
    BY <1>1, <1>3 DEF TypeOK
  <1>6. LedgerOK(disk)' /\ ChainInv'
    BY <1>1 DEF ChainInv, LedgerOK
  <1>7. Up(s)' /\ Place(s)' /\ BrokerOK(s, broker[s])'
    BY <1>1, <1>2, <1>3, NoBrokerFacts DEF Up, Place, Position, BrokerOK
  <1>8. UpInv' /\ PlaceInv' /\ BrokerInv'
    BY <1>4, <1>7, OneServer
  <1>9. EffectInv'
    BY <1>1 DEF EffectInv
  <1> QED
    BY <1>5, <1>6, <1>8, <1>9

\* A process closes or ends: the server is down, the lock stays or is free, and the
\* lock of another is not touched.
LEMMA EndStep ==
    ASSUME IInv, NEW s \in Servers,
           srv' = [srv EXCEPT ![s] = Down], broker' = [broker EXCEPT ![s] = NoBroker],
           lock' \in {lock, NoServer}, lock' # lock => lock = s,
           UNCHANGED <<storage, effects, history>>
    PROVE  IInv'
  <1> USE DEF IInv
  <1>1. UNCHANGED <<disk, cached, torn, flight, cluster, probes, posts, results, replies>>
    BY DEF storage, effects, history
  <1>2. /\ srv' \in [Servers -> ServerStates] /\ srv'[s] = Down
        /\ \A t \in Servers : t # s => srv'[t] = srv[t] /\ broker'[t] = broker[t]
        /\ broker' \in [Servers -> BrokerStates]
    BY <1>1, DownFacts, NoBrokerFacts DEF TypeOK
  <1>3. ASSUME NEW t \in Servers, srv'[t].pc # "down"
        PROVE  t # s /\ lock' = lock /\ srv'[t] = srv[t] /\ broker'[t] = broker[t]
    BY <1>2, <1>3, DownFacts DEF UpInv, Up
  <1>4. TypeOK'
    BY <1>1, <1>2 DEF TypeOK
  <1>5. LedgerOK(disk)' /\ ChainInv' /\ Ledger' = Ledger
    BY <1>1 DEF ChainInv, LedgerOK, Ledger
  <1>6. UpInv'
    <2> SUFFICES ASSUME NEW t \in Servers PROVE Up(t)'
      BY DEF UpInv
    <2> QED
      BY <1>1, <1>3 DEF UpInv, Up
  <1>7. PlaceInv'
    <2> SUFFICES ASSUME NEW t \in Servers PROVE Place(t)'
      BY DEF PlaceInv
    <2>1. CASE srv'[t].pc = "down"
      BY <2>1 DEF Place, Position
    <2>2. CASE srv'[t].pc # "down"
      BY <1>1, <1>3, <1>5, <2>2 DEF PlaceInv, Place, Position
    <2> QED
      BY <2>1, <2>2
  <1>8. BrokerInv'
    <2> SUFFICES ASSUME NEW t \in Servers, srv'[t].pc \notin {"down", "failed"}
                 PROVE  BrokerOK(t, broker[t])'
      BY DEF BrokerInv
    <2>1. srv'[t] = srv[t] /\ broker'[t] = broker[t]
      BY <1>3
    <2>2. BrokerOK(t, broker[t])
      BY <2>1 DEF BrokerInv
    <2> QED
      BY <1>1, <1>5, <2>1, <2>2 DEF BrokerOK
  <1>9. EffectInv'
    BY <1>1 DEF EffectInv
  <1> QED
    BY <1>4, <1>5, <1>6, <1>7, <1>8, <1>9

\* A step that moves no server and leaves file, cluster and history alone.
LEMMA IdleStep ==
    ASSUME IInv, lock' \in {lock, NoServer},
           \A t \in Servers : lock = t /\ lock' # t => srv[t].pc = "down",
           UNCHANGED <<srv, broker, storage, effects, history>>
    PROVE  IInv'
  <1> USE DEF IInv
  <1>1. UNCHANGED <<srv, broker, disk, cached, torn, flight, cluster, probes, posts, results, replies>>
    BY DEF storage, effects, history
  <1>2. Ledger' = Ledger
    BY <1>1 DEF Ledger
  <1>3. TypeOK' /\ LedgerOK(disk)' /\ ChainInv' /\ EffectInv'
    BY <1>1 DEF TypeOK, LedgerOK, ChainInv, EffectInv
  <1>4. UpInv'
    <2> SUFFICES ASSUME NEW t \in Servers PROVE Up(t)'
      BY DEF UpInv
    <2> QED
      BY <1>1 DEF UpInv, Up
  <1>5. PlaceInv'
    BY <1>1, <1>2 DEF PlaceInv, Place, Position
  <1>6. BrokerInv'
    BY <1>1, <1>2 DEF BrokerInv, BrokerOK
  <1> QED
    BY <1>3, <1>4, <1>5, <1>6

\* The start acquires its resources.
LEMMA AcquireStep ==
    ASSUME IInv, NEW s \in Servers, Connect(s) \/ LoadIdentity(s) \/ Listen(s) PROVE IInv'
  <1>1. UNCHANGED <<lock, srv, broker, storage, effects, history>>
    BY DEF Connect, LoadIdentity, Listen, Local
  <1>2. lock' \in {lock, NoServer} /\ \A t \in Servers : lock = t /\ lock' # t => srv[t].pc = "down"
    BY <1>1
  <1> QED
    BY <1>1, <1>2, IdleStep

\* close marks the owner closed.
LEMMA CloseStep == ASSUME IInv, NEW s \in Servers, Close(s) PROVE IInv'
  BY EndStep DEF Close

\* One operation of close: it can only free the lock of its own process.
LEMMA CloseNextStep == ASSUME IInv, ProcessInv, NEW s \in Servers, CloseNext(s) PROVE IInv'
  <1>1. UNCHANGED <<srv, broker, storage, effects, history>>
    BY DEF CloseNext
  <1>2. lock' \in {lock, NoServer} /\ (lock' # lock => lock = s)
    BY DEF CloseNext, Closed, Raised
  <1>3. srv[s].pc = "down"
    BY DEF CloseNext, ProcessInv, ProcessOK
  <1> QED
    BY <1>1, <1>2, <1>3, IdleStep

\* The end of a process.
LEMMA ExitStep == ASSUME IInv, NEW s \in Servers, Exit(s) PROVE IInv'
  BY EndStep DEF Exit

\* The machine stops: the disk has some prefix of the rows, and nobody is up.
LEMMA PowerLossStep == ASSUME IInv, PowerLoss PROVE IInv'
  <1> USE DEF IInv
  <1>1. PICK k \in 0..Len(cached) :
          /\ disk' = IF k = 0 THEN disk ELSE cached[k]
          /\ torn' \in {"no", "durable"}
    BY DEF PowerLoss
  <1>2. /\ cached' = <<>> /\ lock' = NoServer /\ UNCHANGED <<effects, history>>
        /\ srv' = [s \in Servers |-> Down] /\ broker' = [s \in Servers |-> NoBroker]
    BY DEF PowerLoss
  <1>3. disk' \in Ledgers /\ LedgerOK(disk)' /\ Grows(disk, disk')
    <2>1. disk \in Ledgers /\ LedgerOK(disk) /\ Grows(disk, disk)
      BY GrowsReflexive DEF TypeOK
    <2>2. \A i \in 1..Len(cached) : cached[i] \in Ledgers /\ LedgerOK(cached[i]) /\ Grows(disk, cached[i])
      BY ChainFacts
    <2>3. k # 0 => k \in 1..Len(cached)
      BY DEF TypeOK
    <2>4. disk' \in Ledgers /\ LedgerOK(disk') /\ Grows(disk, disk')
      BY <1>1, <2>1, <2>2, <2>3
    <2> QED
      BY <2>4 DEF LedgerOK
  <1>4. \A s \in Servers : srv'[s].pc = "down"
    BY <1>2, DownFacts
  <1>5. TypeOK'
    BY <1>1, <1>2, <1>3, DownFacts, NoBrokerFacts DEF TypeOK, effects, history
  <1>6. ChainInv'
    BY <1>2 DEF ChainInv
  <1>7. UpInv' /\ PlaceInv' /\ BrokerInv'
    BY <1>4 DEF UpInv, Up, PlaceInv, Place, Position, BrokerInv
  <1>8. EffectInv'
    BY <1>2, <1>3, EffectsKept
  <1> QED
    BY <1>3, <1>5, <1>6, <1>7, <1>8

\* Assigning fields of one server's state.
LEMMA SetPc ==
    ASSUME srv \in [Servers -> ServerStates], NEW s \in Servers, NEW a \in Positions,
           srv' = [srv EXCEPT ![s].pc = a]
    PROVE  /\ srv' \in [Servers -> ServerStates]
           /\ srv'[s].pc = a /\ srv'[s].next = srv[s].next /\ srv'[s].run = srv[s].run
           /\ srv'[s].op = srv[s].op
           /\ \A t \in Servers : t # s => srv'[t] = srv[t]
  <1>1. srv[s] \in ServerStates
    OBVIOUS
  <1>2. [srv[s] EXCEPT !.pc = a] \in ServerStates
    BY <1>1 DEF ServerStates
  <1>3. srv'[s] = [srv[s] EXCEPT !.pc = a]
    OBVIOUS
  <1>4. /\ srv'[s].pc = a /\ srv'[s].next = srv[s].next /\ srv'[s].run = srv[s].run
        /\ srv'[s].op = srv[s].op
    BY <1>1, <1>3 DEF ServerStates
  <1> QED
    BY <1>2, <1>3, <1>4

\* ... when record has written a row and the sync comes next ...
LEMMA SetRow ==
    ASSUME srv \in [Servers -> ServerStates], NEW s \in Servers,
           NEW a \in Positions, NEW o \in Ops \cup {NoOp},
           srv' = [srv EXCEPT ![s].pc = "sync", ![s].next = a, ![s].op = o]
    PROVE  /\ srv' \in [Servers -> ServerStates]
           /\ srv'[s].pc = "sync" /\ srv'[s].next = a /\ srv'[s].run = srv[s].run
           /\ srv'[s].op = o
           /\ \A t \in Servers : t # s => srv'[t] = srv[t]
  <1> DEFINE d == [srv[s] EXCEPT !.pc = "sync", !.next = a, !.op = o]
  <1>1. srv[s] \in ServerStates
    OBVIOUS
  <1>2. d \in ServerStates
    BY <1>1 DEF ServerStates, Positions
  <1>3. srv'[s] = d /\ \A t \in Servers : t # s => srv'[t] = srv[t]
    OBVIOUS
  <1>4. d.pc = "sync" /\ d.next = a /\ d.run = srv[s].run /\ d.op = o
    BY <1>1 DEF ServerStates
  <1>5. srv' \in [Servers -> ServerStates]
    <2> HIDE DEF d
    <2>1. \A t \in Servers : srv'[t] \in ServerStates
      BY <1>2, <1>3
    <2>2. srv' = [t \in Servers |-> srv'[t]]
      OBVIOUS
    <2> QED
      BY <2>1, <2>2
  <1> QED
    BY <1>3, <1>4, <1>5

\* ... and when the reply was sent.
LEMMA SetReply ==
    ASSUME srv \in [Servers -> ServerStates], NEW s \in Servers, NEW a \in Positions,
           srv' = [srv EXCEPT ![s].pc = a, ![s].op = NoOp]
    PROVE  /\ srv' \in [Servers -> ServerStates]
           /\ srv'[s].pc = a /\ srv'[s].next = srv[s].next /\ srv'[s].run = srv[s].run
           /\ srv'[s].op = NoOp
           /\ \A t \in Servers : t # s => srv'[t] = srv[t]
  <1> DEFINE d == [srv[s] EXCEPT !.pc = a, !.op = NoOp]
  <1>1. srv[s] \in ServerStates
    OBVIOUS
  <1>2. d \in ServerStates
    BY <1>1 DEF ServerStates
  <1>3. srv'[s] = d /\ \A t \in Servers : t # s => srv'[t] = srv[t]
    OBVIOUS
  <1>4. d.pc = a /\ d.next = srv[s].next /\ d.run = srv[s].run /\ d.op = NoOp
    BY <1>1 DEF ServerStates
  <1>5. srv' \in [Servers -> ServerStates]
    <2> HIDE DEF d
    <2>1. \A t \in Servers : srv'[t] \in ServerStates
      BY <1>2, <1>3
    <2>2. srv' = [t \in Servers |-> srv'[t]]
      OBVIOUS
    <2> QED
      BY <2>1, <2>2
  <1> QED
    BY <1>3, <1>4, <1>5

\* Assigning one server's broker channel.
LEMMA SetBroker ==
    ASSUME broker \in [Servers -> BrokerStates], NEW s \in Servers, NEW u \in BrokerStates,
           broker' = [broker EXCEPT ![s] = u]
    PROVE  broker' \in [Servers -> BrokerStates] /\ broker'[s] = u
  OBVIOUS

\* A row is cut short: the server can only close, and nobody can write any more.
LEMMA WriteFails ==
    ASSUME IInv, NEW s \in Servers, srv[s].pc # "down", torn' = "cached",
           srv' = [srv EXCEPT ![s].pc = "failed"], broker' \in [Servers -> BrokerStates],
           UNCHANGED <<disk, cached, lock, flight, cluster, probes, posts, results, replies>>
    PROVE  IInv'
  <1> USE DEF IInv
  <1>1. /\ srv' \in [Servers -> ServerStates]
        /\ srv'[s].pc = "failed" /\ srv'[s].run = srv[s].run
        /\ \A t \in Servers : t # s => srv'[t] = srv[t]
    <2>1. "failed" \in Positions
      BY DEF Positions
    <2> QED
      BY <2>1, SetPc DEF TypeOK
  <1>2. TypeOK'
    BY <1>1 DEF TypeOK
  <1>3. LedgerOK(disk)' /\ ChainInv' /\ EffectInv'
    BY DEF ChainInv, LedgerOK, EffectInv
  <1>4. lock = s /\ srv[s].run \in Runs /\ \A t \in Servers : t # s => srv[t].pc = "down"
    BY OthersDown
  <1>5. Up(s)' /\ Place(s)'
    BY <1>1, <1>4 DEF Up, Place, Position
  <1>6. UpInv' /\ PlaceInv' /\ BrokerInv'
    <2>1. \A t \in Servers : t # s => srv'[t].pc = "down"
      BY <1>1, <1>4
    <2> QED
      BY <1>1, <1>5, <2>1, OneServer
  <1> QED
    BY <1>2, <1>3, <1>6

\* A row is written whole: the chain has one more ledger.
LEMMA WriteRowFacts ==
    ASSUME IInv, NEW s \in Servers, srv[s].pc \notin {"down", "sync", "failed"},
           NEW w \in Rows, RowAccepted(Ledger, w), cached' = Append(cached, AfterRow(Ledger, w)),
           UNCHANGED disk, srv[s].pc = "boot" => w.state = "RESERVED"
    PROVE  /\ cached' \in Seq(Ledgers) /\ ChainInv'
           /\ Ledger' = AfterRow(Ledger, w)
           /\ Grows(Ledger, Ledger')
           /\ srv[s].pc # "boot" =>
                Ledger = disk /\ Len(cached') = 1 /\ cached'[1] = AfterRow(disk, w)
  <1> USE DEF IInv
  <1> DEFINE N == AfterRow(Ledger, w)
  <1>1. cached \in Seq(Ledgers) /\ Len(cached) \in Nat /\ Len(cached) <= 2
    BY DEF TypeOK, ChainInv
  <1>2. Ledger \in Ledgers /\ LedgerOK(Ledger)
    BY ChainFacts
  <1>3. N \in Ledgers /\ Grows(Ledger, N)
    BY <1>2, RowFacts
  <1> HIDE DEF N
  <1>4. /\ cached' \in Seq(Ledgers) /\ Len(cached') = Len(cached) + 1
        /\ cached'[Len(cached) + 1] = N /\ cached' # <<>>
        /\ \A i \in 1..Len(cached) : cached'[i] = cached[i]
    BY <1>1, <1>3, AppendFacts DEF N
  <1>5. Ledger' = N
    BY <1>1, <1>4 DEF Ledger
  <1>6. srv[s].pc # "boot" => cached = <<>> /\ Ledger = disk
    BY DEF UpInv, Up, Ledger
  <1>7. Len(cached) # 2
    <2> SUFFICES ASSUME Len(cached) = 2 PROVE FALSE
      OBVIOUS
    <2>1. cached # <<>> /\ Ledger = cached[2]
      BY <1>1 DEF Ledger
    <2>2. PICK v \in Rows : v.state = "RESERVED" /\ RowAccepted(cached[1], v)
                            /\ cached[2] = AfterRow(cached[1], v)
      BY DEF ChainInv, ReserveStep
    <2>3. cached[1] \in Ledgers /\ LedgerOK(cached[1])
      BY <1>1, ChainFacts
    <2>4. v.run \in Runs /\ cached[1][v.run] \in Entries
      BY <2>3 DEF Ledgers, Rows
    <2>5. EntryAfter(cached[1][v.run], v) \in Entries /\ EntryAfter(cached[1][v.run], v).held
      BY <2>2, <2>4, ReservedFields
    <2>6. cached[2][v.run].held
      BY <2>2, <2>3, <2>5, AfterRowFacts
    <2>7. srv[s].pc = "boot"
      BY <2>1, <1>6
    <2>8. \A n \in Runs : ~Ledger[n].held
      BY <2>7, <1>2, AcceptedFacts
    <2> QED
      BY <2>1, <2>4, <2>6, <2>8
  <1>8. ChainInv'
    <2>1. CASE Len(cached) = 0
      <3>1. Ledger = disk
        BY <1>1, <2>1 DEF Ledger
      <3>2. RowStep(disk, cached'[1])
        BY <1>4, <2>1, <3>1 DEF RowStep, N
      <3> QED
        BY <1>4, <2>1, <3>2 DEF ChainInv, RowStep, ReserveStep
    <2>2. CASE Len(cached) = 1
      <3>1. cached # <<>> /\ Ledger = cached[1] /\ cached'[1] = cached[1] /\ cached'[2] = N
            /\ Len(cached') = 2
        BY <1>1, <1>4, <2>2 DEF Ledger
      <3>2. w.state = "RESERVED"
        BY <3>1, <1>6
      <3>3. ReserveStep(cached'[1], cached'[2])
        BY <3>1, <3>2 DEF ReserveStep, N
      <3>4. RowStep(disk, cached'[1])
        BY <2>2, <3>1 DEF ChainInv
      <3> QED
        BY <3>1, <3>3, <3>4 DEF ChainInv, RowStep, ReserveStep
    <2>3. Len(cached) = 0 \/ Len(cached) = 1
      <3>1. PICK k \in Nat : k = Len(cached) /\ k <= 2 /\ k # 2
        BY <1>1, <1>7
      <3> QED
        BY <3>1
    <2> QED
      BY <2>1, <2>2, <2>3
  <1>9. srv[s].pc # "boot" => Len(cached') = 1 /\ cached'[1] = AfterRow(disk, w)
    BY <1>4, <1>6 DEF N
  <1> QED
    BY <1>3, <1>4, <1>5, <1>6, <1>8, <1>9 DEF N

\* ... and the invariant holds if it does for the server's own place and channel.
LEMMA WriteDone ==
    ASSUME IInv, NEW s \in Servers, srv[s].pc \notin {"down", "sync", "failed"},
           NEW w \in Rows, RowAccepted(Ledger, w), cached' = Append(cached, AfterRow(Ledger, w)),
           srv[s].pc = "boot" => w.state = "RESERVED", torn = "no",
           NEW a \in {"serving", "execute", "probe", "pass", "fail"},
           srv' = [srv EXCEPT ![s].pc = "sync", ![s].next = a, ![s].op = w.op],
           broker' \in [Servers -> BrokerStates],
           UNCHANGED <<torn, disk, lock, flight, cluster, probes, posts, results, replies>>,
           Place(s)', BrokerOK(s, broker[s])'
    PROVE  IInv'
  <1> USE DEF IInv
  <1>1. /\ srv' \in [Servers -> ServerStates]
        /\ srv'[s].pc = "sync" /\ srv'[s].next = a /\ srv'[s].run = srv[s].run
        /\ \A t \in Servers : t # s => srv'[t] = srv[t]
    <2>1. a \in Positions /\ w.op \in Ops \cup {NoOp}
      BY DEF Positions, Rows
    <2> QED
      BY <2>1, SetRow DEF TypeOK
  <1>2. cached' \in Seq(Ledgers) /\ ChainInv'
    BY WriteRowFacts
  <1>3. TypeOK'
    BY <1>1, <1>2 DEF TypeOK
  <1>4. LedgerOK(disk)' /\ EffectInv'
    BY DEF LedgerOK, EffectInv
  <1>5. lock = s /\ srv[s].run \in Runs /\ \A t \in Servers : t # s => srv[t].pc = "down"
    BY OthersDown
  <1>6. Up(s)'
    BY <1>1, <1>5 DEF Up
  <1>7. UpInv' /\ PlaceInv' /\ BrokerInv'
    <2>1. \A t \in Servers : t # s => srv'[t].pc = "down"
      BY <1>1, <1>5
    <2> QED
      BY <1>6, <2>1, OneServer
  <1> QED
    BY <1>2, <1>3, <1>4, <1>7

\* A row of a server is a row.
LEMMA RowFields ==
    ASSUME NEW s \in Servers, srv[s].run \in Runs,
           NEW state \in {"RESERVED", "RUNNING", "CREATE_INTENT", "CREATED", "RECORDED"},
           NEW op \in Ops \cup {NoOp}, NEW res \in Res \cup {NoRes}, NEW remaining \in SUBSET Res,
           NEW w, w = Row(s, state, op, res, remaining)
    PROVE  /\ w \in Rows /\ w.state = state /\ w.run = srv[s].run /\ w.op = op
           /\ w.res = res /\ w.remaining = remaining
  BY DEF Row, Rows

\* The channel's part of the invariant, when the ledger has only grown.
LEMMA BrokerKept ==
    ASSUME NEW s \in Servers, NEW b, BrokerOK(s, b), srv[s].run \in Runs,
           Grows(Ledger, Ledger'), srv'[s].run = srv[s].run, UNCHANGED <<cluster, posts>>,
           broker'[s] = b, srv[s].pc # "sync"
    PROVE  BrokerOK(s, broker[s])'
  <1>1. EntryGrows(Ledger[srv[s].run], Ledger'[srv[s].run])
    BY DEF Grows
  <1> QED
    BY <1>1 DEF BrokerOK, EntryGrows

\* The reservation: the run may be any that the ledger has not seen.
LEMMA ReserveServer == ASSUME IInv, NEW s \in Servers, Reserve(s) PROVE IInv'
  <1> USE DEF IInv
  <1>1. /\ srv[s].pc = "boot" /\ UNCHANGED broker
        /\ UNCHANGED <<disk, lock, flight, cluster, probes, posts, results, replies>>
    BY DEF Reserve, Write, effects, history
  <1>2. PICK w : w = Row(s, "RESERVED", NoOp, NoRes, {})
    OBVIOUS
  <1>3. srv[s].run \in Runs
    BY <1>1, OthersDown
  <1>4. w \in Rows /\ w.state = "RESERVED" /\ w.run = srv[s].run /\ w.op = NoOp
    BY <1>2, <1>3, RowFields
  <1>5. CASE torn' = "cached" /\ srv' = [srv EXCEPT ![s].pc = "failed"] /\ UNCHANGED cached
    BY <1>1, <1>5, WriteFails DEF TypeOK
  <1>6. CASE /\ torn = "no" /\ RowAccepted(Ledger, w) /\ cached' = Append(cached, AfterRow(Ledger, w))
             /\ srv' = [srv EXCEPT ![s].pc = "sync", ![s].next = "serving", ![s].op = w.op]
             /\ UNCHANGED torn
    <2>1. Grows(Ledger, Ledger')
      BY <1>1, <1>4, <1>6, WriteRowFacts
    <2>2. srv'[s].pc = "sync" /\ srv'[s].next = "serving" /\ srv'[s].run = srv[s].run
      BY <1>4, <1>6, SetRow DEF TypeOK, Positions
    <2>3. Place(s)'
      BY <2>2 DEF Place, Position
    <2>4. BrokerOK(s, broker[s])'
      BY <1>1, <1>3, <2>1, <2>2, BrokerKept DEF BrokerInv
    <2> QED
      BY <1>1, <1>4, <1>6, <2>3, <2>4, WriteDone DEF TypeOK
  <1> QED
    BY <1>2, <1>5, <1>6 DEF Reserve, Write

\* The RUNNING row: the ledger has not seen the operation, so it was never executed.
LEMMA AcceptServer == ASSUME IInv, NEW s \in Servers, NEW op \in Ops, Accept(s, op) PROVE IInv'
  <1> USE DEF IInv
  <1>1. /\ srv[s].pc = "serving" /\ UNCHANGED broker
        /\ UNCHANGED <<disk, lock, flight, cluster, probes, posts, results, replies>>
    BY DEF Accept, Write, effects, history
  <1>2. PICK w : w = Row(s, "RUNNING", op, NoRes, {})
    OBVIOUS
  <1>3. srv[s].run \in Runs
    BY <1>1, OthersDown
  <1>4. w \in Rows /\ w.state = "RUNNING" /\ w.run = srv[s].run /\ w.op = op
    BY <1>2, <1>3, RowFields
  <1>5. CASE torn' = "cached" /\ srv' = [srv EXCEPT ![s].pc = "failed"] /\ UNCHANGED cached
    BY <1>1, <1>5, WriteFails DEF TypeOK
  <1>6. CASE /\ torn = "no" /\ RowAccepted(Ledger, w) /\ cached' = Append(cached, AfterRow(Ledger, w))
             /\ srv' = [srv EXCEPT ![s].pc = "sync", ![s].next = "execute", ![s].op = w.op]
             /\ UNCHANGED torn
    <2>1. Grows(Ledger, Ledger') /\ Ledger' = AfterRow(Ledger, w) /\ Ledger = disk
      BY <1>1, <1>4, <1>6, WriteRowFacts
    <2>2. /\ srv'[s].pc = "sync" /\ srv'[s].next = "execute"
          /\ srv'[s].run = srv[s].run /\ srv'[s].op = op
      BY <1>4, <1>6, SetRow DEF TypeOK, Positions
    <2>3. disk \in Ledgers /\ op \notin disk[srv[s].run].done
      BY <1>4, <1>6, <2>1, AcceptedFacts DEF TypeOK
    <2>4. Ledger'[srv[s].run].current = op
      <3>1. disk[w.run] \in Entries
        BY <1>3, <1>4, <2>3 DEF Ledgers
      <3>2. EntryAfter(disk[w.run], w) \in Entries /\ EntryAfter(disk[w.run], w).current = op
        BY <1>4, <3>1, RunningFields
      <3> QED
        BY <1>4, <2>1, <2>3, <3>2, AfterRowFacts
    <2>5. probes[srv[s].run][op] = 0
      <3>1. probes[srv[s].run][op] \in Nat
        BY <1>3 DEF TypeOK
      <3> QED
        BY <1>3, <2>3, <3>1 DEF EffectInv
    <2>6. Place(s)'
      BY <1>1, <2>2, <2>4, <2>5 DEF Place, Position
    <2>7. BrokerOK(s, broker[s])'
      BY <1>1, <1>3, <2>1, <2>2, BrokerKept DEF BrokerInv
    <2> QED
      BY <1>1, <1>4, <1>6, <2>6, <2>7, WriteDone DEF TypeOK
  <1> QED
    BY <1>2, <1>5, <1>6 DEF Accept, Write

\* The RECORDED row: a PASS leaves nothing, so the operation is no longer current.
LEMMA ProbeReturnsServer ==
    ASSUME IInv, NEW s \in Servers, NEW status \in {"PASS", "FAIL"}, NEW remaining \in SUBSET Res,
           ProbeReturns(s, status, remaining)
    PROVE  IInv'
  <1> USE DEF IInv
  <1>1. /\ srv[s].pc = "probe" /\ UNCHANGED broker /\ (status = "PASS" => remaining = {})
        /\ UNCHANGED <<disk, lock, flight, cluster, probes, posts, results, replies>>
    BY DEF ProbeReturns, Write, effects, history
  <1>2. PICK w : w = Row(s, "RECORDED", srv[s].op, NoRes, remaining)
    OBVIOUS
  <1>3. srv[s].run \in Runs /\ srv[s].op \in Ops
    BY <1>1, OthersDown DEF PlaceInv, Place, Position
  <1>4. /\ w \in Rows /\ w.state = "RECORDED" /\ w.run = srv[s].run /\ w.op = srv[s].op
        /\ w.remaining = remaining
    BY <1>2, <1>3, RowFields
  <1>5. CASE torn' = "cached" /\ srv' = [srv EXCEPT ![s].pc = "failed"] /\ UNCHANGED cached
    BY <1>1, <1>5, WriteFails DEF TypeOK
  <1>6. ASSUME NEW a \in {"pass", "fail"}, a = "pass" => remaining = {},
               torn = "no", RowAccepted(Ledger, w), cached' = Append(cached, AfterRow(Ledger, w)),
               srv' = [srv EXCEPT ![s].pc = "sync", ![s].next = a, ![s].op = w.op],
               UNCHANGED torn
        PROVE  IInv'
    <2>1. Grows(Ledger, Ledger') /\ Ledger' = AfterRow(Ledger, w) /\ Ledger = disk
      BY <1>1, <1>4, <1>6, WriteRowFacts
    <2>2. /\ srv'[s].pc = "sync" /\ srv'[s].next = a /\ srv'[s].run = srv[s].run
          /\ srv'[s].op = srv[s].op
      <3>1. a \in Positions /\ w.op \in Ops \cup {NoOp}
        BY <1>3, <1>4 DEF Positions
      <3>2. srv \in [Servers -> ServerStates]
        BY DEF TypeOK
      <3>3. srv'[s].pc = "sync" /\ srv'[s].next = a /\ srv'[s].run = srv[s].run /\ srv'[s].op = w.op
        <4>1. srv'[s] = [srv[s] EXCEPT !.pc = "sync", !.next = a, !.op = w.op]
          BY <1>6, <3>2
        <4>2. srv[s] \in ServerStates
          BY <3>2
        <4> QED
          BY <4>1, <4>2 DEF ServerStates
      <3> QED
        BY <1>4, <3>3
    <2>3. disk \in Ledgers
      BY DEF TypeOK
    <2>4. /\ srv[s].op \in Ledger'[srv[s].run].recorded
          /\ remaining = {} => Ledger'[srv[s].run].current = NoOp
      <3>1. disk[w.run] \in Entries
        BY <1>3, <1>4, <2>3 DEF Ledgers
      <3>2. /\ EntryAfter(disk[w.run], w) \in Entries
            /\ EntryAfter(disk[w.run], w).recorded = disk[w.run].recorded \cup {w.op}
            /\ EntryAfter(disk[w.run], w).current = IF w.remaining = {} THEN NoOp ELSE w.op
        BY <1>3, <1>4, <3>1, RecordedFields
      <3>3. Ledger'[srv[s].run] = EntryAfter(disk[w.run], w)
        BY <1>4, <2>1, <2>3, <3>2, AfterRowFacts
      <3> QED
        BY <1>4, <3>2, <3>3
    <2>5. Place(s)'
      BY <1>3, <1>6, <2>2, <2>4 DEF Place, Position
    <2>6. BrokerOK(s, broker[s])'
      BY <1>1, <1>3, <2>1, <2>2, BrokerKept DEF BrokerInv
    <2> QED
      BY <1>1, <1>4, <1>6, <2>5, <2>6, WriteDone DEF TypeOK
  <1>7. Write(s, w, IF status = "PASS" THEN "pass" ELSE "fail")
    BY <1>2 DEF ProbeReturns
  <1>8. CASE status = "PASS"
    BY <1>1, <1>5, <1>6, <1>7, <1>8 DEF Write
  <1>9. CASE status = "FAIL"
    BY <1>1, <1>5, <1>6, <1>7, <1>9 DEF Write
  <1> QED
    BY <1>8, <1>9

-----------------------------------------------------------------------------
(* The broker channel. *)

\* A resource row changes nothing of the capacity.
LEMMA ResourceRow ==
    ASSUME NEW L \in Ledgers, LedgerOK(L), NEW w \in Rows, RowAccepted(L, w),
           w.state \in {"CREATE_INTENT", "CREATED"}
    PROVE  /\ SameLease(L, AfterRow(L, w))
           /\ AfterRow(L, w)[w.run].resources[w.res] = w.state
  <1>1. L[w.run] \in Entries /\ w.res \in Res
    BY AcceptedFacts
  <1>2. /\ EntryAfter(L[w.run], w) \in Entries /\ SameEntry(L[w.run], EntryAfter(L[w.run], w))
        /\ EntryAfter(L[w.run], w).resources[w.res] = w.state
    BY <1>1, ResourceFields
  <1>3. /\ AfterRow(L, w)[w.run] = EntryAfter(L[w.run], w)
        /\ \A n \in Runs : n # w.run => AfterRow(L, w)[n] = L[n]
    BY <1>2, AfterRowFacts
  <1>4. ASSUME NEW n \in Runs PROVE SameEntry(L[n], AfterRow(L, w)[n])
    <2>1. CASE n = w.run
      BY <2>1, <1>2, <1>3
    <2>2. CASE n # w.run
      <3>1. AfterRow(L, w)[n] = L[n]
        BY <2>2, <1>3
      <3> QED
        BY <3>1 DEF SameEntry
    <2> QED
      BY <2>1, <2>2
  <1> QED
    BY <1>2, <1>3, <1>4 DEF SameLease

\* record_create_intent: whoever asked for the resource before would still hold the
\* capacity for it.
LEMMA RecordIntentStep == ASSUME IInv, NEW s \in Servers, RecordIntent(s) PROVE IInv'
  <1> USE DEF IInv
  <1>1. /\ srv[s].pc = "probe" /\ broker[s].intent = "none" /\ broker[s].pending # NoRes
        /\ broker' = [broker EXCEPT ![s].intent = "sent"]
        /\ UNCHANGED <<disk, lock, flight, cluster, probes, posts, results, replies>>
    BY DEF RecordIntent, Usable, Write, effects, history
  <1>2. PICK w : w = Row(s, "CREATE_INTENT", srv[s].op, broker[s].pending, {})
    OBVIOUS
  <1>3. srv[s].run \in Runs /\ srv[s].op \in Ops /\ Ledger[srv[s].run].current = srv[s].op
    BY <1>1, OthersDown DEF PlaceInv, Place, Position
  <1>4. PICK b \in BrokerStates : b = broker[s]
    BY DEF TypeOK
  <1>5. PICK u : u = [b EXCEPT !.intent = "sent"]
    OBVIOUS
  <1>6. /\ u \in BrokerStates /\ u.intent = "sent" /\ u.pending = b.pending
        /\ u.exchange = b.exchange /\ u.created = b.created /\ u.result = b.result
        /\ u.retirement = b.retirement
    BY <1>5 DEF BrokerStates, Marked
  <1>7. broker' \in [Servers -> BrokerStates] /\ broker'[s] = u
    BY <1>1, <1>4, <1>5, <1>6 DEF TypeOK
  <1>8. PICK r \in Res : r = b.pending
    BY <1>1, <1>4 DEF BrokerStates
  <1>9. /\ w \in Rows /\ w.state = "CREATE_INTENT"
        /\ w.run = srv[s].run /\ w.op = srv[s].op /\ w.res = r
    BY <1>2, <1>3, <1>4, <1>8, RowFields
  <1>10. CASE torn' = "cached" /\ srv' = [srv EXCEPT ![s].pc = "failed"] /\ UNCHANGED cached
    BY <1>1, <1>7, <1>10, WriteFails
  <1>11. CASE /\ torn = "no" /\ RowAccepted(Ledger, w) /\ cached' = Append(cached, AfterRow(Ledger, w))
              /\ srv' = [srv EXCEPT ![s].pc = "sync", ![s].next = "probe", ![s].op = w.op]
              /\ UNCHANGED torn
    <2>1. /\ Ledger' = AfterRow(Ledger, w) /\ Ledger = disk
          /\ Len(cached') = 1 /\ cached'[1] = AfterRow(disk, w)
      BY <1>1, <1>9, <1>11, WriteRowFacts
    <2>2. /\ srv'[s].pc = "sync" /\ srv'[s].next = "probe"
          /\ srv'[s].run = srv[s].run /\ srv'[s].op = srv[s].op
      BY <1>3, <1>9, <1>11, SetRow DEF TypeOK, Positions
    <2>3. /\ disk \in Ledgers /\ SameLease(disk, AfterRow(disk, w))
          /\ AfterRow(disk, w)[srv[s].run].resources[r] = "CREATE_INTENT"
      BY <1>9, <1>11, <2>1, ResourceRow DEF TypeOK
    <2>4. disk[srv[s].run].held /\ disk[srv[s].run].resources[r] = "NONE"
      BY <1>9, <1>11, <2>1, <2>3, AcceptedFacts
    <2>5. posts[r] = 0
      <3>1. SUFFICES ASSUME posts[r] # 0 PROVE FALSE
        OBVIOUS
      <3>2. posts[r] \in Nat
        BY DEF TypeOK
      <3>3. PICK n \in Runs : disk[n].resources[r] # "NONE"
        BY <3>1, <3>2 DEF EffectInv
      <3>4. EntryOK(disk[n])
        BY DEF LedgerOK
      <3>5. disk[n].held
        BY <3>3, <3>4, OpsAssumption, ResAssumption DEF EntryOK
      <3>6. n = srv[s].run
        BY <1>3, <2>4, <3>5 DEF LedgerOK
      <3> QED
        BY <2>4, <3>3, <3>6
    <2>6. Place(s)'
      <3>1. Ledger'[srv[s].run].current = srv[s].op
        BY <1>3, <2>1, <2>3 DEF SameLease, SameEntry
      <3>2. SameLease(disk, cached[1])'
        BY <1>1, <2>1, <2>3 DEF SameLease
      <3> QED
        BY <1>1, <1>3, <2>1, <2>2, <3>1, <3>2 DEF Place, Position
    <2>7. BrokerOK(s, b)
      BY <1>1, <1>4 DEF BrokerInv
    <2>8. PhaseOrder(u)
      BY <1>1, <1>4, <1>6, <1>8, <2>7 DEF BrokerOK, PhaseOrder
    <2>9. BrokerOK(s, u)'
      BY <1>1, <1>4, <1>6, <1>8, <2>1, <2>2, <2>3, <2>5, <2>7, <2>8 DEF BrokerOK, PhaseOrder
    <2>10. BrokerOK(s, broker[s])'
      BY <1>7, <2>9 DEF BrokerOK
    <2> QED
      BY <1>1, <1>7, <1>9, <1>11, <2>6, <2>10, WriteDone
  <1> QED
    BY <1>1, <1>2, <1>10, <1>11 DEF RecordIntent, Write

\* record_api_created: the object is in the cluster and its identity goes to the ledger.
LEMMA RecordCreatedStep == ASSUME IInv, NEW s \in Servers, RecordCreated(s) PROVE IInv'
  <1> USE DEF IInv
  <1>1. /\ srv[s].pc = "probe" /\ broker[s].created = "none" /\ broker[s].exchange = "done"
        /\ broker' = [broker EXCEPT ![s].created = "sent"]
        /\ UNCHANGED <<disk, lock, flight, cluster, probes, posts, results, replies>>
    BY DEF RecordCreated, Usable, Write, effects, history
  <1>2. PICK w : w = Row(s, "CREATED", srv[s].op, broker[s].pending, {})
    OBVIOUS
  <1>3. srv[s].run \in Runs /\ srv[s].op \in Ops /\ Ledger[srv[s].run].current = srv[s].op
    BY <1>1, OthersDown DEF PlaceInv, Place, Position
  <1>4. PICK b \in BrokerStates : b = broker[s]
    BY DEF TypeOK
  <1>5. PICK u : u = [b EXCEPT !.created = "sent"]
    OBVIOUS
  <1>6. /\ u \in BrokerStates /\ u.created = "sent" /\ u.pending = b.pending
        /\ u.exchange = b.exchange /\ u.intent = b.intent /\ u.result = b.result
        /\ u.retirement = b.retirement
    BY <1>5 DEF BrokerStates, Marked
  <1>7. broker' \in [Servers -> BrokerStates] /\ broker'[s] = u
    BY <1>1, <1>4, <1>5, <1>6 DEF TypeOK
  <1>8. BrokerOK(s, b)
    BY <1>1, <1>4 DEF BrokerInv
  <1>9. PICK r \in Res : r = b.pending
    BY <1>1, <1>4, <1>8 DEF BrokerOK, PhaseOrder
  <1>10. w \in Rows /\ w.state = "CREATED" /\ w.run = srv[s].run /\ w.op = srv[s].op /\ w.res = r
    BY <1>2, <1>3, <1>4, <1>9, RowFields
  <1>11. CASE torn' = "cached" /\ srv' = [srv EXCEPT ![s].pc = "failed"] /\ UNCHANGED cached
    BY <1>1, <1>7, <1>11, WriteFails
  <1>12. CASE /\ torn = "no" /\ RowAccepted(Ledger, w) /\ cached' = Append(cached, AfterRow(Ledger, w))
              /\ srv' = [srv EXCEPT ![s].pc = "sync", ![s].next = "probe", ![s].op = w.op]
              /\ UNCHANGED torn
    <2>1. /\ Ledger' = AfterRow(Ledger, w) /\ Ledger = disk
          /\ Len(cached') = 1 /\ cached'[1] = AfterRow(disk, w)
      BY <1>1, <1>10, <1>12, WriteRowFacts
    <2>2. /\ srv'[s].pc = "sync" /\ srv'[s].next = "probe"
          /\ srv'[s].run = srv[s].run /\ srv'[s].op = srv[s].op
      BY <1>3, <1>10, <1>12, SetRow DEF TypeOK, Positions
    <2>3. /\ disk \in Ledgers /\ SameLease(disk, AfterRow(disk, w))
          /\ AfterRow(disk, w)[srv[s].run].resources[r] = "CREATED"
      BY <1>10, <1>12, <2>1, ResourceRow DEF TypeOK
    <2>4. Place(s)'
      <3>1. Ledger'[srv[s].run].current = srv[s].op
        BY <1>3, <2>1, <2>3 DEF SameLease, SameEntry
      <3>2. SameLease(disk, cached[1])'
        BY <1>1, <2>1, <2>3 DEF SameLease
      <3> QED
        BY <1>1, <1>3, <2>1, <2>2, <3>1, <3>2 DEF Place, Position
    <2>5. PhaseOrder(u)
      BY <1>1, <1>4, <1>6, <1>8, <1>9 DEF BrokerOK, PhaseOrder
    <2>6. BrokerOK(s, u)'
      BY <1>1, <1>4, <1>6, <1>8, <1>9, <2>1, <2>2, <2>3, <2>5 DEF BrokerOK, PhaseOrder
    <2>7. BrokerOK(s, broker[s])'
      BY <1>7, <2>6 DEF BrokerOK
    <2> QED
      BY <1>1, <1>7, <1>10, <1>12, <2>4, <2>7, WriteDone
  <1> QED
    BY <1>1, <1>2, <1>11, <1>12 DEF RecordCreated, Write

\* A phase of the channel that touches nothing but the channel.
LEMMA PhaseStep ==
    ASSUME IInv, NEW s \in Servers, srv[s].pc = "probe", NEW u \in BrokerStates, Phase(s, u),
           UNCHANGED <<effects, history>>, BrokerOK(s, u)
    PROVE  IInv'
  <1> USE DEF IInv
  <1>1. /\ UNCHANGED <<lock, disk, cached, torn, srv, flight, cluster, probes, posts, results, replies>>
        /\ broker' = [broker EXCEPT ![s] = u]
    BY DEF Phase, storage, effects, history
  <1>2. broker' \in [Servers -> BrokerStates] /\ broker'[s] = u
    BY <1>1, SetBroker DEF TypeOK
  <1>3. TypeOK'
    BY <1>1, <1>2 DEF TypeOK
  <1>4. LedgerOK(disk)' /\ ChainInv' /\ EffectInv'
    BY <1>1 DEF LedgerOK, ChainInv, EffectInv
  <1>5. Ledger' = Ledger
    BY <1>1 DEF Ledger
  <1>6. Up(s)' /\ Place(s)'
    BY <1>1, <1>5 DEF UpInv, Up, PlaceInv, Place, Position, SameLease
  <1>7. BrokerOK(s, broker[s])'
    BY <1>1, <1>2, <1>5 DEF BrokerOK
  <1>8. UpInv' /\ PlaceInv' /\ BrokerInv'
    <2>1. \A t \in Servers : t # s => srv'[t].pc = "down"
      BY <1>1, OthersDown
    <2> QED
      BY <1>6, <1>7, <2>1, OneServer
  <1> QED
    BY <1>3, <1>4, <1>8

\* begin, STARTED, the chunks, prepare_api, a failure: no phase of the CREATE moves.
LEMMA QuietPhase ==
    ASSUME IInv, NEW s \in Servers,
           Begin(s) \/ Started(s) \/ PrepareApi(s) \/ BrokerFails(s)
    PROVE  IInv'
  <1>1. PICK b \in BrokerStates : b = broker[s]
    BY DEF IInv, TypeOK
  <1>2. TRUE \in BOOLEAN
    BY Zenon
  <1>3. PICK u \in {[b EXCEPT !.dispatch = "sent"], [b EXCEPT !.dispatch = "done"],
                    [b EXCEPT !.api = "done"], [b EXCEPT !.closed = TRUE]} :
          Phase(s, u) /\ srv[s].pc = "probe" /\ UNCHANGED <<effects, history>>
    BY <1>1 DEF Begin, Started, PrepareApi, BrokerFails, Usable
  <1>4. /\ u \in BrokerStates /\ u.pending = b.pending /\ u.intent = b.intent
        /\ u.exchange = b.exchange /\ u.created = b.created /\ u.result = b.result
        /\ u.retirement = b.retirement
    BY <1>2 DEF BrokerStates, Marked
  <1>5. BrokerOK(s, b)
    BY <1>1, <1>3 DEF IInv, BrokerInv
  <1>6. BrokerOK(s, u)
    BY <1>4, <1>5 DEF BrokerOK, PhaseOrder
  <1> QED
    BY <1>3, <1>4, <1>6, PhaseStep

\* poll: a new action is pending only when none of the phases has begun.
LEMMA PollStep == ASSUME IInv, NEW s \in Servers, Poll(s) PROVE IInv'
  <1>1. PICK b \in BrokerStates : b = broker[s]
    BY DEF IInv, TypeOK
  <1>2. /\ srv[s].pc = "probe" /\ b.retirement = "none" /\ b.pending = NoRes
        /\ UNCHANGED <<effects, history>>
    BY <1>1 DEF Poll, Usable
  <1>3. BrokerOK(s, b)
    BY <1>1, <1>2 DEF IInv, BrokerInv
  <1>4. b.intent = "none" /\ b.exchange = "none" /\ b.created = "none" /\ b.result = "none"
    BY <1>2, <1>3, ResAssumption DEF BrokerOK, PhaseOrder, BrokerStates, Marked
  <1>5. CASE Phase(s, [b EXCEPT !.chunks = TRUE])
    <2>1. PICK u : u = [b EXCEPT !.chunks = TRUE]
      OBVIOUS
    <2>2. TRUE \in BOOLEAN
      BY Zenon
    <2>3. /\ u \in BrokerStates /\ u.pending = b.pending /\ u.intent = b.intent
          /\ u.exchange = b.exchange /\ u.created = b.created /\ u.result = b.result
          /\ u.retirement = b.retirement
      BY <2>1, <2>2 DEF BrokerStates
    <2>4. BrokerOK(s, u)
      BY <1>3, <2>3 DEF BrokerOK, PhaseOrder
    <2> QED
      BY <1>2, <1>5, <2>1, <2>3, <2>4, PhaseStep
  <1>6. ASSUME NEW r \in Res, Phase(s, [b EXCEPT !.pending = r]) PROVE IInv'
    <2>1. PICK u : u = [b EXCEPT !.pending = r]
      OBVIOUS
    <2>2. /\ u \in BrokerStates /\ u.pending = r /\ u.intent = b.intent
          /\ u.exchange = b.exchange /\ u.created = b.created /\ u.result = b.result
          /\ u.retirement = b.retirement
      BY <2>1 DEF BrokerStates
    <2>3. BrokerOK(s, u)
      BY <1>2, <1>4, <2>2 DEF BrokerOK, PhaseOrder
    <2> QED
      BY <1>2, <1>6, <2>1, <2>2, <2>3, PhaseStep
  <1> QED
    BY <1>1, <1>5, <1>6 DEF Poll

\* The response: the object exists.
LEMMA ResponseStep == ASSUME IInv, NEW s \in Servers, Response(s) PROVE IInv'
  <1>1. PICK b \in BrokerStates : b = broker[s]
    BY DEF IInv, TypeOK
  <1>2. PICK u : u = [b EXCEPT !.exchange = "done"]
    OBVIOUS
  <1>3. /\ srv[s].pc = "probe" /\ b.exchange = "sent" /\ UNCHANGED <<effects, history>>
        /\ [run |-> srv[s].run, res |-> b.pending] \in cluster /\ Phase(s, u)
    BY <1>1, <1>2 DEF Response, Usable
  <1>4. BrokerOK(s, b)
    BY <1>1, <1>3 DEF IInv, BrokerInv
  <1>5. /\ u \in BrokerStates /\ u.pending = b.pending /\ u.intent = b.intent
        /\ u.exchange = "done" /\ u.created = b.created /\ u.result = b.result
        /\ u.retirement = b.retirement
    BY <1>2 DEF BrokerStates, Marked
  <1>6. BrokerOK(s, u)
    BY <1>3, <1>4, <1>5 DEF BrokerOK, PhaseOrder
  <1> QED
    BY <1>3, <1>5, <1>6, PhaseStep

\* retire_create_result: nothing is pending any more.
LEMMA RetireStep == ASSUME IInv, NEW s \in Servers, Retire(s) PROVE IInv'
  <1>1. PICK b \in BrokerStates : b = broker[s]
    BY DEF IInv, TypeOK
  <1>2. PICK u : u = [b EXCEPT !.retirement = "done", !.pending = NoRes]
    OBVIOUS
  <1>3. srv[s].pc = "probe" /\ b.result = "done" /\ UNCHANGED <<effects, history>> /\ Phase(s, u)
    BY <1>1, <1>2 DEF Retire, Usable
  <1>4. BrokerOK(s, b)
    BY <1>1, <1>3 DEF IInv, BrokerInv
  <1>5. /\ u \in BrokerStates /\ u.pending = NoRes /\ u.intent = b.intent
        /\ u.exchange = b.exchange /\ u.created = b.created /\ u.result = b.result
        /\ u.retirement = "done"
    BY <1>2 DEF BrokerStates, Marked
  <1>6. BrokerOK(s, u)
    BY <1>3, <1>4, <1>5, ResAssumption DEF BrokerOK, PhaseOrder
  <1> QED
    BY <1>3, <1>5, <1>6, PhaseStep

\* A step that leaves the ledger, the servers' places and the channels alone.
LEMMA SendResultStep == ASSUME IInv, NEW s \in Servers, SendResult(s) PROVE IInv'
  <1> USE DEF IInv
  <1>1. PICK b \in BrokerStates : b = broker[s]
    BY DEF TypeOK
  <1>2. PICK u : u = [b EXCEPT !.result = "done"]
    OBVIOUS
  <1>3. PICK f : f = [run |-> srv[s].run, res |-> b.pending]
    OBVIOUS
  <1>4. /\ srv[s].pc = "probe" /\ b.result = "none" /\ b.created = "done"
        /\ UNCHANGED <<lock, disk, cached, torn, srv, flight, cluster, probes, posts, replies>>
        /\ broker' = [broker EXCEPT ![s] = u]
        /\ results' = results \cup {f}
    BY <1>1, <1>2, <1>3 DEF SendResult, Usable, Phase, storage, effects
  <1>5. BrokerOK(s, b)
    BY <1>1, <1>4 DEF BrokerInv
  <1>6. /\ u \in BrokerStates /\ u.pending = b.pending /\ u.intent = b.intent
        /\ u.exchange = b.exchange /\ u.created = b.created /\ u.result = "done"
        /\ u.retirement = b.retirement
    BY <1>2 DEF BrokerStates, Marked
  <1>7. BrokerOK(s, u)
    BY <1>4, <1>5, <1>6 DEF BrokerOK, PhaseOrder
  <1>8. broker' \in [Servers -> BrokerStates] /\ broker'[s] = u
    BY <1>4, <1>6, SetBroker DEF TypeOK
  <1>9. srv[s].run \in Runs /\ \A t \in Servers : t # s => srv[t].pc = "down"
    BY <1>4, OthersDown
  <1>10. PICK r \in Res : r = b.pending
    BY <1>4, <1>5 DEF BrokerOK, PhaseOrder
  <1>11. f \in Requests /\ f.run = srv[s].run /\ f.res = r
    BY <1>3, <1>9, <1>10 DEF Requests
  <1>12. Ledger = disk /\ Ledger' = Ledger
    BY <1>4 DEF UpInv, Up, Ledger
  <1>13. f \in cluster /\ disk[f.run].resources[f.res] = "CREATED"
    BY <1>3, <1>4, <1>5, <1>10, <1>11, <1>12 DEF BrokerOK, PhaseOrder
  <1>14. TypeOK'
    BY <1>4, <1>8, <1>11 DEF TypeOK
  <1>15. LedgerOK(disk)' /\ ChainInv'
    BY <1>4 DEF LedgerOK, ChainInv
  <1>16. Up(s)' /\ Place(s)' /\ BrokerOK(s, broker[s])'
    <2>1. Up(s)' /\ Place(s)'
      BY <1>4, <1>12 DEF UpInv, Up, PlaceInv, Place, Position, SameLease
    <2>2. BrokerOK(s, broker[s])'
      BY <1>4, <1>7, <1>8, <1>12 DEF BrokerOK
    <2> QED
      BY <2>1, <2>2
  <1>17. UpInv' /\ PlaceInv' /\ BrokerInv'
    BY <1>4, <1>9, <1>16, OneServer
  <1>18. EffectInv'
    BY <1>4, <1>13 DEF EffectInv
  <1> QED
    BY <1>14, <1>15, <1>17, <1>18

\* exchange_api_create: the intent is on the disk, and this is the first request.
LEMMA ExchangeStep == ASSUME IInv, NEW s \in Servers, Exchange(s) PROVE IInv'
  <1> USE DEF IInv
  <1>1. PICK b \in BrokerStates : b = broker[s]
    BY DEF TypeOK
  <1>2. PICK u : u = [b EXCEPT !.exchange = "sent"]
    OBVIOUS
  <1>3. PICK f : f = [run |-> srv[s].run, res |-> b.pending]
    OBVIOUS
  <1>4. /\ srv[s].pc = "probe" /\ b.exchange = "none" /\ b.intent = "done"
        /\ UNCHANGED <<lock, disk, cached, torn, srv, cluster, probes, results, replies>>
        /\ broker' = [broker EXCEPT ![s] = u]
        /\ flight' = flight \cup {f}
        /\ posts' = [posts EXCEPT ![b.pending] = posts[b.pending] + 1]
    BY <1>1, <1>2, <1>3 DEF Exchange, Usable, Phase, storage
  <1>5. BrokerOK(s, b)
    BY <1>1, <1>4 DEF BrokerInv
  <1>6. /\ u \in BrokerStates /\ u.pending = b.pending /\ u.intent = b.intent
        /\ u.exchange = "sent" /\ u.created = b.created /\ u.result = b.result
        /\ u.retirement = b.retirement
    BY <1>2 DEF BrokerStates, Marked
  <1>7. PhaseOrder(u) /\ u.created = "none"
    BY <1>4, <1>5, <1>6 DEF BrokerOK, PhaseOrder
  <1>8. broker' \in [Servers -> BrokerStates] /\ broker'[s] = u
    BY <1>4, <1>6, SetBroker DEF TypeOK
  <1>9. srv[s].run \in Runs /\ \A t \in Servers : t # s => srv[t].pc = "down"
    BY <1>4, OthersDown
  <1>10. PICK r \in Res : r = b.pending
    BY <1>4, <1>5 DEF BrokerOK, PhaseOrder
  <1>11. f \in Requests /\ f.run = srv[s].run /\ f.res = r
    BY <1>3, <1>9, <1>10 DEF Requests
  <1>12. Ledger = disk /\ Ledger' = Ledger
    BY <1>4 DEF UpInv, Up, Ledger
  <1>13. disk[f.run].resources[f.res] # "NONE" /\ posts[r] = 0
    BY <1>4, <1>5, <1>10, <1>11, <1>12 DEF BrokerOK, PhaseOrder
  <1>14. /\ posts' \in [Res -> Nat] /\ posts'[r] = 1
         /\ \A q \in Res : q # r => posts'[q] = posts[q]
    BY <1>4, <1>10, <1>13 DEF TypeOK
  <1>15. TypeOK'
    BY <1>4, <1>8, <1>11, <1>14 DEF TypeOK
  <1>16. LedgerOK(disk)' /\ ChainInv'
    BY <1>4 DEF LedgerOK, ChainInv
  <1>17. Up(s)' /\ Place(s)' /\ BrokerOK(s, broker[s])'
    <2>1. Up(s)' /\ Place(s)'
      BY <1>4, <1>12 DEF UpInv, Up, PlaceInv, Place, Position, SameLease
    <2>2. BrokerOK(s, broker[s])'
      BY <1>4, <1>5, <1>6, <1>7, <1>8, <1>12 DEF BrokerOK, PhaseOrder
    <2> QED
      BY <2>1, <2>2
  <1>18. UpInv' /\ PlaceInv' /\ BrokerInv'
    BY <1>4, <1>9, <1>17, OneServer
  <1>19. EffectInv'
    <2>1. \A q \in Res : posts'[q] <= 1
                         /\ (posts'[q] > 0 => \E n \in Runs : disk'[n].resources[q] # "NONE")
      <3> SUFFICES ASSUME NEW q \in Res
                   PROVE  posts'[q] <= 1
                          /\ (posts'[q] > 0 => \E n \in Runs : disk'[n].resources[q] # "NONE")
        OBVIOUS
      <3>1. CASE q = r
        BY <1>4, <1>9, <1>11, <1>13, <1>14, <3>1
      <3>2. CASE q # r
        BY <1>4, <1>14, <3>2 DEF EffectInv
      <3> QED
        BY <3>1, <3>2
    <2> QED
      BY <1>4, <1>13, <2>1 DEF EffectInv
  <1> QED
    BY <1>15, <1>16, <1>18, <1>19

\* The cluster applies a request, or never sees it.
LEMMA ApplyCreateStep == ASSUME IInv, NEW f \in flight, ApplyCreate(f) PROVE IInv'
  <1> USE DEF IInv
  <1>1. /\ UNCHANGED <<lock, disk, cached, torn, srv, broker, probes, posts, results, replies>>
        /\ flight' = flight \ {f} /\ cluster' \in {cluster, cluster \cup {f}}
    BY DEF ApplyCreate, storage, history
  <1>2. Ledger' = Ledger
    BY <1>1 DEF Ledger
  <1>3. TypeOK'
    BY <1>1 DEF TypeOK
  <1>4. LedgerOK(disk)' /\ ChainInv'
    BY <1>1 DEF LedgerOK, ChainInv
  <1>5. ASSUME NEW s \in Servers
        PROVE  /\ Up(s)' /\ Place(s)'
               /\ srv'[s].pc \notin {"down", "failed"} => BrokerOK(s, broker[s])'
    <2>1. Up(s)'
      BY <1>1 DEF UpInv, Up
    <2>2. Place(s)'
      BY <1>1, <1>2 DEF PlaceInv, Place, Position, SameLease
    <2>3. srv'[s].pc \notin {"down", "failed"} => BrokerOK(s, broker[s])'
      BY <1>1, <1>2 DEF BrokerInv, BrokerOK
    <2> QED
      BY <2>1, <2>2, <2>3
  <1>6. UpInv' /\ PlaceInv' /\ BrokerInv'
    BY <1>5 DEF UpInv, PlaceInv, BrokerInv
  <1>7. EffectInv'
    BY <1>1 DEF EffectInv
  <1> QED
    BY <1>3, <1>4, <1>6, <1>7

\* The probe is called once for a RUNNING row that is on the disk.
LEMMA ExecuteStep == ASSUME IInv, NEW s \in Servers, Execute(s) PROVE IInv'
  <1> USE DEF IInv
  <1>1. /\ srv[s].pc = "execute" /\ srv' = [srv EXCEPT ![s].pc = "probe"]
        /\ UNCHANGED <<lock, disk, cached, torn, broker, flight, cluster, posts, results, replies>>
    BY DEF Execute, storage, effects
  <1>2. PICK n, o : n = srv[s].run /\ o = srv[s].op
    OBVIOUS
  <1>3. n \in Runs /\ \A t \in Servers : t # s => srv[t].pc = "down"
    BY <1>1, <1>2, OthersDown
  <1>4. o \in Ops /\ Ledger[n].current = o /\ probes[n][o] = 0
    BY <1>1, <1>2 DEF PlaceInv, Place, Position
  <1>5. probes' = [probes EXCEPT ![n][o] = probes[n][o] + 1]
    BY <1>2 DEF Execute
  <1>6. /\ probes' \in [Runs -> [Ops -> Nat]] /\ probes'[n][o] = 1
        /\ \A m \in Runs, q \in Ops : m # n \/ q # o => probes'[m][q] = probes[m][q]
    BY <1>3, <1>4, <1>5 DEF TypeOK
  <1>7. /\ srv' \in [Servers -> ServerStates] /\ srv'[s].pc = "probe"
        /\ srv'[s].run = n /\ srv'[s].op = o
        /\ \A t \in Servers : t # s => srv'[t] = srv[t]
    <2>1. "probe" \in Positions
      BY DEF Positions
    <2> QED
      BY <1>1, <1>2, <2>1, SetPc DEF TypeOK
  <1>8. Ledger = disk /\ Ledger' = Ledger
    BY <1>1 DEF UpInv, Up, Ledger
  <1>9. o \in disk[n].done
    <2>1. EntryOK(disk[n])
      BY <1>3 DEF LedgerOK
    <2> QED
      BY <1>4, <1>8, <2>1, OpsAssumption DEF EntryOK
  <1>10. TypeOK'
    BY <1>1, <1>6, <1>7 DEF TypeOK
  <1>11. LedgerOK(disk)' /\ ChainInv'
    BY <1>1 DEF LedgerOK, ChainInv
  <1>12. Up(s)' /\ Place(s)' /\ BrokerOK(s, broker[s])'
    <2>1. Up(s)'
      BY <1>1, <1>2, <1>3, <1>7 DEF UpInv, Up
    <2>2. Place(s)'
      BY <1>4, <1>7, <1>8 DEF Place, Position
    <2>3. BrokerOK(s, broker[s])
      BY <1>1 DEF BrokerInv
    <2>4. BrokerOK(s, broker[s])'
      BY <1>1, <1>2, <1>7, <1>8, <2>3 DEF BrokerOK
    <2> QED
      BY <2>1, <2>2, <2>4
  <1>13. UpInv' /\ PlaceInv' /\ BrokerInv'
    BY <1>3, <1>7, <1>12, OneServer
  <1>14. EffectInv'
    <2>1. \A m \in Runs, q \in Ops :
            probes'[m][q] <= 1 /\ (probes'[m][q] > 0 => q \in disk'[m].done)
      <3> SUFFICES ASSUME NEW m \in Runs, NEW q \in Ops
                   PROVE  probes'[m][q] <= 1 /\ (probes'[m][q] > 0 => q \in disk'[m].done)
        OBVIOUS
      <3>1. CASE m = n /\ q = o
        BY <1>1, <1>6, <1>9, <3>1
      <3>2. CASE m # n \/ q # o
        BY <1>1, <1>6, <3>2 DEF EffectInv
      <3> QED
        BY <3>1, <3>2
    <2> QED
      BY <1>1, <2>1 DEF EffectInv
  <1> QED
    BY <1>10, <1>11, <1>13, <1>14

\* The reply follows the RECORDED row.
LEMMA ReplyStep == ASSUME IInv, NEW s \in Servers, Reply(s) PROVE IInv'
  <1> USE DEF IInv
  <1>1. /\ srv[s].pc \in {"pass", "fail"}
        /\ UNCHANGED <<lock, disk, cached, torn, broker, flight, cluster, probes, posts, results>>
    BY DEF Reply, storage, effects
  <1>2. PICK a \in {"serving", "finished"} : srv' = [srv EXCEPT ![s].pc = a, ![s].op = NoOp]
    BY DEF Reply
  <1>3. PICK p : p = [run |-> srv[s].run, op |-> srv[s].op, status |-> srv[s].pc]
    OBVIOUS
  <1>4. replies' = replies \cup {p}
    BY <1>3 DEF Reply
  <1>5. srv[s].run \in Runs /\ \A t \in Servers : t # s => srv[t].pc = "down"
    BY <1>1, OthersDown
  <1>6. Ledger = disk /\ Ledger' = Ledger
    BY <1>1 DEF UpInv, Up, Ledger
  <1>7. /\ srv[s].op \in Ops
        /\ srv[s].pc = "pass" => srv[s].op \in disk[srv[s].run].recorded
                                 /\ disk[srv[s].run].current = NoOp
    BY <1>1, <1>6 DEF PlaceInv, Place, Position
  <1>8. /\ p \in [run : Runs, op : Ops, status : {"pass", "fail"}]
        /\ p.status = "pass" => p.op \in disk[p.run].recorded /\ disk[p.run].current # p.op
    BY <1>1, <1>3, <1>5, <1>7, OpsAssumption
  <1>9. /\ srv' \in [Servers -> ServerStates] /\ srv'[s].pc = a /\ srv'[s].run = srv[s].run
        /\ \A t \in Servers : t # s => srv'[t] = srv[t]
    <2>1. a \in Positions
      BY DEF Positions
    <2>2. srv \in [Servers -> ServerStates]
      BY DEF TypeOK
    <2> QED
      BY <1>2, <2>1, <2>2, SetReply
  <1>10. TypeOK'
    BY <1>1, <1>4, <1>8, <1>9 DEF TypeOK
  <1>11. LedgerOK(disk)' /\ ChainInv'
    BY <1>1 DEF LedgerOK, ChainInv
  <1>12. Up(s)' /\ Place(s)' /\ BrokerOK(s, broker[s])'
    <2>1. Up(s)'
      BY <1>1, <1>5, <1>9 DEF UpInv, Up
    <2>2. Place(s)'
      BY <1>9 DEF Place, Position
    <2>3. BrokerOK(s, broker[s])
      BY <1>1 DEF BrokerInv
    <2>4. BrokerOK(s, broker[s])'
      BY <1>1, <1>6, <1>9, <2>3 DEF BrokerOK
    <2> QED
      BY <2>1, <2>2, <2>4
  <1>13. UpInv' /\ PlaceInv' /\ BrokerInv'
    BY <1>5, <1>9, <1>12, OneServer
  <1>14. EffectInv'
    BY <1>1, <1>4, <1>8 DEF EffectInv
  <1> QED
    BY <1>10, <1>11, <1>13, <1>14

\* A row has reached the disk: record returns.
LEMMA SyncStep == ASSUME IInv, NEW s \in Servers, Sync(s) PROVE IInv'
  <1> USE DEF IInv
  <1>1. /\ srv[s].pc = "sync" /\ disk' = Ledger /\ cached' = <<>>
        /\ srv' = [srv EXCEPT ![s].pc = srv[s].next]
        /\ UNCHANGED <<torn, lock, effects, history>>
    BY DEF Sync
  <1>2. PICK a \in {"serving", "execute", "probe", "pass", "fail"} : a = srv[s].next
    BY <1>1 DEF UpInv, Up
  <1>3. /\ srv' \in [Servers -> ServerStates] /\ srv'[s].pc = a /\ srv'[s].run = srv[s].run
        /\ srv'[s].op = srv[s].op
        /\ \A t \in Servers : t # s => srv'[t] = srv[t]
    <2>1. a \in Positions
      BY DEF Positions
    <2>2. srv \in [Servers -> ServerStates]
      BY DEF TypeOK
    <2> QED
      BY <1>1, <1>2, <2>1, <2>2, SetPc
  <1>4. srv[s].run \in Runs /\ lock = s /\ \A t \in Servers : t # s => srv[t].pc = "down"
    BY <1>1, OthersDown
  <1>5. Ledger' = Ledger
    BY <1>1 DEF Ledger
  <1>6. Ledger \in Ledgers /\ LedgerOK(Ledger) /\ Grows(disk, Ledger)
    BY ChainFacts
  <1>7. PICK b \in BrokerStates : b = broker[s]
    BY DEF TypeOK
  <1>8. PICK u : u = [b EXCEPT !.intent = IF b.intent = "sent" THEN "done" ELSE b.intent,
                               !.created = IF b.created = "sent" THEN "done" ELSE b.created]
    OBVIOUS
  <1>9. /\ u \in BrokerStates /\ u.pending = b.pending
        /\ u.intent = IF b.intent = "sent" THEN "done" ELSE b.intent
        /\ u.created = IF b.created = "sent" THEN "done" ELSE b.created
        /\ u.exchange = b.exchange /\ u.result = b.result /\ u.retirement = b.retirement
    BY <1>8 DEF BrokerStates, Marked
  <1>10. broker' \in [Servers -> BrokerStates] /\ broker'[s] = u
    BY <1>7, <1>8, <1>9 DEF Sync, TypeOK
  <1>11. TypeOK'
    BY <1>1, <1>3, <1>6, <1>10 DEF TypeOK, effects, history
  <1>12. LedgerOK(disk)' /\ ChainInv'
    BY <1>1, <1>6 DEF LedgerOK, ChainInv
  <1>13. Up(s)'
    BY <1>1, <1>3, <1>4 DEF UpInv, Up
  <1>14. Place(s)'
    <2>1. Position(s)' = Position(s)
      BY <1>1, <1>2, <1>3 DEF Position
    <2> QED
      BY <1>1, <1>2, <1>3, <1>5, <2>1 DEF PlaceInv, Place, history
  <1>15. BrokerOK(s, broker[s])'
    <2>1. BrokerOK(s, b)
      BY <1>1, <1>7 DEF BrokerInv
    <2>2. PhaseOrder(u)
      BY <1>9, <2>1 DEF BrokerOK, PhaseOrder
    <2>3. u.intent # "sent" /\ u.created # "sent"
      BY <1>9
    <2> QED
      BY <1>1, <1>3, <1>5, <1>9, <1>10, <2>1, <2>2, <2>3 DEF BrokerOK, effects, history
  <1>16. UpInv' /\ PlaceInv' /\ BrokerInv'
    BY <1>3, <1>4, <1>13, <1>14, <1>15, OneServer
  <1>17. EffectInv'
    BY <1>1, <1>6, EffectsKept
  <1> QED
    BY <1>11, <1>12, <1>16, <1>17

\* Every step of a server, one by one.
LEMMA ServerStep == ASSUME IInv, ProcessInv, NEW s \in Servers, Step(s) PROVE IInv'
  <1>1. CASE Sync(s)
    BY <1>1, SyncStep
  <1>2. CASE Reserve(s)
    BY <1>2, ReserveServer
  <1>3. CASE Execute(s)
    BY <1>3, ExecuteStep
  <1>4. CASE Reply(s)
    BY <1>4, ReplyStep
  <1>5. CASE Close(s)
    BY <1>5, CloseStep
  <1>6. CASE \E op \in Ops : Accept(s, op)
    BY <1>6, AcceptServer
  <1>7. CASE \E status \in {"PASS", "FAIL"}, remaining \in SUBSET Res : ProbeReturns(s, status, remaining)
    BY <1>7, ProbeReturnsServer
  <1>8. CASE Begin(s) \/ Started(s) \/ PrepareApi(s) \/ BrokerFails(s)
    BY <1>8, QuietPhase
  <1>9. CASE Poll(s)
    BY <1>9, PollStep
  <1>10. CASE RecordIntent(s)
    BY <1>10, RecordIntentStep
  <1>11. CASE Exchange(s)
    BY <1>11, ExchangeStep
  <1>12. CASE Response(s)
    BY <1>12, ResponseStep
  <1>13. CASE RecordCreated(s)
    BY <1>13, RecordCreatedStep
  <1>14. CASE SendResult(s)
    BY <1>14, SendResultStep
  <1>15. CASE Retire(s)
    BY <1>15, RetireStep
  <1>16. CASE Connect(s) \/ LoadIdentity(s) \/ Listen(s)
    BY <1>16, AcquireStep
  <1>17. CASE CloseNext(s)
    BY <1>17, CloseNextStep
  <1>18. CASE Exit(s)
    BY <1>18, ExitStep
  <1> QED
    BY <1>1, <1>2, <1>3, <1>4, <1>5, <1>6, <1>7, <1>8, <1>9, <1>10, <1>11, <1>12,
       <1>13, <1>14, <1>15, <1>16, <1>17, <1>18
    DEF Step

\* A step in which nothing moves.
LEMMA StutterStep == ASSUME IInv, UNCHANGED vars PROVE IInv'
  <1>1. UNCHANGED <<lock, disk, cached, torn, srv, broker, flight, cluster, probes, posts, results, replies>>
    BY DEF vars, storage, effects, history
  <1>2. Ledger' = Ledger
    BY <1>1 DEF Ledger
  <1>3. TypeOK' /\ LedgerOK(disk)' /\ ChainInv' /\ EffectInv'
    BY <1>1 DEF IInv, TypeOK, LedgerOK, ChainInv, EffectInv
  <1>4. UpInv' /\ PlaceInv'
    BY <1>1, <1>2 DEF IInv, UpInv, Up, PlaceInv, Place, Position
  <1>5. BrokerInv'
    BY <1>1, <1>2 DEF IInv, BrokerInv, BrokerOK
  <1> QED
    BY <1>3, <1>4, <1>5 DEF IInv

-----------------------------------------------------------------------------
(* What the processes hold. *)

\* Nobody holds anything at first.
LEMMA InitProcess == Init => ProcessInv
  <1> SUFFICES ASSUME Init PROVE ProcessInv
    OBVIOUS
  <1>1. \A s \in Servers : closing[s] = "no" /\ held[s] = {} /\ srv[s].pc = "down" /\ lock # s
    BY DownFacts, ServerAssumption DEF Init
  <1>2. /\ held \in [Servers -> SUBSET DOMAIN Turn]
        /\ closing \in [Servers -> {"no", "running", "failing", "returned", "raised"}]
    BY DEF Init
  <1> QED
    BY <1>1, <1>2 DEF ProcessInv, ProcessOK

\* A step that touches no process, and takes no server up or down.
LEMMA ProcessKept ==
    ASSUME ProcessInv, UNCHANGED <<lock, process>>,
           \A t \in Servers : srv'[t].pc = "down" <=> srv[t].pc = "down"
    PROVE  ProcessInv'
  BY DEF ProcessInv, ProcessOK, process

\* A server at work acquires or closes something other than the lock.
LEMMA ProcessHolds ==
    ASSUME ProcessInv, NEW s \in Servers, NEW h \in SUBSET DOMAIN Turn, "lock" \in h,
           held' = [held EXCEPT ![s] = h], UNCHANGED <<lock, closing>>,
           srv[s].pc # "down",
           \A t \in Servers : srv'[t].pc = "down" <=> srv[t].pc = "down"
    PROVE  ProcessInv'
  <1>1. held' \in [Servers -> SUBSET DOMAIN Turn] /\ held'[s] = h
        /\ \A t \in Servers : t # s => held'[t] = held[t]
    BY DEF ProcessInv
  <1>2. ASSUME NEW t \in Servers PROVE ProcessOK(t)'
    BY <1>1 DEF ProcessInv, ProcessOK
  <1> QED
    BY <1>1, <1>2 DEF ProcessInv

\* The names of the resources and their turns.
LEMMA TurnFacts ==
    /\ DOMAIN Turn = {"broker", "connection", "listener", "observer", "journal", "lock",
                      "self_inspection", "qualification_binding", "secrets", "files", "memfd"}
    /\ \A r \in Channels : ~(Turn["lock"] <= Turn[r])
    /\ Channels \subseteq DOMAIN Turn
  BY DEF Turn, Channels

\* A row of the ledger is written, whole or cut short, by a server at work.
LEMMA WriteUp ==
    ASSUME TypeOK, NEW s \in Servers, NEW w, NEW a, Write(s, w, a), srv[s].pc # "down"
    PROVE  \A t \in Servers : srv'[t].pc = "down" <=> srv[t].pc = "down"
  <1>1. srv \in [Servers -> ServerStates] /\ srv[s] \in ServerStates
    BY DEF TypeOK
  <1>2. PICK c : srv' = [srv EXCEPT ![s] = c] /\ c.pc \in {"sync", "failed"}
    <2>1. PICK d : d = [srv[s] EXCEPT !.pc = "sync", !.next = a, !.op = w.op]
      OBVIOUS
    <2>2. PICK f : f = [srv[s] EXCEPT !.pc = "failed"]
      OBVIOUS
    <2>3. d.pc = "sync" /\ f.pc = "failed"
      BY <1>1, <2>1, <2>2 DEF ServerStates
    <2>4. srv' = [srv EXCEPT ![s] = d] \/ srv' = [srv EXCEPT ![s] = f]
      BY <1>1, <2>1, <2>2 DEF Write
    <2> QED
      BY <2>3, <2>4
  <1>3. srv'[s] = c /\ \A t \in Servers : t # s => srv'[t] = srv[t]
    BY <1>1, <1>2
  <1> QED
    BY <1>2, <1>3

\* The steps of a server at work, other than close.
LEMMA WorkProcess ==
    ASSUME IInv, ProcessInv, NEW s \in Servers, Step(s),
           ~Close(s), ~CloseNext(s), ~Exit(s)
    PROVE  ProcessInv'
  <1>1. srv \in [Servers -> ServerStates] /\ srv[s] \in ServerStates /\ TypeOK
        /\ held \in [Servers -> SUBSET DOMAIN Turn]
    BY DEF IInv, TypeOK, ProcessInv
  <1>2. srv[s].pc # "down" => "lock" \in held[s]
    BY DEF ProcessInv, ProcessOK
  <1>3. CASE Sync(s)
    <2>1. UNCHANGED <<lock, process>> /\ srv[s].pc = "sync" /\ srv' = [srv EXCEPT ![s].pc = srv[s].next]
      BY <1>3 DEF Sync
    <2>2. srv[s].next # "down" /\ srv[s].next \in Positions
      BY <1>1, <2>1 DEF IInv, UpInv, Up, ServerStates
    <2>3. \A t \in Servers : srv'[t].pc = "down" <=> srv[t].pc = "down"
      BY <1>1, <2>1, <2>2, SetPc
    <2> QED
      BY <2>1, <2>3, ProcessKept
  <1>4. CASE Reserve(s) \/ RecordIntent(s) \/ RecordCreated(s)
             \/ \E status \in {"PASS", "FAIL"}, remaining \in SUBSET Res :
                  ProbeReturns(s, status, remaining)
    <2>1. PICK w, a : UNCHANGED process /\ Write(s, w, a) /\ srv[s].pc # "down"
      BY <1>4 DEF Reserve, RecordIntent, RecordCreated, ProbeReturns, Usable
    <2>2. UNCHANGED lock
      BY <2>1 DEF Write
    <2> QED
      BY <1>1, <2>1, <2>2, WriteUp, ProcessKept
  <1>5. CASE \E op \in Ops : Accept(s, op)
    <2>1. PICK w, a : /\ UNCHANGED closing /\ Write(s, w, a) /\ srv[s].pc # "down"
                      /\ held' = [held EXCEPT ![s] = held[s] \cup {"connection"}]
      BY <1>1, <1>5 DEF Accept, Gain
    <2>2. UNCHANGED lock
      BY <2>1 DEF Write
    <2>3. held[s] \cup {"connection"} \in SUBSET DOMAIN Turn /\ "lock" \in held[s] \cup {"connection"}
      BY <1>1, <1>2, <2>1, TurnFacts
    <2>4. \A t \in Servers : srv'[t].pc = "down" <=> srv[t].pc = "down"
      BY <1>1, <2>1, WriteUp
    <2> QED
      BY <2>1, <2>2, <2>3, <2>4, ProcessHolds
  <1>6. CASE Execute(s)
    <2>1. UNCHANGED <<lock, process>> /\ srv[s].pc # "down" /\ srv' = [srv EXCEPT ![s].pc = "probe"]
      BY <1>6 DEF Execute
    <2>2. \A t \in Servers : srv'[t].pc = "down" <=> srv[t].pc = "down"
      BY <1>1, <2>1, SetPc DEF Positions
    <2> QED
      BY <2>1, <2>2, ProcessKept
  <1>7. CASE Reply(s)
    <2>1. /\ UNCHANGED <<lock, closing>> /\ srv[s].pc # "down"
          /\ held' = [held EXCEPT ![s] = held[s] \ {"connection"}]
      BY <1>1, <1>7 DEF Reply, Drop
    <2>2. PICK a \in {"serving", "finished"} : srv' = [srv EXCEPT ![s].pc = a, ![s].op = NoOp]
      BY <1>7 DEF Reply
    <2>3. \A t \in Servers : srv'[t].pc = "down" <=> srv[t].pc = "down"
      BY <1>1, <2>1, <2>2, SetReply DEF Positions
    <2>4. held[s] \ {"connection"} \in SUBSET DOMAIN Turn /\ "lock" \in held[s] \ {"connection"}
      BY <1>1, <1>2, <2>1
    <2> QED
      BY <2>1, <2>3, <2>4, ProcessHolds
  <1>8. CASE Connect(s) \/ LoadIdentity(s) \/ Listen(s)
    <2>1. UNCHANGED <<lock, closing, srv>> /\ srv[s].pc # "down"
      BY <1>8 DEF Connect, LoadIdentity, Listen, Local
    <2>2. PICK h : /\ held' = [held EXCEPT ![s] = h]
                   /\ h \in {held[s] \cup {"observer"}, held[s] \cup {"broker"}, held[s] \cup {"memfd"},
                            (held[s] \ {"memfd"}) \cup {"listener"}}
      BY <1>1, <1>8 DEF Connect, LoadIdentity, Listen, Gain
    <2>3. h \in SUBSET DOMAIN Turn /\ "lock" \in h
      BY <1>1, <1>2, <2>1, <2>2, TurnFacts
    <2> QED
      BY <2>1, <2>2, <2>3, ProcessHolds
  <1>9. CASE Begin(s) \/ Started(s) \/ Poll(s) \/ PrepareApi(s) \/ Exchange(s) \/ Response(s)
             \/ SendResult(s) \/ Retire(s) \/ BrokerFails(s)
    <2>1. UNCHANGED <<lock, process, srv>>
      BY <1>9 DEF Begin, Started, Poll, PrepareApi, Exchange, Response, SendResult, Retire,
         BrokerFails, Phase
    <2> QED
      BY <2>1, ProcessKept
  <1> QED
    BY <1>3, <1>4, <1>5, <1>6, <1>7, <1>8, <1>9 DEF Step

\* The process of server s changes and those of the others do not.
LEMMA OtherProcesses ==
    ASSUME ProcessInv, NEW s \in Servers, NEW h \in SUBSET DOMAIN Turn,
           NEW c \in {"no", "running", "failing", "returned", "raised"},
           held' = [held EXCEPT ![s] = h], closing' = [closing EXCEPT ![s] = c],
           \A t \in Servers : t # s => srv'[t] = srv[t] /\ (lock' = t <=> lock = t),
           held'[s] = h /\ closing'[s] = c => ProcessOK(s)'
    PROVE  ProcessInv'
  <1>1. /\ held' \in [Servers -> SUBSET DOMAIN Turn] /\ held'[s] = h
        /\ closing' \in [Servers -> {"no", "running", "failing", "returned", "raised"}]
        /\ closing'[s] = c
        /\ \A t \in Servers : t # s => held'[t] = held[t] /\ closing'[t] = closing[t]
    BY DEF ProcessInv
  <1>2. ASSUME NEW t \in Servers PROVE ProcessOK(t)'
    <2>1. CASE t = s
      BY <1>1, <2>1
    <2>2. CASE t # s
      BY <1>1, <2>2 DEF ProcessInv, ProcessOK
    <2> QED
      BY <2>1, <2>2
  <1> QED
    BY <1>1, <1>2 DEF ProcessInv

\* close begins: everything but the connection is still to be closed.
LEMMA CloseProcess == ASSUME IInv, ProcessInv, NEW s \in Servers, Close(s) PROVE ProcessInv'
  <1>1. /\ held' = [held EXCEPT ![s] = held[s] \ {"connection"}] /\ lock' = lock
        /\ closing' = [closing EXCEPT ![s] = "running"]
        /\ srv' = [srv EXCEPT ![s] = Down] /\ srv[s].pc # "down"
    BY DEF Close, Drop, ProcessInv
  <1>2. srv'[s].pc = "down" /\ \A t \in Servers : t # s => srv'[t] = srv[t]
    BY <1>1, DownFacts DEF IInv, TypeOK
  <1>3. held[s] \ {"connection"} \in SUBSET DOMAIN Turn /\ "lock" \in held[s] /\ lock = s
    BY <1>1 DEF ProcessInv, ProcessOK
  <1>4. held'[s] = held[s] \ {"connection"} /\ closing'[s] = "running" => ProcessOK(s)'
    BY <1>1, <1>2, <1>3 DEF ProcessOK
  <1> QED
    BY <1>1, <1>2, <1>3, <1>4, OtherProcesses

\* One operation of close: the lock's turn comes when no channel is left.
LEMMA CloseNextProcess ==
    ASSUME IInv, ProcessInv, NEW s \in Servers, CloseNext(s) PROVE ProcessInv'
  <1>1. /\ UNCHANGED srv /\ closing[s] \in {"running", "failing"} /\ srv[s].pc = "down"
        /\ held[s] \in SUBSET DOMAIN Turn
    BY DEF CloseNext, ProcessInv, ProcessOK
  <1>2. ASSUME NEW r \in held[s], Due(s, r), Drop(s, r), lock' = lock \/ Closed(s, r),
               (Closed(s, r) /\ UNCHANGED closing) \/ closing' = [closing EXCEPT ![s] = "failing"]
        PROVE  ProcessInv'
    <2>1. PICK h : h = held[s] \ {r}
      OBVIOUS
    <2>2. h \in SUBSET DOMAIN Turn /\ held' = [held EXCEPT ![s] = h]
      BY <1>1, <1>2, <2>1 DEF Drop, ProcessInv
    <2>3. PICK c : c = closing'[s]
      OBVIOUS
    <2>4. c \in {"running", "failing"} /\ closing' = [closing EXCEPT ![s] = c]
          /\ (c = "running" => Closed(s, r) /\ closing[s] = "running")
      BY <1>1, <1>2, <2>3 DEF ProcessInv
    <2>5. \A t \in Servers : t # s => (lock' = t <=> lock = t)
      BY <1>2, ServerAssumption DEF Closed
    <2>6. r = "lock" => h \cap Channels = {}
      <3>1. r = "lock" => \A q \in Channels : q \notin held[s]
        BY <1>1, <1>2, TurnFacts DEF Due
      <3> QED
        BY <2>1, <3>1
    <2>7. r # "lock" => lock' = lock
      BY <1>2 DEF Closed
    <2>8. r = "lock" /\ c = "running" => lock' # s
      BY <2>4, ServerAssumption DEF Closed
    <2>9. /\ h \cap Channels # {} => "lock" \in h
          /\ "lock" \in h => lock' = s
          /\ lock' = s /\ c = "running" => "lock" \in h
      <3>1. /\ held[s] \cap Channels # {} => "lock" \in held[s]
            /\ "lock" \in held[s] => lock = s
            /\ lock = s /\ closing[s] = "running" => "lock" \in held[s]
        BY DEF ProcessInv, ProcessOK
      <3> QED
        BY <2>1, <2>4, <2>6, <2>7, <2>8, <3>1
    <2>10. held'[s] = h /\ closing'[s] = c => ProcessOK(s)'
      BY <1>1, <2>4, <2>9 DEF ProcessOK
    <2> QED
      BY <1>1, <2>2, <2>4, <2>5, <2>10, OtherProcesses
  <1>3. ASSUME held[s] = {}, UNCHANGED <<lock, held>>,
               closing' = [closing EXCEPT ![s] = IF @ = "running" THEN "returned" ELSE "raised"]
        PROVE  ProcessInv'
    <2>1. PICK c \in {"returned", "raised"} :
            closing' = [closing EXCEPT ![s] = c] /\ (c = "returned" => closing[s] = "running")
      BY <1>3 DEF ProcessInv
    <2>2. {} \in SUBSET DOMAIN Turn /\ held' = [held EXCEPT ![s] = {}]
      BY <1>3 DEF ProcessInv
    <2>3. held'[s] = {} /\ closing'[s] = c => ProcessOK(s)'
      BY <1>1, <1>3, <2>1 DEF ProcessInv, ProcessOK
    <2> QED
      BY <1>1, <1>3, <2>1, <2>2, <2>3, OtherProcesses
  <1> QED
    BY <1>2, <1>3 DEF CloseNext, Raised

\* A process ends, and another starts.
LEMMA ExitProcess == ASSUME IInv, ProcessInv, NEW s \in Servers, Exit(s) PROVE ProcessInv'
  <1>1. /\ held' = [held EXCEPT ![s] = {}] /\ closing' = [closing EXCEPT ![s] = "no"]
        /\ srv' = [srv EXCEPT ![s] = Down] /\ lock' = IF lock = s THEN NoServer ELSE lock
    BY DEF Exit
  <1>2. srv'[s].pc = "down" /\ \A t \in Servers : t # s => srv'[t] = srv[t]
    BY <1>1, DownFacts DEF IInv, TypeOK
  <1>3. lock' # s /\ \A t \in Servers : t # s => (lock' = t <=> lock = t)
    BY <1>1, ServerAssumption
  <1>4. held'[s] = {} /\ closing'[s] = "no" => ProcessOK(s)'
    BY <1>2, <1>3 DEF ProcessOK
  <1> QED
    BY <1>1, <1>2, <1>3, <1>4, OtherProcesses

\* A process starts when the lock is free, and takes it.
LEMMA StartProcess ==
    ASSUME IInv, ProcessInv, NEW s \in Servers, NEW n \in Runs, Start(s, n) PROVE ProcessInv'
  <1>1. PICK h : h = {"files", "secrets", "qualification_binding", "self_inspection", "journal", "lock"}
    OBVIOUS
  <1>2. /\ held' = [held EXCEPT ![s] = h] /\ closing' = [closing EXCEPT ![s] = "no"]
        /\ srv' = [srv EXCEPT ![s] = [Down EXCEPT !.pc = "boot", !.run = n]]
        /\ lock = NoServer /\ lock' = s
    BY <1>1 DEF Start, ProcessInv
  <1>3. srv'[s].pc = "boot" /\ \A t \in Servers : t # s => srv'[t] = srv[t]
    BY <1>2, DownFacts DEF IInv, TypeOK, ServerStates
  <1>4. \A t \in Servers : t # s => (lock' = t <=> lock = t)
    BY <1>2, ServerAssumption
  <1>5. h \in SUBSET DOMAIN Turn
    BY <1>1, TurnFacts
  <1>6. held'[s] = h /\ closing'[s] = "no" => ProcessOK(s)'
    BY <1>1, <1>2, <1>3 DEF ProcessOK
  <1> QED
    BY <1>2, <1>3, <1>4, <1>5, <1>6, OtherProcesses

\* What the processes hold, over every step.
LEMMA NextProcess == IInv /\ ProcessInv /\ [Next]_vars => ProcessInv'
  <1> SUFFICES ASSUME IInv, ProcessInv, [Next]_vars PROVE ProcessInv'
    OBVIOUS
  <1>1. ASSUME NEW s \in Servers, Step(s) PROVE ProcessInv'
    BY <1>1, WorkProcess, CloseProcess, CloseNextProcess, ExitProcess
  <1>2. ASSUME NEW s \in Servers, NEW n \in Runs, Start(s, n) PROVE ProcessInv'
    BY <1>2, StartProcess
  <1>3. ASSUME NEW f \in flight, ApplyCreate(f) PROVE ProcessInv'
    BY <1>3, ProcessKept DEF ApplyCreate
  <1>4. CASE PowerLoss
    BY <1>4, DownFacts, ServerAssumption DEF PowerLoss, ProcessInv, ProcessOK
  <1>5. CASE UNCHANGED vars
    BY <1>5, ProcessKept DEF vars
  <1> QED
    BY <1>1, <1>2, <1>3, <1>4, <1>5 DEF Next

\* The inductive invariant is one.
LEMMA NextInv == IInv /\ ProcessInv /\ [Next]_vars => IInv'
  <1> SUFFICES ASSUME IInv, ProcessInv, [Next]_vars PROVE IInv'
    OBVIOUS
  <1>1. ASSUME NEW s \in Servers, Step(s) PROVE IInv'
    BY <1>1, ServerStep
  <1>2. ASSUME NEW s \in Servers, NEW n \in Runs, Start(s, n) PROVE IInv'
    BY <1>2, StartStep
  <1>3. ASSUME NEW f \in flight, ApplyCreate(f) PROVE IInv'
    BY <1>3, ApplyCreateStep
  <1>4. CASE PowerLoss
    BY <1>4, PowerLossStep
  <1>5. CASE UNCHANGED vars
    BY <1>5, StutterStep
  <1> QED
    BY <1>1, <1>2, <1>3, <1>4, <1>5 DEF Next

\* The inductive invariant holds of every behaviour of the servers, the disk and
\* the cluster.
THEOREM Invariance == Spec => [](IInv /\ ProcessInv)
  <1>1. Init => IInv /\ ProcessInv
    BY InitInv, InitProcess
  <1>2. IInv /\ ProcessInv /\ [Next]_vars => (IInv /\ ProcessInv)'
    BY NextInv, NextProcess
  <1> QED
    BY <1>1, <1>2, PTL DEF Spec

\* close tries its operations one by one, each in a handler of its own, the storage
\* after broker, connection, listener and observer: the run lock outlasts them, and
\* nothing is left when it ends.
THEOREM TheLockOutlastsUse == Spec => []LockOutlastsUse
  <1>1. ProcessInv => LockOutlastsUse
    <2> SUFFICES ASSUME ProcessInv, NEW s \in Servers
                 PROVE  /\ held[s] \cap Channels # {} => lock = s
                        /\ closing[s] \in {"returned", "raised"} => held[s] = {}
                        /\ closing[s] = "returned" => lock # s
      BY DEF LockOutlastsUse
    <2> QED
      BY DEF ProcessInv, ProcessOK
  <1> QED
    BY <1>1, Invariance, PTL

\* What is on its way or in the cluster belongs to the current operation of a run
\* that holds the capacity.
LEMMA ExposedIsCurrent ==
    ASSUME IInv, NEW f \in flight \cup cluster
    PROVE  /\ f.run \in Runs /\ f.res \in Res /\ CaseOf[f.res] \in Ops
           /\ disk[f.run].resources[f.res] # "NONE"
           /\ disk[f.run].current = CaseOf[f.res] /\ disk[f.run].held
  <1>1. f.run \in Runs /\ f.res \in Res /\ CaseOf[f.res] \in Ops /\ CaseOf[f.res] # NoOp
    BY OpsAssumption, ResAssumption DEF IInv, TypeOK, Requests
  <1>2. disk[f.run].resources[f.res] # "NONE"
    BY DEF IInv, EffectInv
  <1>3. EntryOK(disk[f.run])
    BY <1>1 DEF IInv, LedgerOK
  <1>4. disk[f.run].current = CaseOf[f.res]
    BY <1>1, <1>2, <1>3 DEF EntryOK
  <1>5. disk[f.run].held
    BY <1>1, <1>3, <1>4 DEF EntryOK
  <1> QED
    BY <1>1, <1>2, <1>4, <1>5

\* exchange_api_create sends nothing whose CREATE_INTENT row an fsync has not
\* covered, and parse_reservations releases no capacity while a resource row is
\* open: every resource, and every request that may still create one, stays under
\* a durable reservation.
THEOREM NothingIsOrphaned == Spec => []NoOrphan
  <1>1. IInv => NoOrphan
    BY ExposedIsCurrent DEF NoOrphan
  <1> QED
    BY <1>1, Invariance, PTL

\* The RUNNING row precedes the probe and the CREATE_INTENT row the POST, and the
\* ledger takes neither back: nothing is executed or requested twice.
THEOREM AttemptsAreSingle == Spec => []AtMostOnce
  <1>1. IInv => AtMostOnce
    BY DEF IInv, EffectInv, AtMostOnce
  <1> QED
    BY <1>1, Invariance, PTL

\* A PASS receipt is sent after the RECORDED row of an operation that left nothing,
\* and none of its requests is under way.
THEOREM PassesAreClean == Spec => []PassIsClean
  <1>1. IInv => PassIsClean
    <2> SUFFICES ASSUME IInv, NEW p \in replies, p.status = "pass"
                 PROVE  /\ p.op \in disk[p.run].recorded
                        /\ \A f \in flight \cup cluster : f.run = p.run => CaseOf[f.res] # p.op
      BY DEF PassIsClean
    <2>1. p.op \in disk[p.run].recorded /\ disk[p.run].current # p.op
      BY DEF IInv, EffectInv
    <2> QED
      BY <2>1, ExposedIsCurrent
  <1> QED
    BY <1>1, Invariance, PTL

\* send_create_result follows the fsync of the CREATED row and the answer of the
\* cluster, and nothing takes either away.
THEOREM ResultsAreDurable == Spec => []ResultIsDurable
  <1>1. IInv => ResultIsDurable
    BY DEF IInv, EffectInv, ResultIsDurable
  <1> QED
    BY <1>1, Invariance, PTL

\* A server past its reservation has read a whole file, so while a fragment is in
\* the file nobody runs a probe or sends a request.
THEOREM FragmentsStopWork == Spec => FragmentStopsWork
  <1>1. ASSUME IInv, [Next]_vars, torn # "no" PROVE UNCHANGED <<probes, posts>>
    <2>1. \A s \in Servers : srv[s].pc \in {"down", "boot", "failed"}
      BY <1>1 DEF IInv, UpInv, Up
    <2>2. ASSUME NEW s \in Servers, Step(s) PROVE UNCHANGED <<probes, posts>>
      <3>1. ~Execute(s) /\ ~Exchange(s) /\ ~Sync(s) /\ ~Reply(s)
        BY <2>1 DEF Execute, Exchange, Usable, Sync, Reply
      <3>2. ~SendResult(s)
        BY <2>1 DEF SendResult, Usable
      <3> QED
        BY <2>2, <3>1, <3>2
        DEF Step, Connect, LoadIdentity, Listen, Local, CloseNext, Exit,
            Reserve, Accept, ProbeReturns, Write, Close, Begin, Started, Poll, PrepareApi,
            RecordIntent, RecordCreated, Response, Retire, BrokerFails, history
    <2>3. ASSUME NEW s \in Servers, NEW n \in Runs, Start(s, n) PROVE UNCHANGED <<probes, posts>>
      BY <2>3 DEF Start, history
    <2>4. ASSUME NEW f \in flight, ApplyCreate(f) PROVE UNCHANGED <<probes, posts>>
      BY <2>4 DEF ApplyCreate, history
    <2>5. PowerLoss \/ UNCHANGED vars => UNCHANGED <<probes, posts>>
      BY DEF PowerLoss, vars, history
    <2> QED
      BY <1>1, <2>2, <2>3, <2>4, <2>5 DEF Next
  <1>2. IInv /\ [Next]_vars => [torn # "no" => UNCHANGED <<probes, posts>>]_vars
    BY <1>1
  <1> QED
    BY <1>2, Invariance, PTL DEF Spec, FragmentStopsWork

-----------------------------------------------------------------------------
(* The durable ledger implements CapacityLease.                             *)

\* The lease that a ledger, the servers and the cluster stand for.
HoldersOf(L) == {n \in Runs : L[n].held}
SpentOf(L) == {n \in Runs : L[n].seen}
BegunOf(L) == {p \in Runs \X Ops : p[2] \in L[p[1]].done}
CleanOf(L) == {p \in Runs \X Ops : p[2] \in L[p[1]].recorded /\ L[p[1]].current # p[2]}
WorkingOf(v) == {<<v[s].run, v[s].op>> : s \in {q \in Servers : v[q].pc = "probe"}}
ExposedBy(F) == {<<f.run, CaseOf[f.res]>> : f \in F}

\* Two sets of pairs of a run and an operation with the same pairs.
LEMMA SamePairs ==
    ASSUME NEW A \in SUBSET (Runs \X Ops), NEW B \in SUBSET (Runs \X Ops),
           \A n \in Runs, o \in Ops : <<n, o>> \in A <=> <<n, o>> \in B
    PROVE  A = B
  <1>1. \A p \in Runs \X Ops : \E n \in Runs, o \in Ops : p = <<n, o>>
    OBVIOUS
  <1>2. \A p : p \in A <=> p \in B
    BY <1>1
  <1> QED
    BY <1>2

\* The pairs begun and clean, one by one.
LEMMA Pairs ==
    ASSUME NEW L
    PROVE  /\ BegunOf(L) \in SUBSET (Runs \X Ops) /\ CleanOf(L) \in SUBSET (Runs \X Ops)
           /\ \A n \in Runs, o \in Ops :
                /\ <<n, o>> \in BegunOf(L) <=> o \in L[n].done
                /\ <<n, o>> \in CleanOf(L) <=> o \in L[n].recorded /\ L[n].current # o
  BY DEF BegunOf, CleanOf

\* No server is at the probe.
LEMMA NoneWorking ==
    ASSUME NEW v, \A s \in Servers : v[s].pc # "probe" PROVE WorkingOf(v) = {}
  BY DEF WorkingOf

\* The one server that is up is at the probe.
LEMMA OneWorking ==
    ASSUME NEW v, NEW s \in Servers, v[s].pc = "probe",
           \A t \in Servers : t # s => v[t].pc # "probe"
    PROVE  WorkingOf(v) = {<<v[s].run, v[s].op>>}
  BY DEF WorkingOf

\* Each step of the lease, in these terms.  Nothing moves.
LEMMA LeaseStutters ==
    ASSUME HoldersOf(disk') = HoldersOf(disk), SpentOf(disk') = SpentOf(disk),
           BegunOf(disk') = BegunOf(disk), CleanOf(disk') = CleanOf(disk),
           WorkingOf(srv') = WorkingOf(srv),
           ExposedBy(flight' \cup cluster') = ExposedBy(flight \cup cluster)
    PROVE  UNCHANGED Lease!vars
  BY DEF Lease!vars, HoldersOf, SpentOf, BegunOf, CleanOf, WorkingOf, ExposedBy

\* A run takes the free slot.
LEMMA LeaseAcquires ==
    ASSUME NEW n \in Runs, HoldersOf(disk) = {}, n \notin SpentOf(disk),
           HoldersOf(disk') = {n}, SpentOf(disk') = SpentOf(disk) \cup {n},
           BegunOf(disk') = BegunOf(disk), CleanOf(disk') = CleanOf(disk),
           WorkingOf(srv') = WorkingOf(srv),
           ExposedBy(flight' \cup cluster') = ExposedBy(flight \cup cluster)
    PROVE  Lease!Next
  <1>1. Lease!Acquire(n)
    BY DEF Lease!Acquire, HoldersOf, SpentOf, BegunOf, CleanOf, WorkingOf, ExposedBy
  <1> QED
    BY <1>1 DEF Lease!Next

\* The holder begins an operation.
LEMMA LeaseBegins ==
    ASSUME NEW n \in HoldersOf(disk), NEW op \in Ops, <<n, op>> \notin BegunOf(disk),
           \A o \in Ops : <<n, o>> \in BegunOf(disk) => <<n, o>> \in CleanOf(disk),
           BegunOf(disk') = BegunOf(disk) \cup {<<n, op>>},
           HoldersOf(disk') = HoldersOf(disk), SpentOf(disk') = SpentOf(disk),
           CleanOf(disk') = CleanOf(disk), WorkingOf(srv') = WorkingOf(srv),
           ExposedBy(flight' \cup cluster') = ExposedBy(flight \cup cluster)
    PROVE  Lease!Next
  <1>1. Lease!Begin(n, op)
    BY DEF Lease!Begin, Lease!Open, HoldersOf, SpentOf, BegunOf, CleanOf, WorkingOf,
       ExposedBy
  <1>2. n \in Runs
    BY DEF HoldersOf
  <1> QED
    BY <1>1, <1>2 DEF Lease!Next

\* An open operation is taken up.
LEMMA LeaseWorks ==
    ASSUME NEW n \in HoldersOf(disk), NEW op \in Ops,
           <<n, op>> \in BegunOf(disk), <<n, op>> \notin CleanOf(disk),
           WorkingOf(srv) = {}, WorkingOf(srv') = {<<n, op>>},
           HoldersOf(disk') = HoldersOf(disk), SpentOf(disk') = SpentOf(disk),
           BegunOf(disk') = BegunOf(disk), CleanOf(disk') = CleanOf(disk),
           ExposedBy(flight' \cup cluster') = ExposedBy(flight \cup cluster)
    PROVE  Lease!Next
  <1>1. Lease!Work(n, op)
    BY DEF Lease!Work, Lease!Open, HoldersOf, SpentOf, BegunOf, CleanOf, WorkingOf,
       ExposedBy
  <1>2. n \in Runs
    BY DEF HoldersOf
  <1> QED
    BY <1>1, <1>2 DEF Lease!Next

\* Work stops.
LEMMA LeaseRests ==
    ASSUME WorkingOf(srv') = {}, UNCHANGED <<disk, flight, cluster>>
    PROVE  Lease!Next
  <1>1. Lease!Rest
    BY DEF Lease!Rest, WorkingOf
  <1> QED
    BY <1>1 DEF Lease!Next

\* The operation at work touches the cluster.
LEMMA LeaseExposes ==
    ASSUME NEW n \in HoldersOf(disk), NEW op \in Ops,
           <<n, op>> \in BegunOf(disk), <<n, op>> \notin CleanOf(disk),
           WorkingOf(srv) = {<<n, op>>}, UNCHANGED <<disk, srv>>,
           ExposedBy(flight' \cup cluster') = ExposedBy(flight \cup cluster) \cup {<<n, op>>}
    PROVE  Lease!Next
  <1>1. Lease!Expose(n, op)
    BY DEF Lease!Expose, Lease!Open, HoldersOf, SpentOf, BegunOf, CleanOf, WorkingOf,
       ExposedBy
  <1>2. n \in Runs
    BY DEF HoldersOf
  <1> QED
    BY <1>1, <1>2 DEF Lease!Next

\* A request never took effect.
LEMMA LeaseVanishes ==
    ASSUME NEW n \in Runs, NEW op \in Ops, UNCHANGED <<disk, srv>>,
           ExposedBy(flight' \cup cluster') = ExposedBy(flight \cup cluster) \ {<<n, op>>}
    PROVE  Lease!Next
  <1>1. Lease!Vanish(n, op)
    BY DEF Lease!Vanish, ExposedBy
  <1> QED
    BY <1>1 DEF Lease!Next

\* An operation is known to be clean; the last one gives the slot back.
LEMMA LeaseFinishes ==
    ASSUME NEW n \in HoldersOf(disk), NEW op \in Ops,
           <<n, op>> \in BegunOf(disk), <<n, op>> \notin CleanOf(disk),
           WorkingOf(srv) = {}, <<n, op>> \notin ExposedBy(flight \cup cluster),
           CleanOf(disk') = CleanOf(disk) \cup {<<n, op>>},
           \/ /\ HoldersOf(disk') = IF \A o \in Ops : <<n, o>> \in CleanOf(disk') THEN {} ELSE HoldersOf(disk)
              /\ SpentOf(disk') = SpentOf(disk)
           \/ /\ \A o \in Ops : <<n, o>> \in CleanOf(disk')
              /\ \E m \in Runs \ SpentOf(disk) :
                   HoldersOf(disk') = {m} /\ SpentOf(disk') = SpentOf(disk) \cup {m},
           BegunOf(disk') = BegunOf(disk), WorkingOf(srv') = WorkingOf(srv),
           ExposedBy(flight' \cup cluster') = ExposedBy(flight \cup cluster)
    PROVE  Lease!Next
  <1>1. Lease!Finish(n, op)
    BY DEF Lease!Finish, Lease!Open, HoldersOf, SpentOf, BegunOf, CleanOf, WorkingOf,
       ExposedBy
  <1>2. n \in Runs
    BY DEF HoldersOf
  <1> QED
    BY <1>1, <1>2 DEF Lease!Next

\* Ledgers that say the same of every pair.
LEMMA SameBegun ==
    ASSUME NEW L, NEW M, \A n \in Runs, o \in Ops : o \in M[n].done <=> o \in L[n].done
    PROVE  BegunOf(M) = BegunOf(L)
  <1>1. \A n \in Runs, o \in Ops : <<n, o>> \in BegunOf(M) <=> <<n, o>> \in BegunOf(L)
    BY Pairs
  <1>2. BegunOf(M) \in SUBSET (Runs \X Ops) /\ BegunOf(L) \in SUBSET (Runs \X Ops)
    BY Pairs
  <1> QED
    BY <1>1, <1>2, SamePairs

\* The same for the operations known to be clean.
LEMMA SameClean ==
    ASSUME NEW L, NEW M, \A n \in Runs, o \in Ops :
             o \in M[n].recorded /\ M[n].current # o <=> o \in L[n].recorded /\ L[n].current # o
    PROVE  CleanOf(M) = CleanOf(L)
  <1>1. \A n \in Runs, o \in Ops : <<n, o>> \in CleanOf(M) <=> <<n, o>> \in CleanOf(L)
    BY Pairs
  <1>2. CleanOf(M) \in SUBSET (Runs \X Ops) /\ CleanOf(L) \in SUBSET (Runs \X Ops)
    BY Pairs
  <1> QED
    BY <1>1, <1>2, SamePairs

\* A row that gives or takes nothing leaves the lease as it is.
LEMMA SameLeaseFacts ==
    ASSUME NEW L, NEW M, SameLease(L, M)
    PROVE  /\ HoldersOf(M) = HoldersOf(L) /\ SpentOf(M) = SpentOf(L)
           /\ BegunOf(M) = BegunOf(L) /\ CleanOf(M) = CleanOf(L)
  <1>1. HoldersOf(M) = HoldersOf(L) /\ SpentOf(M) = SpentOf(L)
    BY DEF SameLease, SameEntry, HoldersOf, SpentOf
  <1>2. \A n \in Runs : L[n].done = M[n].done /\ L[n].recorded = M[n].recorded
                        /\ L[n].current = M[n].current
    BY DEF SameLease, SameEntry
  <1>3. BegunOf(M) = BegunOf(L)
    BY <1>2, SameBegun
  <1>4. CleanOf(M) = CleanOf(L)
    BY <1>2, SameClean
  <1> QED
    BY <1>1, <1>3, <1>4

\* A RESERVED row is accepted only while nobody holds the capacity, for a run never
\* seen before.
LEMMA ReservedMove ==
    ASSUME NEW L \in Ledgers, LedgerOK(L), NEW w \in Rows, RowAccepted(L, w), w.state = "RESERVED",
           NEW M, M = AfterRow(L, w)
    PROVE  /\ w.run \in Runs /\ HoldersOf(L) = {} /\ w.run \notin SpentOf(L)
           /\ HoldersOf(M) = {w.run} /\ SpentOf(M) = SpentOf(L) \cup {w.run}
           /\ BegunOf(M) = BegunOf(L) /\ CleanOf(M) = CleanOf(L)
  <1>1. PICK e \in Entries : e = L[w.run]
    BY AcceptedFacts
  <1>2. PICK x \in Entries : /\ x = EntryAfter(e, w) /\ x.seen /\ x.held /\ x.current = NoOp
                             /\ x.done = {} /\ x.recorded = {}
    BY <1>1, ReservedFields
  <1>3. w.run \in Runs /\ M[w.run] = x /\ \A n \in Runs : n # w.run => M[n] = L[n]
    BY <1>1, <1>2, AfterRowFacts
  <1>4. ~e.seen /\ \A n \in Runs : ~L[n].held
    BY <1>1, AcceptedFacts
  <1>5. e.done = {} /\ e.recorded = {}
    BY <1>1, <1>3, <1>4 DEF LedgerOK, EntryOK
  <1>6. HoldersOf(L) = {} /\ w.run \notin SpentOf(L)
    BY <1>1, <1>4 DEF HoldersOf, SpentOf
  <1>7. HoldersOf(M) = {w.run} /\ SpentOf(M) = SpentOf(L) \cup {w.run}
    BY <1>2, <1>3, <1>4 DEF HoldersOf, SpentOf
  <1>8. \A n \in Runs, o \in Ops : (o \in M[n].done <=> o \in L[n].done)
          /\ (o \in M[n].recorded /\ M[n].current # o <=> o \in L[n].recorded /\ L[n].current # o)
    BY <1>1, <1>2, <1>3, <1>5
  <1>9. BegunOf(M) = BegunOf(L)
    BY <1>8, SameBegun
  <1>10. CleanOf(M) = CleanOf(L)
    BY <1>8, SameClean
  <1> QED
    BY <1>3, <1>6, <1>7, <1>9, <1>10

\* A RUNNING row begins an operation of the holder when all it began before are clean.
LEMMA RunningMove ==
    ASSUME NEW L \in Ledgers, LedgerOK(L), NEW w \in Rows, RowAccepted(L, w), w.state = "RUNNING",
           NEW M, M = AfterRow(L, w)
    PROVE  /\ w.op \in Ops /\ w.run \in HoldersOf(L) /\ <<w.run, w.op>> \notin BegunOf(L)
           /\ \A o \in Ops : <<w.run, o>> \in BegunOf(L) => <<w.run, o>> \in CleanOf(L)
           /\ BegunOf(M) = BegunOf(L) \cup {<<w.run, w.op>>}
           /\ HoldersOf(M) = HoldersOf(L) /\ SpentOf(M) = SpentOf(L) /\ CleanOf(M) = CleanOf(L)
  <1>1. PICK e \in Entries : e = L[w.run]
    BY AcceptedFacts
  <1>2. /\ w.op \in Ops /\ e.seen /\ e.held /\ e.current = NoOp /\ w.op \notin e.done
    BY <1>1, AcceptedFacts
  <1>3. PICK x \in Entries : /\ x = EntryAfter(e, w) /\ (x.seen <=> e.seen) /\ (x.held <=> e.held)
                             /\ x.current = w.op /\ x.done = e.done \cup {w.op}
                             /\ x.recorded = e.recorded
    BY <1>1, <1>2, RunningFields
  <1>4. w.run \in Runs /\ M[w.run] = x /\ \A n \in Runs : n # w.run => M[n] = L[n]
    BY <1>1, <1>3, AfterRowFacts
  <1>5. e.recorded \subseteq e.done /\ e.done \ {e.current} \subseteq e.recorded
    BY <1>1, <1>4 DEF LedgerOK, EntryOK
  <1>6. HoldersOf(M) = HoldersOf(L) /\ SpentOf(M) = SpentOf(L) /\ w.run \in HoldersOf(L)
    BY <1>1, <1>2, <1>3, <1>4 DEF HoldersOf, SpentOf
  <1>7. NoOp \notin Ops
    BY OpsAssumption
  <1>8. \A n \in Runs, o \in Ops :
          /\ o \in M[n].done <=> o \in L[n].done \/ (n = w.run /\ o = w.op)
          /\ o \in M[n].recorded /\ M[n].current # o <=> o \in L[n].recorded /\ L[n].current # o
    BY <1>1, <1>2, <1>3, <1>4, <1>5, <1>7
  <1>9. BegunOf(M) = BegunOf(L) \cup {<<w.run, w.op>>}
    <2>1. BegunOf(L) \cup {<<w.run, w.op>>} \in SUBSET (Runs \X Ops)
      BY <1>2, <1>4, Pairs
    <2>2. \A n \in Runs, o \in Ops : <<n, o>> \in BegunOf(L) \cup {<<w.run, w.op>>}
            <=> <<n, o>> \in BegunOf(L) \/ (n = w.run /\ o = w.op)
      OBVIOUS
    <2> QED
      BY <1>8, <2>1, <2>2, Pairs, SamePairs
  <1>10. CleanOf(M) = CleanOf(L)
    BY <1>8, SameClean
  <1>11. <<w.run, w.op>> \notin BegunOf(L)
    BY <1>1, <1>2, <1>4, Pairs
  <1>12. ASSUME NEW o \in Ops, <<w.run, o>> \in BegunOf(L) PROVE <<w.run, o>> \in CleanOf(L)
    <2>1. o \in e.done
      BY <1>1, <1>4, <1>12, Pairs
    <2>2. o \in e.recorded /\ e.current # o
      BY <1>2, <1>5, <1>7, <2>1
    <2> QED
      BY <1>1, <1>4, <2>2, Pairs
  <1> QED
    BY <1>2, <1>6, <1>9, <1>10, <1>11, <1>12

\* A RECORDED row that lists something leaves its operation open.
LEMMA LeftoverMove ==
    ASSUME NEW L \in Ledgers, LedgerOK(L), NEW w \in Rows, RowAccepted(L, w), w.state = "RECORDED",
           w.remaining # {}, NEW M, M = AfterRow(L, w)
    PROVE  /\ HoldersOf(M) = HoldersOf(L) /\ SpentOf(M) = SpentOf(L)
           /\ BegunOf(M) = BegunOf(L) /\ CleanOf(M) = CleanOf(L) /\ w.run \in HoldersOf(M)
  <1>1. PICK e \in Entries : e = L[w.run]
    BY AcceptedFacts
  <1>2. w.op \in Ops /\ e.seen /\ e.held /\ e.current = w.op
    BY <1>1, AcceptedFacts
  <1>3. PICK x \in Entries : /\ x = EntryAfter(e, w) /\ (x.seen <=> e.seen) /\ x.held
                             /\ x.current = w.op /\ x.done = e.done
                             /\ x.recorded = e.recorded \cup {w.op}
    BY <1>1, <1>2, RecordedFields
  <1>4. w.run \in Runs /\ M[w.run] = x /\ \A n \in Runs : n # w.run => M[n] = L[n]
    BY <1>1, <1>3, AfterRowFacts
  <1>5. HoldersOf(M) = HoldersOf(L) /\ SpentOf(M) = SpentOf(L) /\ w.run \in HoldersOf(M)
    BY <1>1, <1>2, <1>3, <1>4 DEF HoldersOf, SpentOf
  <1>6. \A n \in Runs, o \in Ops :
          /\ o \in M[n].done <=> o \in L[n].done
          /\ o \in M[n].recorded /\ M[n].current # o <=> o \in L[n].recorded /\ L[n].current # o
    BY <1>1, <1>2, <1>3, <1>4
  <1>7. BegunOf(M) = BegunOf(L)
    BY <1>6, SameBegun
  <1>8. CleanOf(M) = CleanOf(L)
    BY <1>6, SameClean
  <1> QED
    BY <1>5, <1>7, <1>8

\* A RECORDED row that lists nothing finishes its operation, and the capacity is
\* released when every operation is clean.
LEMMA CleanMove ==
    ASSUME NEW L \in Ledgers, LedgerOK(L), NEW w \in Rows, RowAccepted(L, w), w.state = "RECORDED",
           w.remaining = {}, NEW M, M = AfterRow(L, w)
    PROVE  /\ w.op \in Ops /\ w.run \in HoldersOf(L)
           /\ <<w.run, w.op>> \in BegunOf(L) /\ <<w.run, w.op>> \notin CleanOf(L)
           /\ CleanOf(M) = CleanOf(L) \cup {<<w.run, w.op>>}
           /\ HoldersOf(M) = IF \A o \in Ops : <<w.run, o>> \in CleanOf(M) THEN {} ELSE HoldersOf(L)
           /\ SpentOf(M) = SpentOf(L) /\ BegunOf(M) = BegunOf(L)
           /\ \A r \in Res : L[w.run].resources[r] # "NONE" => CaseOf[r] # w.op
  <1>1. PICK e \in Entries : e = L[w.run]
    BY AcceptedFacts
  <1>2. w.op \in Ops /\ e.seen /\ e.held /\ e.current = w.op /\ ResourcesOf(e, w.op) = {}
    BY <1>1, AcceptedFacts
  <1>3. PICK x \in Entries : /\ x = EntryAfter(e, w) /\ (x.seen <=> e.seen)
                             /\ (x.held <=> e.done # Ops)
                             /\ x.current = NoOp /\ x.done = e.done
                             /\ x.recorded = e.recorded \cup {w.op}
    BY <1>1, <1>2, RecordedFields
  <1>4. w.run \in Runs /\ M[w.run] = x /\ \A n \in Runs : n # w.run => M[n] = L[n]
    BY <1>1, <1>3, AfterRowFacts
  <1>5. /\ e.recorded \subseteq e.done /\ e.done \ {e.current} \subseteq e.recorded
        /\ w.op \in e.done /\ e.done \subseteq Ops
    BY <1>1, <1>2, <1>4, OpsAssumption DEF LedgerOK, EntryOK, Entries
  <1>6. \A n \in Runs : L[n].held => n = w.run
    BY <1>1, <1>2, <1>4 DEF LedgerOK
  <1>7. HoldersOf(L) = {w.run} /\ SpentOf(M) = SpentOf(L)
    BY <1>1, <1>2, <1>3, <1>4, <1>6 DEF HoldersOf, SpentOf
  <1>8. NoOp \notin Ops
    BY OpsAssumption
  <1>9. \A n \in Runs, o \in Ops :
          /\ o \in M[n].done <=> o \in L[n].done
          /\ o \in M[n].recorded /\ M[n].current # o
               <=> (o \in L[n].recorded /\ L[n].current # o) \/ (n = w.run /\ o = w.op)
    BY <1>1, <1>2, <1>3, <1>4, <1>8
  <1>10. BegunOf(M) = BegunOf(L)
    BY <1>9, SameBegun
  <1>11. CleanOf(M) = CleanOf(L) \cup {<<w.run, w.op>>}
    <2>1. CleanOf(L) \cup {<<w.run, w.op>>} \in SUBSET (Runs \X Ops)
      BY <1>2, <1>4, Pairs
    <2>2. \A n \in Runs, o \in Ops : <<n, o>> \in CleanOf(L) \cup {<<w.run, w.op>>}
            <=> <<n, o>> \in CleanOf(L) \/ (n = w.run /\ o = w.op)
      OBVIOUS
    <2> QED
      BY <1>9, <2>1, <2>2, Pairs, SamePairs
  <1>12. <<w.run, w.op>> \in BegunOf(L) /\ <<w.run, w.op>> \notin CleanOf(L)
    BY <1>1, <1>2, <1>4, <1>5, Pairs
  <1>13. (\A o \in Ops : <<w.run, o>> \in CleanOf(M)) <=> e.done = Ops
    <2>1. \A o \in Ops : <<w.run, o>> \in CleanOf(M) <=> o \in e.recorded \cup {w.op}
      BY <1>3, <1>4, <1>8, Pairs
    <2>2. e.recorded \cup {w.op} = e.done
      BY <1>2, <1>5
    <2> QED
      BY <1>5, <2>1, <2>2
  <1>14. HoldersOf(M) = IF e.done = Ops THEN {} ELSE HoldersOf(L)
    <2>1. \A n \in Runs : M[n].held <=> n = w.run /\ e.done # Ops
      BY <1>3, <1>4, <1>6
    <2> QED
      BY <1>4, <1>7, <2>1 DEF HoldersOf
  <1>15. \A r \in Res : e.resources[r] # "NONE" => CaseOf[r] # w.op
    BY <1>2 DEF ResourcesOf
  <1> QED
    BY <1>1, <1>2, <1>7, <1>10, <1>11, <1>12, <1>13, <1>14, <1>15

\* One row reaches the disk while nobody is at work: a step of the lease or none.
LEMMA RowMove ==
    ASSUME IInv, NEW w \in Rows, RowAccepted(disk, w), disk' = AfterRow(disk, w),
           WorkingOf(srv) = {}, WorkingOf(srv') = {}, UNCHANGED <<flight, cluster>>
    PROVE  Lease!Next \/ UNCHANGED Lease!vars
  <1>1. disk \in Ledgers /\ LedgerOK(disk)
    BY DEF IInv, TypeOK
  <1>2. w.state \in {"RESERVED", "RUNNING", "CREATE_INTENT", "CREATED", "RECORDED"}
    BY DEF Rows
  <1>3. CASE w.state = "RESERVED"
    BY <1>1, <1>3, ReservedMove, LeaseAcquires
  <1>4. CASE w.state = "RUNNING"
    <2>1. /\ w.op \in Ops /\ w.run \in HoldersOf(disk) /\ <<w.run, w.op>> \notin BegunOf(disk)
          /\ \A o \in Ops : <<w.run, o>> \in BegunOf(disk) => <<w.run, o>> \in CleanOf(disk)
          /\ BegunOf(disk') = BegunOf(disk) \cup {<<w.run, w.op>>}
          /\ HoldersOf(disk') = HoldersOf(disk) /\ SpentOf(disk') = SpentOf(disk)
          /\ CleanOf(disk') = CleanOf(disk)
      BY <1>1, <1>4, RunningMove
    <2> QED
      BY <2>1, LeaseBegins
  <1>5. CASE w.state \in {"CREATE_INTENT", "CREATED"}
    BY <1>1, <1>5, ResourceRow, SameLeaseFacts, LeaseStutters
  <1>6. CASE w.state = "RECORDED" /\ w.remaining # {}
    BY <1>1, <1>6, LeftoverMove, LeaseStutters
  <1>7. CASE w.state = "RECORDED" /\ w.remaining = {}
    <2>1. /\ w.op \in Ops /\ w.run \in HoldersOf(disk)
          /\ <<w.run, w.op>> \in BegunOf(disk) /\ <<w.run, w.op>> \notin CleanOf(disk)
          /\ CleanOf(disk') = CleanOf(disk) \cup {<<w.run, w.op>>}
          /\ HoldersOf(disk') =
               IF \A o \in Ops : <<w.run, o>> \in CleanOf(disk') THEN {} ELSE HoldersOf(disk)
          /\ SpentOf(disk') = SpentOf(disk) /\ BegunOf(disk') = BegunOf(disk)
          /\ \A r \in Res : disk[w.run].resources[r] # "NONE" => CaseOf[r] # w.op
      BY <1>1, <1>7, CleanMove
    <2>2. <<w.run, w.op>> \notin ExposedBy(flight \cup cluster)
      BY <2>1, ExposedIsCurrent DEF ExposedBy
    <2> QED
      BY <2>1, <2>2, LeaseFinishes
  <1> QED
    BY <1>2, <1>3, <1>4, <1>5, <1>6, <1>7

\* Two rows reach the disk at once: the first released the capacity, or the second
\* would not have been accepted.
LEMMA TwoRowMove ==
    ASSUME IInv, Len(cached) = 2, disk' = cached[2],
           WorkingOf(srv) = {}, WorkingOf(srv') = {}, UNCHANGED <<flight, cluster>>
    PROVE  Lease!Next
  <1>1. disk \in Ledgers /\ LedgerOK(disk)
    BY DEF IInv, TypeOK
  <1>2. PICK w \in Rows : RowAccepted(disk, w) /\ cached[1] = AfterRow(disk, w)
    BY DEF IInv, ChainInv, RowStep
  <1>3. PICK M : M = cached[1]
    OBVIOUS
  <1>4. M = AfterRow(disk, w) /\ M \in Ledgers /\ LedgerOK(M)
    BY <1>1, <1>2, <1>3, RowFacts
  <1>5. PICK v \in Rows : v.state = "RESERVED" /\ RowAccepted(M, v) /\ disk' = AfterRow(M, v)
    BY <1>3 DEF IInv, ChainInv, ReserveStep
  <1>6. /\ v.run \in Runs /\ HoldersOf(M) = {} /\ v.run \notin SpentOf(M)
        /\ HoldersOf(disk') = {v.run} /\ SpentOf(disk') = SpentOf(M) \cup {v.run}
        /\ BegunOf(disk') = BegunOf(M) /\ CleanOf(disk') = CleanOf(M)
    BY <1>4, <1>5, ReservedMove
  <1>7. w.state \in {"RESERVED", "RUNNING", "CREATE_INTENT", "CREATED", "RECORDED"}
    BY DEF Rows
  <1>8. w.state # "RESERVED"
    BY <1>1, <1>2, <1>4, <1>6, ReservedMove
  <1>9. w.state # "RUNNING"
    <2> SUFFICES ASSUME w.state = "RUNNING" PROVE FALSE
      OBVIOUS
    <2>1. w.run \in HoldersOf(disk) /\ HoldersOf(M) = HoldersOf(disk)
      BY <1>1, <1>2, <1>4, RunningMove
    <2> QED
      BY <1>6, <2>1
  <1>10. w.state \notin {"CREATE_INTENT", "CREATED"}
    <2> SUFFICES ASSUME w.state \in {"CREATE_INTENT", "CREATED"} PROVE FALSE
      OBVIOUS
    <2>1. HoldersOf(M) = HoldersOf(disk)
      BY <1>1, <1>2, <1>4, ResourceRow, SameLeaseFacts
    <2>2. w.run \in HoldersOf(disk)
      BY <1>1, <1>2, AcceptedFacts DEF HoldersOf
    <2> QED
      BY <1>6, <2>1, <2>2
  <1>11. w.state = "RECORDED" /\ w.remaining = {}
    BY <1>1, <1>2, <1>4, <1>6, <1>7, <1>8, <1>9, <1>10, LeftoverMove
  <1>12. /\ w.op \in Ops /\ w.run \in HoldersOf(disk)
         /\ <<w.run, w.op>> \in BegunOf(disk) /\ <<w.run, w.op>> \notin CleanOf(disk)
         /\ CleanOf(M) = CleanOf(disk) \cup {<<w.run, w.op>>}
         /\ HoldersOf(M) = IF \A o \in Ops : <<w.run, o>> \in CleanOf(M) THEN {} ELSE HoldersOf(disk)
         /\ SpentOf(M) = SpentOf(disk) /\ BegunOf(M) = BegunOf(disk)
         /\ \A r \in Res : disk[w.run].resources[r] # "NONE" => CaseOf[r] # w.op
    BY <1>1, <1>2, <1>4, <1>11, CleanMove
  <1>13. \A o \in Ops : <<w.run, o>> \in CleanOf(M)
    BY <1>6, <1>12
  <1>14. <<w.run, w.op>> \notin ExposedBy(flight \cup cluster)
    BY <1>12, ExposedIsCurrent DEF ExposedBy
  <1>15. v.run \in Runs \ SpentOf(disk) /\ SpentOf(disk') = SpentOf(disk) \cup {v.run}
    BY <1>6, <1>12
  <1> QED
    BY <1>6, <1>12, <1>13, <1>14, <1>15, LeaseFinishes

\* Any of the rows no fsync had covered reaches the disk.
LEMMA ChainMove ==
    ASSUME IInv, NEW k \in 1..Len(cached), disk' = cached[k],
           WorkingOf(srv) = {}, WorkingOf(srv') = {}, UNCHANGED <<flight, cluster>>
    PROVE  Lease!Next \/ UNCHANGED Lease!vars
  <1>1. PICK m \in Nat : m = Len(cached) /\ m <= 2
    BY DEF IInv, TypeOK, ChainInv
  <1>2. k \in Nat /\ 1 <= k /\ k <= m
    BY <1>1
  <1>3. k = 1 \/ (k = 2 /\ m = 2)
    BY <1>1, <1>2
  <1>4. CASE k = 1
    <2>1. PICK w \in Rows : RowAccepted(disk, w) /\ cached[1] = AfterRow(disk, w)
      BY <1>1, <1>2, <1>4 DEF IInv, ChainInv, RowStep
    <2> QED
      BY <1>4, <2>1, RowMove
  <1>5. CASE k = 2 /\ m = 2
    BY <1>1, <1>5, TwoRowMove
  <1> QED
    BY <1>3, <1>4, <1>5

\* Whoever is at work works on the current operation of the holder.
LEMMA CurrentIsOpen ==
    ASSUME NEW L \in Ledgers, LedgerOK(L), NEW n \in Runs, NEW op \in Ops, L[n].current = op
    PROVE  n \in HoldersOf(L) /\ <<n, op>> \in BegunOf(L) /\ <<n, op>> \notin CleanOf(L)
  <1>1. op # NoOp /\ EntryOK(L[n])
    BY OpsAssumption DEF LedgerOK
  <1>2. L[n].held /\ op \in L[n].done
    BY <1>1 DEF EntryOK
  <1> QED
    BY <1>2, Pairs DEF HoldersOf

\* The fsync.
LEMMA SyncMove ==
    ASSUME IInv, NEW s \in Servers, Sync(s) PROVE Lease!Next \/ UNCHANGED Lease!vars
  <1>1. /\ srv[s].pc = "sync" /\ disk' = Ledger /\ UNCHANGED <<flight, cluster>>
        /\ srv' = [srv EXCEPT ![s].pc = srv[s].next]
    BY DEF Sync, effects
  <1>2. srv[s].run \in Runs /\ \A t \in Servers : t # s => srv[t].pc = "down"
    BY <1>1, OthersDown DEF IInv
  <1>3. PICK a \in Positions : a = srv[s].next
    BY DEF IInv, TypeOK, ServerStates
  <1>4. /\ srv'[s].pc = a /\ srv'[s].run = srv[s].run /\ srv'[s].op = srv[s].op
        /\ \A t \in Servers : t # s => srv'[t] = srv[t]
    <2>1. srv \in [Servers -> ServerStates]
      BY DEF IInv, TypeOK
    <2> QED
      BY <1>1, <1>3, <2>1, SetPc
  <1>5. WorkingOf(srv) = {}
    BY <1>1, <1>2, NoneWorking
  <1>6. disk \in Ledgers /\ LedgerOK(disk) /\ cached \in Seq(Ledgers)
    BY DEF IInv, TypeOK
  <1>7. CASE a # "probe"
    <2>1. WorkingOf(srv') = {}
      BY <1>2, <1>4, <1>7, NoneWorking
    <2>2. CASE cached = <<>>
      BY <1>1, <2>1, <2>2, LeaseRests DEF Ledger
    <2>3. CASE cached # <<>>
      <3>1. PICK k \in 1..Len(cached) : disk' = cached[k]
        BY <1>1, <1>6, <2>3 DEF Ledger
      <3> QED
        BY <1>1, <1>5, <2>1, <3>1, ChainMove
    <2> QED
      BY <2>2, <2>3
  <1>8. CASE a = "probe"
    <2>1. /\ Len(cached) = 1 /\ SameLease(disk, cached[1])
          /\ srv[s].op \in Ops /\ Ledger[srv[s].run].current = srv[s].op
      BY <1>1, <1>3, <1>8 DEF IInv, PlaceInv, Place, Position
    <2>2. Ledger = cached[1]
      <3>1. cached # <<>>
        <4>1. Len(<<>>) = 0
          OBVIOUS
        <4> QED
          BY <2>1, <4>1
      <3> QED
        BY <2>1, <3>1 DEF Ledger
    <2>3. SameLease(disk, disk')
      BY <1>1, <2>1, <2>2
    <2>4. disk[srv[s].run].current = srv[s].op
      BY <1>2, <2>1, <2>2 DEF SameLease, SameEntry
    <2>5. WorkingOf(srv') = {<<srv[s].run, srv[s].op>>}
      <3>1. srv'[s].pc = "probe" /\ \A t \in Servers : t # s => srv'[t].pc # "probe"
        BY <1>2, <1>4, <1>8
      <3> QED
        BY <1>4, <3>1, OneWorking
    <2>6. /\ srv[s].run \in HoldersOf(disk) /\ <<srv[s].run, srv[s].op>> \in BegunOf(disk)
          /\ <<srv[s].run, srv[s].op>> \notin CleanOf(disk)
      BY <1>2, <1>6, <2>1, <2>4, CurrentIsOpen
    <2> QED
      BY <1>1, <1>5, <2>1, <2>3, <2>5, <2>6, SameLeaseFacts, LeaseWorks
  <1> QED
    BY <1>7, <1>8

\* The probe is called.
LEMMA ExecuteMove ==
    ASSUME IInv, NEW s \in Servers, Execute(s) PROVE Lease!Next
  <1>1. /\ srv[s].pc = "execute" /\ srv' = [srv EXCEPT ![s].pc = "probe"]
        /\ UNCHANGED <<disk, flight, cluster>>
    BY DEF Execute, storage, effects
  <1>2. srv[s].run \in Runs /\ \A t \in Servers : t # s => srv[t].pc = "down"
    BY <1>1, OthersDown DEF IInv
  <1>3. /\ srv'[s].pc = "probe" /\ srv'[s].run = srv[s].run /\ srv'[s].op = srv[s].op
        /\ \A t \in Servers : t # s => srv'[t] = srv[t]
    <2>1. srv \in [Servers -> ServerStates] /\ "probe" \in Positions
      BY DEF IInv, TypeOK, Positions
    <2> QED
      BY <1>1, <2>1, SetPc
  <1>4. disk \in Ledgers /\ LedgerOK(disk) /\ cached = <<>>
    BY <1>1 DEF IInv, TypeOK, UpInv, Up
  <1>5. srv[s].op \in Ops /\ disk[srv[s].run].current = srv[s].op
    BY <1>1, <1>4 DEF IInv, PlaceInv, Place, Position, Ledger
  <1>6. WorkingOf(srv) = {}
    BY <1>1, <1>2, NoneWorking
  <1>7. WorkingOf(srv') = {<<srv[s].run, srv[s].op>>}
    BY <1>2, <1>3, OneWorking
  <1>8. /\ srv[s].run \in HoldersOf(disk) /\ <<srv[s].run, srv[s].op>> \in BegunOf(disk)
        /\ <<srv[s].run, srv[s].op>> \notin CleanOf(disk)
    BY <1>2, <1>4, <1>5, CurrentIsOpen
  <1> QED
    BY <1>1, <1>5, <1>6, <1>7, <1>8, LeaseWorks

\* The request is written.
LEMMA ExchangeMove ==
    ASSUME IInv, NEW s \in Servers, Exchange(s) PROVE Lease!Next
  <1>1. PICK r : r = broker[s].pending
    OBVIOUS
  <1>2. PICK f : f = [run |-> srv[s].run, res |-> r]
    OBVIOUS
  <1>3. /\ srv[s].pc = "probe" /\ UNCHANGED <<disk, srv, cluster>> /\ flight' = flight \cup {f}
    BY <1>1, <1>2 DEF Exchange, Usable, Phase, storage
  <1>4. srv[s].run \in Runs /\ \A t \in Servers : t # s => srv[t].pc = "down"
    BY <1>3, OthersDown DEF IInv
  <1>5. disk \in Ledgers /\ LedgerOK(disk) /\ cached = <<>>
    BY <1>3 DEF IInv, TypeOK, UpInv, Up
  <1>6. srv[s].op \in Ops /\ disk[srv[s].run].current = srv[s].op
    BY <1>3, <1>5 DEF IInv, PlaceInv, Place, Position, Ledger
  <1>7. r \in Res /\ disk[srv[s].run].resources[r] # "NONE"
    <2>1. broker[s].intent = "done" /\ broker[s].exchange = "none"
      BY DEF Exchange
    <2>2. BrokerOK(s, broker[s])
      BY <1>3 DEF IInv, BrokerInv
    <2> QED
      BY <1>1, <1>5, <2>1, <2>2 DEF BrokerOK, PhaseOrder, Ledger
  <1>8. CaseOf[r] = srv[s].op
    BY <1>4, <1>6, <1>7 DEF IInv, LedgerOK, EntryOK
  <1>9. WorkingOf(srv) = {<<srv[s].run, srv[s].op>>}
    BY <1>3, <1>4, OneWorking
  <1>10. ExposedBy(flight' \cup cluster') = ExposedBy(flight \cup cluster) \cup {<<srv[s].run, srv[s].op>>}
    <2>1. flight' \cup cluster' = (flight \cup cluster) \cup {f}
      BY <1>3
    <2>2. <<f.run, CaseOf[f.res]>> = <<srv[s].run, srv[s].op>>
      BY <1>2, <1>8
    <2> QED
      BY <2>1, <2>2 DEF ExposedBy
  <1>11. /\ srv[s].run \in HoldersOf(disk) /\ <<srv[s].run, srv[s].op>> \in BegunOf(disk)
         /\ <<srv[s].run, srv[s].op>> \notin CleanOf(disk)
    BY <1>4, <1>5, <1>6, CurrentIsOpen
  <1> QED
    BY <1>3, <1>6, <1>9, <1>10, <1>11, LeaseExposes

\* A request arrives, or is lost: then its operation may be exposed no more.
LEMMA ApplyMove ==
    ASSUME IInv, NEW f \in flight, ApplyCreate(f) PROVE Lease!Next \/ UNCHANGED Lease!vars
  <1>1. /\ UNCHANGED <<disk, srv>> /\ flight' = flight \ {f}
        /\ cluster' = cluster \/ cluster' = cluster \cup {f}
    BY DEF ApplyCreate, storage
  <1>2. PICK p : p = <<f.run, CaseOf[f.res]>>
    OBVIOUS
  <1>3. f.run \in Runs /\ CaseOf[f.res] \in Ops
    BY ExposedIsCurrent
  <1>4. CASE cluster' = cluster \cup {f}
    <2>1. flight' \cup cluster' = flight \cup cluster
      BY <1>1, <1>4
    <2> QED
      BY <1>1, <2>1, LeaseStutters
  <1>5. CASE cluster' = cluster
    <2>1. CASE \E g \in flight' \cup cluster' : p = <<g.run, CaseOf[g.res]>>
      <3>1. ExposedBy(flight' \cup cluster') = ExposedBy(flight \cup cluster)
        BY <1>1, <1>2, <1>5, <2>1 DEF ExposedBy
      <3> QED
        BY <1>1, <3>1, LeaseStutters
    <2>2. CASE ~\E g \in flight' \cup cluster' : p = <<g.run, CaseOf[g.res]>>
      <3>1. ExposedBy(flight' \cup cluster') = ExposedBy(flight \cup cluster) \ {p}
        BY <1>1, <1>2, <1>5, <2>2 DEF ExposedBy
      <3> QED
        BY <1>1, <1>2, <1>3, <3>1, LeaseVanishes
    <2> QED
      BY <2>1, <2>2
  <1> QED
    BY <1>1, <1>4, <1>5

\* The machine stops: some rows had reached the disk.
LEMMA PowerLossMove ==
    ASSUME IInv, PowerLoss PROVE Lease!Next \/ UNCHANGED Lease!vars
  <1>1. PICK k \in 0..Len(cached) : disk' = IF k = 0 THEN disk ELSE cached[k]
    BY DEF PowerLoss
  <1>2. srv' = [s \in Servers |-> Down] /\ UNCHANGED <<flight, cluster>>
    BY DEF PowerLoss, effects
  <1>3. WorkingOf(srv') = {}
    <2>1. \A s \in Servers : srv'[s].pc # "probe"
      BY <1>2, DownFacts
    <2> QED
      BY <2>1, NoneWorking
  <1>4. CASE k = 0
    BY <1>1, <1>2, <1>3, <1>4, LeaseRests
  <1>5. CASE k # 0
    <2>1. cached \in Seq(Ledgers) /\ Len(cached) \in Nat
      BY DEF IInv, TypeOK
    <2>2. k \in 1..Len(cached) /\ cached # <<>>
      BY <1>5, <2>1
    <2>3. \A s \in Servers : srv[s].pc # "probe"
      BY <2>2 DEF IInv, UpInv, Up
    <2> QED
      BY <1>1, <1>2, <1>3, <1>5, <2>2, <2>3, NoneWorking, ChainMove
  <1> QED
    BY <1>4, <1>5

\* A record call from any position, a reply and an exit: nobody is at work after it.
LEMMA RestMove ==
    ASSUME IInv, NEW s \in Servers, srv[s].pc # "down", UNCHANGED <<disk, flight, cluster>>,
           NEW c, srv' = [srv EXCEPT ![s] = c], c.pc # "probe"
    PROVE  Lease!Next
  <1>1. srv \in [Servers -> ServerStates]
    BY DEF IInv, TypeOK
  <1>2. \A t \in Servers : t # s => srv[t].pc = "down"
    BY OthersDown DEF IInv
  <1>3. \A t \in Servers : srv'[t].pc # "probe"
    BY <1>1, <1>2
  <1> QED
    BY <1>3, NoneWorking, LeaseRests

\* A record call of a server, with its row in the page cache or cut short.
LEMMA WriteMove ==
    ASSUME IInv, NEW s \in Servers, srv[s].pc # "down", NEW w, NEW a, Write(s, w, a) PROVE Lease!Next
  <1>1. UNCHANGED <<disk, flight, cluster>>
    BY DEF Write, effects
  <1>2. srv \in [Servers -> ServerStates] /\ srv[s] \in ServerStates
    BY DEF IInv, TypeOK
  <1>3. CASE srv' = [srv EXCEPT ![s].pc = "sync", ![s].next = a, ![s].op = w.op]
    <2>1. PICK c : c = [srv[s] EXCEPT !.pc = "sync", !.next = a, !.op = w.op]
      OBVIOUS
    <2>2. srv' = [srv EXCEPT ![s] = c] /\ c.pc = "sync"
      BY <1>2, <1>3, <2>1 DEF ServerStates
    <2> QED
      BY <1>1, <2>2, RestMove
  <1>4. CASE srv' = [srv EXCEPT ![s].pc = "failed"]
    <2>1. PICK c : c = [srv[s] EXCEPT !.pc = "failed"]
      OBVIOUS
    <2>2. srv' = [srv EXCEPT ![s] = c] /\ c.pc = "failed"
      BY <1>2, <1>4, <2>1 DEF ServerStates
    <2> QED
      BY <1>1, <2>2, RestMove
  <1> QED
    BY <1>3, <1>4 DEF Write

\* The reply is sent.
LEMMA ReplyMove == ASSUME IInv, NEW s \in Servers, Reply(s) PROVE Lease!Next
  <1>1. srv[s].pc # "down" /\ UNCHANGED <<disk, flight, cluster>>
    BY DEF Reply, storage, effects
  <1>2. srv \in [Servers -> ServerStates] /\ srv[s] \in ServerStates
    BY DEF IInv, TypeOK
  <1>3. PICK a \in {"serving", "finished"} : srv' = [srv EXCEPT ![s].pc = a, ![s].op = NoOp]
    BY DEF Reply
  <1>4. PICK c : c = [srv[s] EXCEPT !.pc = a, !.op = NoOp]
    OBVIOUS
  <1>5. srv' = [srv EXCEPT ![s] = c] /\ c.pc # "probe"
    BY <1>2, <1>3, <1>4 DEF ServerStates
  <1> QED
    BY <1>1, <1>5, RestMove

\* The end of a server: nobody else is at the probe if it was up, and the lease does
\* not move if it was down.
LEMMA EndMove ==
    ASSUME IInv, NEW s \in Servers, srv' = [srv EXCEPT ![s] = Down], UNCHANGED <<disk, flight, cluster>>
    PROVE  Lease!Next \/ UNCHANGED Lease!vars
  <1>1. CASE srv[s].pc # "down"
    <2>1. Down.pc # "probe"
      BY DownFacts
    <2> QED
      BY <1>1, <2>1, RestMove
  <1>2. CASE srv[s].pc = "down"
    <2>1. srv \in [Servers -> ServerStates]
      BY DEF IInv, TypeOK
    <2>2. /\ \A q \in Servers : srv'[q].pc = "probe" <=> srv[q].pc = "probe"
          /\ \A q \in Servers : srv[q].pc = "probe" => srv'[q] = srv[q]
      BY <1>2, <2>1, DownFacts
    <2>3. WorkingOf(srv') = WorkingOf(srv)
      BY <2>2 DEF WorkingOf
    <2> QED
      BY <2>3, LeaseStutters
  <1> QED
    BY <1>1, <1>2

\* The start of a server: all others are down.
LEMMA StartMove == ASSUME IInv, NEW s \in Servers, NEW n \in Runs, Start(s, n) PROVE Lease!Next
  <1>1. PICK c : c = [Down EXCEPT !.pc = "boot", !.run = n]
    OBVIOUS
  <1>2. lock = NoServer /\ UNCHANGED <<disk, flight, cluster>> /\ srv' = [srv EXCEPT ![s] = c]
    BY <1>1 DEF Start, storage, effects
  <1>3. c.pc = "boot"
    BY <1>1, DownFacts DEF ServerStates
  <1>4. \A t \in Servers : srv[t].pc = "down"
    BY <1>2, ServerAssumption DEF IInv, UpInv, Up
  <1>5. srv \in [Servers -> ServerStates]
    BY DEF IInv, TypeOK
  <1>6. \A t \in Servers : srv'[t].pc # "probe"
    BY <1>2, <1>3, <1>4, <1>5
  <1> QED
    BY <1>2, <1>6, NoneWorking, LeaseRests

\* A phase of the broker channel that sends nothing to the cluster.
LEMMA PhaseMove ==
    ASSUME UNCHANGED <<disk, srv, flight, cluster>> PROVE UNCHANGED Lease!vars
  BY LeaseStutters

\* Every step of the servers, the disk and the cluster is one of the lease, or none.
LEMMA LeaseStep == IInv /\ [Next]_vars => [Lease!Next]_(Lease!vars)
  <1> SUFFICES ASSUME IInv, [Next]_vars PROVE Lease!Next \/ UNCHANGED Lease!vars
    OBVIOUS
  <1>1. ASSUME NEW s \in Servers, Step(s) PROVE Lease!Next \/ UNCHANGED Lease!vars
    <2>1. CASE Sync(s)
      BY <2>1, SyncMove
    <2>2. CASE Reserve(s)
      <3>1. srv[s].pc # "down" /\ Write(s, Row(s, "RESERVED", NoOp, NoRes, {}), "serving")
        BY <2>2 DEF Reserve
      <3> QED
        BY <3>1, WriteMove
    <2>3. CASE \E op \in Ops : Accept(s, op)
      <3>1. PICK w : srv[s].pc # "down" /\ Write(s, w, "execute")
        BY <2>3 DEF Accept
      <3> QED
        BY <3>1, WriteMove
    <2>4. CASE \E status \in {"PASS", "FAIL"}, remaining \in SUBSET Res :
                 ProbeReturns(s, status, remaining)
      <3>1. PICK w, a : srv[s].pc # "down" /\ Write(s, w, a)
        BY <2>4 DEF ProbeReturns
      <3> QED
        BY <3>1, WriteMove
    <2>5. CASE RecordIntent(s)
      <3>1. PICK w : srv[s].pc # "down" /\ Write(s, w, "probe")
        BY <2>5 DEF RecordIntent, Usable
      <3> QED
        BY <3>1, WriteMove
    <2>6. CASE RecordCreated(s)
      <3>1. PICK w : srv[s].pc # "down" /\ Write(s, w, "probe")
        BY <2>6 DEF RecordCreated, Usable
      <3> QED
        BY <3>1, WriteMove
    <2>7. CASE Execute(s)
      BY <2>7, ExecuteMove
    <2>8. CASE Exchange(s)
      BY <2>8, ExchangeMove
    <2>9. CASE Reply(s)
      BY <2>9, ReplyMove
    <2>10. CASE Close(s) \/ Exit(s)
      BY <2>10, EndMove DEF Close, Exit, storage, effects
    <2>11. CASE Begin(s) \/ Started(s) \/ Poll(s) \/ PrepareApi(s) \/ Response(s) \/ SendResult(s)
                \/ Retire(s) \/ BrokerFails(s)
                \/ Connect(s) \/ LoadIdentity(s) \/ Listen(s) \/ CloseNext(s)
      <3>1. UNCHANGED <<disk, srv, flight, cluster>>
        BY <2>11 DEF Connect, LoadIdentity, Listen, Local, CloseNext, Begin, Started, Poll, PrepareApi, Response, SendResult,
           Retire, BrokerFails,
                     Phase, storage, effects
      <3> QED
        BY <3>1, PhaseMove
    <2> QED
      BY <1>1, <2>1, <2>2, <2>3, <2>4, <2>5, <2>6, <2>7, <2>8, <2>9, <2>10, <2>11 DEF Step
  <1>2. ASSUME NEW s \in Servers, NEW n \in Runs, Start(s, n) PROVE Lease!Next \/ UNCHANGED Lease!vars
    BY <1>2, StartMove
  <1>3. ASSUME NEW f \in flight, ApplyCreate(f) PROVE Lease!Next \/ UNCHANGED Lease!vars
    BY <1>3, ApplyMove
  <1>4. CASE PowerLoss
    BY <1>4, PowerLossMove
  <1>5. CASE UNCHANGED vars
    <2>1. UNCHANGED <<disk, srv, flight, cluster>>
      BY <1>5 DEF vars, storage, effects
    <2> QED
      BY <2>1, PhaseMove
  <1> QED
    BY <1>1, <1>2, <1>3, <1>4, <1>5 DEF Next

\* A machine that was never used stands for a free slot.
LEMMA LeaseInit == Init => Lease!Init
  <1> SUFFICES ASSUME Init PROVE Lease!Init
    OBVIOUS
  <1>1. \A n \in Runs : disk[n] = NoEntry
    BY DEF Init, EmptyLedger
  <1>2. HoldersOf(disk) = {} /\ SpentOf(disk) = {}
    BY <1>1, NoEntryFacts DEF HoldersOf, SpentOf
  <1>3. BegunOf(disk) = {} /\ CleanOf(disk) = {}
    BY <1>1, NoEntryFacts DEF BegunOf, CleanOf
  <1>4. WorkingOf(srv) = {}
    <2>1. \A s \in Servers : srv[s].pc # "probe"
      BY DownFacts DEF Init
    <2> QED
      BY <2>1, NoneWorking
  <1>5. ExposedBy(flight \cup cluster) = {}
    BY DEF Init, ExposedBy
  <1> QED
    BY <1>2, <1>3, <1>4, <1>5 DEF Lease!Init, HoldersOf, SpentOf, BegunOf, CleanOf,
       WorkingOf, ExposedBy

\* Over crashes, restarts, power losses, cut rows and late requests the durable ledger
\* of live_mutation_admission.py and the servers of live_proxy_server.py are a lease of
\* one slot.
THEOREM TheLedgerIsALease == Spec => ImplementsLease
  <1>1. Init => Lease!Init
    BY LeaseInit
  <1>2. IInv /\ [Next]_vars => [Lease!Next]_(Lease!vars)
    BY LeaseStep
  <1> QED
    BY <1>1, <1>2, Invariance, PTL DEF Spec, ImplementsLease, Lease!Spec

-----------------------------------------------------------------------------
(***************************************************************************)
(* The transcript of the broker channel: BrokerTranscript.                 *)
(***************************************************************************)

\* An accepted frame, and the kind of the last one.
HeaderRecords == [dispatch : {"ours", "another"}, executionId : Executions,
                  sequence : Int, previousDigest : Int]
FrameRecords == [header : HeaderRecords, payload : Payloads]
LastKind == IF log = <<>> THEN "NONE" ELSE Kind(Len(log))

\* What the parser's fields hold, and that number, link and execution are those of
\* the accepted frames.
TranscriptType ==
  /\ log \in Seq(FrameRecords) /\ chunks \in Seq(Data)
  /\ sequence = Len(log) /\ previous = Len(log)
  /\ execution = IF log = <<>> THEN None ELSE log[1].header.executionId

TranscriptFlags == failed_action \in BOOLEAN /\ poisoned \in BOOLEAN

\* The fields say which kind of frame came last.
LastInv ==
  /\ pending = IF LastKind = "RESOURCE_ACTION" THEN log[Len(log)].payload ELSE NoPayload
  /\ chunks # <<>> <=> LastKind \in {"RECEIPT_CHUNK", "CLEANUP_RECORDED", "TERMINAL"}
  /\ cleanup # NoPayload <=> LastKind \in {"CLEANUP_RECORDED", "TERMINAL"}
  /\ terminal # NoPayload <=> LastKind = "TERMINAL"

\* Every action is of the case, its identifier is taken, and the frame after it is its
\* result; a result that is no success is not forgotten.
ActionInv ==
  /\ \A i \in Of("RESOURCE_ACTION") :
       /\ log[i].payload.actionId \in actions
       /\ log[i].payload.manifest \in Owned
       /\ i # Len(log) =>
            /\ Kind(i + 1) = "RESOURCE_RESULT"
            /\ log[i + 1].payload.outcome \in Permitted(log[i].payload.verb) \cup {"DENIED", "AMBIGUOUS"}
  /\ \A i \in Of("RESOURCE_RESULT") :
       log[i].payload.outcome \in {"DENIED", "AMBIGUOUS"} => failed_action

\* The chunks are those of the accepted frames, in their order.
ChunkInv ==
  /\ Len(chunks) = Cardinality(Of("RECEIPT_CHUNK")) /\ Len(chunks) <= MaxReceipt
  /\ \A i \in Of("RECEIPT_CHUNK") :
       /\ log[i].payload.index \in 0..(Len(chunks) - 1)
       /\ chunks[log[i].payload.index + 1] = log[i].payload.data

\* The cleanup is the one recorded, and the terminal frame fits all of it.
EndInv ==
  /\ \A i \in Of("CLEANUP_RECORDED") : log[i].payload = cleanup
  /\ cleanup # NoPayload => (cleanup.state = "CLEAN" <=> cleanup.remaining = <<>>)
  /\ terminal # NoPayload =>
       /\ terminal.receiptDigest = chunks
       /\ terminal.status = "COMPLETED" => cleanup.state = "CLEAN" /\ ~failed_action

TranscriptInv == TranscriptType /\ TranscriptFlags /\ LastInv /\ ActionInv /\ ChunkInv /\ EndInv
                 /\ WellFormed

\* The kinds of payload the schema admits.
LEMMA PayloadFacts ==
    ASSUME NEW p \in Payloads
    PROVE  /\ p.kind \in {"STARTED", "ABORT", "REFUSED", "RESOURCE_ACTION", "RESOURCE_RESULT", "RECEIPT_CHUNK",
                          "CLEANUP_RECORDED", "TERMINAL"}
           /\ p # NoPayload
           /\ p.kind = "RECEIPT_CHUNK" => p.data \in Data
  <1>1. /\ p.kind \in {"STARTED", "ABORT", "REFUSED", "RESOURCE_ACTION", "RESOURCE_RESULT", "RECEIPT_CHUNK",
                       "CLEANUP_RECORDED", "TERMINAL"}
        /\ p.kind = "RECEIPT_CHUNK" => p.data \in Data
    BY DEF Payloads
  <1>2. NoPayload.kind = "NONE"
    BY DEF NoPayload
  <1> QED
    BY <1>1, <1>2

\* The places of a kind in the log.
LEMMA LogFacts ==
    ASSUME TranscriptType
    PROVE  /\ Len(log) \in Nat /\ DOMAIN log = 1..Len(log)
           /\ \A i \in 1..Len(log) : log[i] \in FrameRecords /\ log[i].payload \in Payloads
           /\ \A k : Of(k) \subseteq 1..Len(log) /\ IsFiniteSet(Of(k)) /\ Cardinality(Of(k)) \in Nat
           /\ log = <<>> <=> Len(log) = 0
  <1>1. log \in Seq(FrameRecords)
    BY DEF TranscriptType
  <1>2. Len(log) \in Nat /\ DOMAIN log = 1..Len(log) /\ \A i \in 1..Len(log) : log[i] \in FrameRecords
    BY <1>1
  <1>3. \A i \in 1..Len(log) : log[i].payload \in Payloads
    BY <1>2 DEF FrameRecords
  <1>4. ASSUME NEW k
        PROVE  Of(k) \subseteq 1..Len(log) /\ IsFiniteSet(Of(k)) /\ Cardinality(Of(k)) \in Nat
    <2>1. Of(k) \subseteq 1..Len(log)
      BY <1>2 DEF Of
    <2>2. IsFiniteSet(1..Len(log))
      BY <1>2, FS_Interval
    <2>3. IsFiniteSet(Of(k))
      BY <2>1, <2>2, FS_Subset
    <2> QED
      BY <2>1, <2>3, FS_CardinalityType
  <1>5. log = <<>> <=> Len(log) = 0
    BY <1>1
  <1> QED
    BY <1>2, <1>3, <1>4, <1>5

\* One more frame: the others stay, and its place is added to those of its kind.
LEMMA AppendLog ==
    ASSUME TranscriptType, NEW f \in FrameRecords, NEW n, n = Len(log), log' = Append(log, f)
    PROVE  /\ log' \in Seq(FrameRecords) /\ log' # <<>> /\ Len(log') = n + 1 /\ DOMAIN log' = 1..(n + 1)
           /\ \A i \in 1..n : log'[i] = log[i] /\ Kind(i)' = Kind(i)
           /\ log'[n + 1] = f /\ Kind(n + 1)' = f.payload.kind
           /\ \A k : Of(k)' = IF f.payload.kind = k THEN Of(k) \cup {n + 1} ELSE Of(k)
           /\ \A k : Cardinality(Of(k)') = IF f.payload.kind = k THEN Cardinality(Of(k)) + 1
                                                                ELSE Cardinality(Of(k))
           /\ \A k : \A i \in 1..n : {j \in Of(k)' : j < i} = {j \in Of(k) : j < i}
           /\ \A k : {j \in Of(k)' : j < n + 1} = Of(k)
  <1>1. log \in Seq(FrameRecords) /\ n \in Nat
    BY LogFacts DEF TranscriptType
  <1>2. /\ log' \in Seq(FrameRecords) /\ Len(log') = n + 1 /\ DOMAIN log' = 1..(n + 1)
        /\ \A i \in 1..n : log'[i] = log[i]
        /\ log'[n + 1] = f
    BY <1>1
  <1>3. log' # <<>>
    <2>1. Len(<<>>) = 0
      OBVIOUS
    <2> QED
      BY <1>1, <1>2, <2>1
  <1>4. (\A i \in 1..n : Kind(i)' = Kind(i)) /\ Kind(n + 1)' = f.payload.kind
    BY <1>2 DEF Kind
  <1>5. ASSUME NEW k
        PROVE  Of(k)' = IF f.payload.kind = k THEN Of(k) \cup {n + 1} ELSE Of(k)
    <2>1. Of(k) = {i \in 1..n : Kind(i) = k}
      BY LogFacts DEF Of
    <2>2. Of(k)' = {i \in 1..(n + 1) : Kind(i)' = k}
      BY <1>2 DEF Of, Kind
    <2>3. ASSUME NEW i
          PROVE  i \in Of(k)' <=> (i \in Of(k) \/ (i = n + 1 /\ f.payload.kind = k))
      <3>1. i \in 1..(n + 1) <=> i \in 1..n \/ i = n + 1
        BY <1>1
      <3>2. n + 1 \notin 1..n
        BY <1>1
      <3>3. i \in Of(k)' <=> i \in 1..(n + 1) /\ Kind(i)' = k
        BY <2>2
      <3>4. i \in Of(k) <=> i \in 1..n /\ Kind(i) = k
        BY <2>1
      <3> QED
        BY <1>4, <3>1, <3>2, <3>3, <3>4
    <2> QED
      BY <2>3
  <1>6. ASSUME NEW k
        PROVE  Cardinality(Of(k)') = IF f.payload.kind = k THEN Cardinality(Of(k)) + 1
                                                           ELSE Cardinality(Of(k))
    <2>1. IsFiniteSet(Of(k)) /\ n + 1 \notin Of(k)
      BY <1>1, LogFacts
    <2> QED
      BY <1>5, <2>1, FS_AddElement
  <1>7. ASSUME NEW k PROVE /\ \A i \in 1..n : {j \in Of(k)' : j < i} = {j \in Of(k) : j < i}
                           /\ {j \in Of(k)' : j < n + 1} = Of(k)
    <2>1. Of(k) \subseteq 1..n
      BY LogFacts
    <2>2. Of(k)' = Of(k) \/ Of(k)' = Of(k) \cup {n + 1}
      BY <1>5
    <2>3. ASSUME NEW i \in 1..n PROVE {j \in Of(k)' : j < i} = {j \in Of(k) : j < i}
      <3>1. ~(n + 1 < i)
        BY <1>1
      <3> QED
        BY <2>2, <3>1
    <2>4. {j \in Of(k)' : j < n + 1} = Of(k)
      <3>1. \A j \in Of(k) : j < n + 1
        BY <1>1, <2>1
      <3>2. ~(n + 1 < n + 1)
        BY <1>1
      <3> QED
        BY <2>2, <3>1, <3>2
    <2> QED
      BY <2>3, <2>4
  <1> QED
    BY <1>2, <1>3, <1>4, <1>5, <1>6, <1>7

\* A frame the parser takes: the part of accept in which it is not refused.
Taken(f, sender) ==
  /\ terminal = NoPayload
  /\ Accepted(f.header, f.payload, sender)
  /\ sequence' = f.header.sequence /\ previous' = f.header.sequence
  /\ execution' = f.header.executionId
  /\ pending' = IF f.payload.kind = "RESOURCE_ACTION" THEN f.payload ELSE NoPayload
  /\ actions' = IF f.payload.kind = "RESOURCE_ACTION" THEN actions \cup {f.payload.actionId} ELSE actions
  /\ failed_action' = (failed_action \/ (f.payload.kind = "RESOURCE_RESULT"
                                         /\ f.payload.outcome \in {"DENIED", "AMBIGUOUS"}))
  /\ chunks' = IF f.payload.kind = "RECEIPT_CHUNK" THEN Append(chunks, f.payload.data) ELSE chunks
  /\ cleanup' = IF f.payload.kind = "CLEANUP_RECORDED" THEN f.payload ELSE cleanup
  /\ terminal' = IF f.payload.kind = "TERMINAL" THEN f.payload ELSE terminal
  /\ log' = Append(log, f)
  /\ UNCHANGED poisoned

\* accept refuses and poisons the transcript, or takes the frame.
LEMMA AcceptCases ==
    ASSUME NEW f, NEW sender, accept(f, sender)
    PROVE  Poison \/ Taken(f, sender)
  BY DEF accept, Taken

\* The kind of the last accepted frame.
LEMMA LastFacts ==
    ASSUME TranscriptInv
    PROVE  /\ Len(log) = 0 <=> LastKind = "NONE"
           /\ LastKind \in {"NONE", "STARTED", "RESOURCE_ACTION", "RESOURCE_RESULT", "RECEIPT_CHUNK",
                            "CLEANUP_RECORDED", "TERMINAL"}
           /\ Len(log) # 0 => LastKind = Kind(Len(log)) /\ Len(log) \in 1..Len(log)
  <1>1. /\ Len(log) \in Nat /\ DOMAIN log = 1..Len(log) /\ log = <<>> <=> Len(log) = 0
        /\ \A i \in 1..Len(log) : log[i].payload \in Payloads
    BY LogFacts DEF TranscriptInv
  <1>2. CASE Len(log) = 0
    BY <1>1, <1>2 DEF LastKind
  <1>3. CASE Len(log) # 0
    <2>1. Len(log) \in 1..Len(log) /\ LastKind = Kind(Len(log))
      BY <1>1, <1>3 DEF LastKind
    <2>2. Kind(Len(log)) \notin {"ABORT", "REFUSED"}
      <3>1. WellFormed
        BY DEF TranscriptInv
      <3>2. \A i \in DOMAIN log : Kind(i) \notin {"ABORT", "REFUSED"}
        BY <3>1 DEF WellFormed, FrameFits
      <3> QED
        BY <1>1, <2>1, <3>2
    <2>3. Kind(Len(log)) \in {"STARTED", "ABORT", "REFUSED", "RESOURCE_ACTION", "RESOURCE_RESULT",
                              "RECEIPT_CHUNK", "CLEANUP_RECORDED", "TERMINAL"}
      BY <1>1, <2>1, PayloadFacts DEF Kind
    <2> QED
      BY <1>3, <2>1, <2>2, <2>3
  <1> QED
    BY <1>2, <1>3

\* What the checks of accept say of a frame it takes, in terms of the frames before it.
LEMMA TakenFacts ==
    ASSUME TranscriptInv, NEW f \in FrameRecords, NEW sender, Taken(f, sender)
    PROVE  /\ f.payload.kind \in {"STARTED", "RESOURCE_ACTION", "RESOURCE_RESULT", "RECEIPT_CHUNK",
                                  "CLEANUP_RECORDED", "TERMINAL"}
           /\ f.header.sequence = Len(log) + 1 /\ f.header.previousDigest = Len(log)
           /\ f.header.executionId \in Executions /\ f.header.dispatch = "ours"
           /\ f.payload.kind = "STARTED" <=> Len(log) = 0
           /\ Len(log) # 0 => f.header.executionId = log[1].header.executionId
           /\ f.payload.kind = "RESOURCE_ACTION" =>
                ActionAccepted(f.payload) /\ LastKind \in {"STARTED", "RESOURCE_RESULT"}
           /\ f.payload.kind = "RESOURCE_RESULT" =>
                ResultAccepted(f.payload) /\ LastKind = "RESOURCE_ACTION" /\ pending = log[Len(log)].payload
           /\ f.payload.kind = "RECEIPT_CHUNK" =>
                ChunkAccepted(f.payload) /\ LastKind \in {"STARTED", "RESOURCE_RESULT", "RECEIPT_CHUNK"}
           /\ f.payload.kind = "CLEANUP_RECORDED" =>
                CleanupAccepted(f.payload) /\ LastKind = "RECEIPT_CHUNK"
           /\ f.payload.kind = "TERMINAL" =>
                TerminalAccepted(f.payload) /\ LastKind = "CLEANUP_RECORDED"
  <1> DEFINE p == f.payload
  <1>1. /\ p \in Payloads /\ f.header.executionId \in Executions
        /\ Linked(f.header) /\ InExecution(f.header, p.kind) /\ terminal = NoPayload
    BY DEF Taken, Accepted, FrameRecords, HeaderRecords
  <1>2. /\ p.kind \in {"STARTED", "RESOURCE_ACTION", "RESOURCE_RESULT", "RECEIPT_CHUNK",
                       "CLEANUP_RECORDED", "TERMINAL"}
        /\ p.kind = "RESOURCE_ACTION" => ActionAccepted(p)
        /\ p.kind = "RESOURCE_RESULT" => ResultAccepted(p)
        /\ p.kind = "RECEIPT_CHUNK" => ChunkAccepted(p)
        /\ p.kind = "CLEANUP_RECORDED" => CleanupAccepted(p)
        /\ p.kind = "TERMINAL" => TerminalAccepted(p)
    <2>1. p.kind \in {"STARTED", "ABORT", "REFUSED", "RESOURCE_ACTION", "RESOURCE_RESULT", "RECEIPT_CHUNK",
                      "CLEANUP_RECORDED", "TERMINAL"}
      BY <1>1, PayloadFacts
    <2>2. CASE p.kind \in {"STARTED", "ABORT", "REFUSED"}
      BY <2>2 DEF Taken, Accepted
    <2>3. CASE p.kind = "RESOURCE_ACTION"
      BY <2>3 DEF Taken, Accepted
    <2>4. CASE p.kind = "RESOURCE_RESULT"
      BY <2>4 DEF Taken, Accepted
    <2>5. CASE p.kind = "RECEIPT_CHUNK"
      BY <2>5 DEF Taken, Accepted
    <2>6. CASE p.kind = "CLEANUP_RECORDED"
      BY <2>6 DEF Taken, Accepted
    <2>7. CASE p.kind = "TERMINAL"
      BY <2>7 DEF Taken, Accepted
    <2> QED
      BY <2>1, <2>2, <2>3, <2>4, <2>5, <2>6, <2>7
  <1>3. /\ sequence = Len(log) /\ previous = Len(log) /\ None \notin Executions
        /\ execution = IF log = <<>> THEN None ELSE log[1].header.executionId
    BY NoneAssumption DEF TranscriptInv, TranscriptType
  <1>4. /\ Len(log) \in Nat /\ log = <<>> <=> Len(log) = 0
        /\ \A i \in 1..Len(log) : log[i] \in FrameRecords
    BY LogFacts DEF TranscriptInv
  <1>5. f.header.sequence = Len(log) + 1 /\ f.header.previousDigest = Len(log) /\ f.header.dispatch = "ours"
    BY <1>1, <1>3 DEF Linked
  <1>6. Len(log) # 0 => execution = log[1].header.executionId /\ execution # None
    <2>1. Len(log) # 0 => log[1].header.executionId \in Executions
      BY <1>4 DEF FrameRecords, HeaderRecords
    <2> QED
      BY <1>3, <1>4, <2>1
  <1>7. Len(log) = 0 => execution = None
    BY <1>3, <1>4
  <1>8. /\ p.kind = "STARTED" <=> Len(log) = 0
        /\ Len(log) # 0 => f.header.executionId = log[1].header.executionId
    BY <1>1, <1>6, <1>7 DEF InExecution
  <1>9. LastInv /\ terminal = NoPayload
    BY <1>1 DEF TranscriptInv
  <1>10. \A i \in 1..Len(log) : log[i].payload # NoPayload
    BY <1>4, PayloadFacts DEF FrameRecords
  <1>11. pending = NoPayload <=> LastKind # "RESOURCE_ACTION"
    BY <1>9, <1>10, LastFacts DEF LastInv
  <1>12. p.kind = "RESOURCE_ACTION" => LastKind \in {"STARTED", "RESOURCE_RESULT"}
    BY <1>2, <1>8, <1>9, <1>11, LastFacts DEF LastInv, ActionAccepted
  <1>13. p.kind = "RESOURCE_RESULT" => LastKind = "RESOURCE_ACTION" /\ pending = log[Len(log)].payload
    BY <1>2, <1>9, <1>11 DEF LastInv, ResultAccepted
  <1>14. p.kind = "RECEIPT_CHUNK" => LastKind \in {"STARTED", "RESOURCE_RESULT", "RECEIPT_CHUNK"}
    BY <1>2, <1>8, <1>9, <1>11, LastFacts DEF LastInv, ChunkAccepted
  <1>15. p.kind = "CLEANUP_RECORDED" => LastKind = "RECEIPT_CHUNK"
    BY <1>2, <1>9 DEF LastInv, CleanupAccepted
  <1>16. p.kind = "TERMINAL" => LastKind = "CLEANUP_RECORDED"
    BY <1>2, <1>9 DEF LastInv, TerminalAccepted
  <1> QED
    BY <1>1, <1>2, <1>5, <1>8, <1>12, <1>13, <1>14, <1>15, <1>16

\* Taking a frame keeps the numbers, the link, the execution and the records.
LEMMA TakenType ==
    ASSUME TranscriptInv, NEW f \in FrameRecords, NEW sender, Taken(f, sender)
    PROVE  TranscriptType'
  <1>1. /\ log' \in Seq(FrameRecords) /\ log' # <<>> /\ Len(log') = Len(log) + 1
        /\ \A i \in 1..Len(log) : log'[i] = log[i]
        /\ log'[Len(log) + 1] = f
    BY AppendLog DEF TranscriptInv, Taken
  <1>2. Len(log) \in Nat
    BY LogFacts DEF TranscriptInv, TranscriptType
  <1>3. sequence' = Len(log') /\ previous' = Len(log')
    BY <1>1, TakenFacts DEF Taken
  <1>4. execution' = log'[1].header.executionId
    <2>1. CASE Len(log) = 0
      BY <1>1, <2>1 DEF Taken
    <2>2. CASE Len(log) # 0
      <3>1. log'[1] = log[1]
        BY <1>1, <1>2, <2>2
      <3> QED
        BY <2>2, <3>1, TakenFacts DEF Taken
    <2> QED
      BY <2>1, <2>2
  <1>5. chunks' \in Seq(Data)
    <2>1. chunks \in Seq(Data) /\ f.payload \in Payloads
      BY DEF TranscriptInv, TranscriptType, FrameRecords
    <2> QED
      BY <2>1, PayloadFacts DEF Taken
  <1> QED
    BY <1>1, <1>2, <1>3, <1>4, <1>5 DEF TranscriptType

\* ... and the fields say what kind of frame was taken.
LEMMA TakenLast ==
    ASSUME TranscriptInv, NEW f \in FrameRecords, NEW sender, Taken(f, sender)
    PROVE  LastInv'
  <1>0. PICK n : n = Len(log)
    OBVIOUS
  <1>1. log' # <<>> /\ Len(log') = n + 1 /\ log'[n + 1] = f
    BY <1>0, AppendLog DEF TranscriptInv, Taken
  <1>2. LastKind' = f.payload.kind /\ log'[Len(log')] = f
    BY <1>1 DEF LastKind, Kind
  <1>3. f.payload # NoPayload /\ (f.payload.kind = "RECEIPT_CHUNK" => f.payload.data \in Data)
    BY PayloadFacts DEF FrameRecords
  <1>4. chunks \in Seq(Data) /\ LastInv
    BY DEF TranscriptInv, TranscriptType
  <1>5. pending' = IF LastKind' = "RESOURCE_ACTION" THEN (log[Len(log)].payload)' ELSE NoPayload
    BY <1>2 DEF Taken
  <1>6. chunks' # <<>> <=> LastKind' \in {"RECEIPT_CHUNK", "CLEANUP_RECORDED", "TERMINAL"}
    <2>1. CASE f.payload.kind = "RECEIPT_CHUNK"
      <3>1. chunks' = Append(chunks, f.payload.data)
        BY <2>1 DEF Taken
      <3>2. Len(chunks') = Len(chunks) + 1 /\ Len(chunks) \in Nat
        BY <1>3, <1>4, <2>1, <3>1
      <3>3. Len(<<>>) = 0
        OBVIOUS
      <3> QED
        BY <1>2, <2>1, <3>2, <3>3
    <2>2. CASE f.payload.kind # "RECEIPT_CHUNK"
      <3>1. chunks' = chunks
        BY <2>2 DEF Taken
      <3>2. /\ f.payload.kind = "RESOURCE_ACTION" => chunks = <<>>
            /\ f.payload.kind = "RESOURCE_RESULT" => chunks = <<>>
            /\ f.payload.kind = "STARTED" => chunks = <<>>
        BY <1>4, TakenFacts, LastFacts DEF LastInv
      <3>3. /\ f.payload.kind = "CLEANUP_RECORDED" => chunks # <<>>
            /\ f.payload.kind = "TERMINAL" => chunks # <<>>
        BY <1>4, TakenFacts DEF LastInv
      <3> QED
        BY <1>2, <2>2, <3>1, <3>2, <3>3, TakenFacts
    <2> QED
      BY <2>1, <2>2
  <1>7. cleanup' # NoPayload <=> LastKind' \in {"CLEANUP_RECORDED", "TERMINAL"}
    <2>1. CASE f.payload.kind = "CLEANUP_RECORDED"
      BY <1>2, <1>3, <2>1 DEF Taken
    <2>2. CASE f.payload.kind # "CLEANUP_RECORDED"
      <3>1. cleanup' = cleanup
        BY <2>2 DEF Taken
      <3>2. LastKind = "CLEANUP_RECORDED" \/ LastKind = "TERMINAL" => f.payload.kind = "TERMINAL"
        BY <1>4, <2>2, TakenFacts, LastFacts DEF LastInv, Taken
      <3>3. f.payload.kind = "TERMINAL" => LastKind = "CLEANUP_RECORDED"
        BY TakenFacts
      <3> QED
        BY <1>2, <1>4, <2>2, <3>1, <3>2, <3>3 DEF LastInv
    <2> QED
      BY <2>1, <2>2
  <1>8. terminal' # NoPayload <=> LastKind' = "TERMINAL"
    BY <1>2, <1>3 DEF Taken
  <1> QED
    BY <1>5, <1>6, <1>7, <1>8 DEF LastInv

\* ... and every action is still followed by its result.
LEMMA TakenAction ==
    ASSUME TranscriptInv, NEW f \in FrameRecords, NEW sender, Taken(f, sender)
    PROVE  ActionInv'
  <1> DEFINE p == f.payload
  <1>0. PICK n : n = Len(log)
    OBVIOUS
  <1>1. /\ Len(log') = n + 1 /\ \A i \in 1..n : log'[i] = log[i] /\ Kind(i)' = Kind(i)
        /\ log'[n + 1] = f /\ Kind(n + 1)' = p.kind
        /\ \A k : Of(k)' = IF p.kind = k THEN Of(k) \cup {n + 1} ELSE Of(k)
    BY <1>0, AppendLog DEF TranscriptInv, Taken
  <1>2. n \in Nat /\ \A k : Of(k) \subseteq 1..n
    BY <1>0, LogFacts DEF TranscriptInv
  <1>3. ActionInv
    BY DEF TranscriptInv
  <1>4. ASSUME NEW i \in Of("RESOURCE_ACTION")'
        PROVE  /\ log'[i].payload.actionId \in actions'
               /\ log'[i].payload.manifest \in Owned
               /\ i # Len(log') =>
                    /\ Kind(i + 1)' = "RESOURCE_RESULT"
                    /\ log'[i + 1].payload.outcome \in Permitted(log'[i].payload.verb) \cup {"DENIED", "AMBIGUOUS"}
    <2>1. CASE i \in Of("RESOURCE_ACTION")
      <3>1. i \in 1..n /\ log'[i] = log[i]
        BY <1>1, <1>2, <2>1
      <3>2. log[i].payload.actionId \in actions /\ log[i].payload.manifest \in Owned
        BY <1>3, <2>1 DEF ActionInv
      <3>3. actions \subseteq actions'
        BY DEF Taken
      <3>4. CASE i = n
        <4>1. LastKind = "RESOURCE_ACTION"
          BY <1>0, <1>2, <2>1, <3>1, <3>4, LastFacts DEF Of
        <4>2. p.kind = "RESOURCE_RESULT"
          BY <4>1, TakenFacts, LastFacts
        <4>3. p.outcome \in Permitted(log[n].payload.verb) \cup {"DENIED", "AMBIGUOUS"}
          BY <1>0, <4>2, TakenFacts DEF ResultAccepted
        <4> QED
          BY <1>1, <3>1, <3>2, <3>3, <3>4, <4>2, <4>3
      <3>5. CASE i # n
        <4>1. i + 1 \in 1..n
          BY <1>2, <3>1, <3>5
        <4>2. Kind(i + 1)' = Kind(i + 1) /\ log'[i + 1] = log[i + 1]
          BY <1>1, <4>1
        <4>3. /\ Kind(i + 1) = "RESOURCE_RESULT"
              /\ log[i + 1].payload.outcome \in Permitted(log[i].payload.verb) \cup {"DENIED", "AMBIGUOUS"}
          BY <1>0, <1>3, <2>1, <3>5 DEF ActionInv
        <4> QED
          BY <3>1, <3>2, <3>3, <4>2, <4>3
      <3> QED
        BY <3>4, <3>5
    <2>2. CASE i \notin Of("RESOURCE_ACTION")
      <3>1. i = n + 1 /\ p.kind = "RESOURCE_ACTION"
        BY <1>1, <1>4, <2>2
      <3>2. p.actionId \in actions'
        BY <3>1 DEF Taken
      <3>3. p.manifest \in Owned
        BY <3>1, TakenFacts DEF ActionAccepted
      <3> QED
        BY <1>1, <3>1, <3>2, <3>3
    <2> QED
      BY <2>1, <2>2
  <1>5. ASSUME NEW i \in Of("RESOURCE_RESULT")', log'[i].payload.outcome \in {"DENIED", "AMBIGUOUS"}
        PROVE  failed_action'
    <2>1. CASE i \in Of("RESOURCE_RESULT")
      <3>1. log'[i] = log[i]
        BY <1>1, <1>2, <2>1
      <3>2. failed_action
        BY <1>3, <1>5, <2>1, <3>1 DEF ActionInv
      <3> QED
        BY <3>2, Zenon DEF Taken
    <2>2. CASE i \notin Of("RESOURCE_RESULT")
      <3>1. i = n + 1 /\ p.kind = "RESOURCE_RESULT"
        BY <1>1, <1>5, <2>2
      <3>2. p.outcome \in {"DENIED", "AMBIGUOUS"}
        BY <1>1, <1>5, <3>1
      <3> QED
        BY <3>1, <3>2, Zenon DEF Taken
    <2> QED
      BY <2>1, <2>2
  <1> QED
    BY <1>4, <1>5 DEF ActionInv

\* ... and the chunks are those of the accepted frames.
LEMMA TakenChunk ==
    ASSUME TranscriptInv, NEW f \in FrameRecords, NEW sender, Taken(f, sender)
    PROVE  ChunkInv'
  <1> DEFINE n == Len(log)
             p == f.payload
             C == Of("RECEIPT_CHUNK")
  <1>1. /\ \A i \in 1..n : log'[i] = log[i]
        /\ log'[n + 1] = f
        /\ C' = IF p.kind = "RECEIPT_CHUNK" THEN C \cup {n + 1} ELSE C
        /\ Cardinality(C') = IF p.kind = "RECEIPT_CHUNK" THEN Cardinality(C) + 1 ELSE Cardinality(C)
    BY AppendLog DEF TranscriptInv, Taken
  <1>2. n \in Nat /\ C \subseteq 1..n
    BY LogFacts DEF TranscriptInv
  <1>3. ChunkInv /\ chunks \in Seq(Data) /\ Len(chunks) \in Nat
    BY DEF TranscriptInv, TranscriptType
  <1>4. CASE p.kind # "RECEIPT_CHUNK"
    <2>1. chunks' = chunks /\ C' = C /\ Cardinality(C') = Cardinality(C)
      BY <1>1, <1>4 DEF Taken
    <2>2. \A i \in C : log'[i] = log[i]
      BY <1>1, <1>2
    <2> QED
      BY <1>3, <2>1, <2>2 DEF ChunkInv
  <1>5. CASE p.kind = "RECEIPT_CHUNK"
    <2>1. chunks' = Append(chunks, p.data) /\ p.data \in Data
      BY <1>5, PayloadFacts DEF Taken, FrameRecords
    <2>2. /\ Len(chunks') = Len(chunks) + 1
          /\ \A i \in 1..Len(chunks) : chunks'[i] = chunks[i]
          /\ chunks'[Len(chunks) + 1] = p.data
      BY <1>3, <2>1
    <2>3. p.index = Len(chunks) /\ Len(chunks) < MaxReceipt
      BY <1>5, TakenFacts DEF ChunkAccepted
    <2>4. MaxReceipt \in Nat
      BY MaxReceiptAssumption
    <2>5. Len(chunks') = Cardinality(C') /\ Len(chunks') <= MaxReceipt
      BY <1>1, <1>3, <1>5, <2>2, <2>3, <2>4 DEF ChunkInv
    <2>6. ASSUME NEW i \in C'
          PROVE  /\ log'[i].payload.index \in 0..(Len(chunks') - 1)
                 /\ chunks'[log'[i].payload.index + 1] = log'[i].payload.data
      <3>1. CASE i \in C
        <4>1. log'[i] = log[i]
          BY <1>1, <1>2, <3>1
        <4>2. /\ log[i].payload.index \in 0..(Len(chunks) - 1)
              /\ chunks[log[i].payload.index + 1] = log[i].payload.data
          BY <1>3, <3>1 DEF ChunkInv
        <4>3. log[i].payload.index + 1 \in 1..Len(chunks)
          BY <1>3, <4>2
        <4>4. chunks'[log[i].payload.index + 1] = chunks[log[i].payload.index + 1]
          BY <2>2, <4>3
        <4>5. log[i].payload.index \in 0..(Len(chunks') - 1)
          BY <1>3, <2>2, <4>2
        <4> QED
          BY <4>1, <4>2, <4>4, <4>5
      <3>2. CASE i \notin C
        <4>1. i = n + 1 /\ log'[i] = f
          BY <1>1, <1>5, <2>6, <3>2
        <4> QED
          BY <1>3, <2>2, <2>3, <4>1
      <3> QED
        BY <3>1, <3>2
    <2> QED
      BY <2>5, <2>6 DEF ChunkInv
  <1> QED
    BY <1>4, <1>5

\* ... and the cleanup is the one recorded, and the terminal frame fits it.
LEMMA TakenEnd ==
    ASSUME TranscriptInv, NEW f \in FrameRecords, NEW sender, Taken(f, sender)
    PROVE  EndInv'
  <1> DEFINE n == Len(log)
             p == f.payload
             R == Of("CLEANUP_RECORDED")
  <1>1. /\ \A i \in 1..n : log'[i] = log[i]
        /\ log'[n + 1] = f
        /\ R' = IF p.kind = "CLEANUP_RECORDED" THEN R \cup {n + 1} ELSE R
    BY AppendLog DEF TranscriptInv, Taken
  <1>2. n \in Nat /\ R \subseteq 1..n /\ \A i \in R : log[i].payload # NoPayload
    BY LogFacts, PayloadFacts DEF TranscriptInv
  <1>3. EndInv
    BY DEF TranscriptInv
  <1>4. p.kind = "CLEANUP_RECORDED" => R = {}
    BY <1>2, <1>3, TakenFacts DEF EndInv, CleanupAccepted
  <1>5. \A i \in R' : log'[i].payload = cleanup'
    <2>1. CASE p.kind = "CLEANUP_RECORDED"
      BY <1>1, <1>4, <2>1 DEF Taken
    <2>2. CASE p.kind # "CLEANUP_RECORDED"
      <3>1. cleanup' = cleanup /\ R' = R
        BY <1>1, <2>2 DEF Taken
      <3> QED
        BY <1>1, <1>2, <1>3, <3>1 DEF EndInv
    <2> QED
      BY <2>1, <2>2
  <1>6. cleanup' # NoPayload => (cleanup'.state = "CLEAN" <=> cleanup'.remaining = <<>>)
    <2>1. CASE p.kind = "CLEANUP_RECORDED"
      <3>1. cleanup' = p
        BY <2>1 DEF Taken
      <3>2. p.state = "CLEAN" <=> p.remaining = <<>>
        BY <2>1, TakenFacts DEF CleanupAccepted
      <3> QED
        BY <3>1, <3>2
    <2>2. CASE p.kind # "CLEANUP_RECORDED"
      <3>1. cleanup' = cleanup
        BY <2>2 DEF Taken
      <3> QED
        BY <1>3, <3>1 DEF EndInv
    <2> QED
      BY <2>1, <2>2
  <1>7. ASSUME terminal' # NoPayload
        PROVE  /\ terminal'.receiptDigest = chunks'
               /\ terminal'.status = "COMPLETED" => cleanup'.state = "CLEAN" /\ ~failed_action'
    <2>1. p.kind = "TERMINAL" /\ terminal' = p
      BY <1>7 DEF Taken
    <2>2. TerminalAccepted(p) /\ chunks' = chunks /\ cleanup' = cleanup
      BY <2>1, TakenFacts DEF Taken
    <2>3. failed_action' => failed_action
      BY <2>1, Zenon DEF Taken
    <2>4. p.status = "COMPLETED" => cleanup.state = "CLEAN" /\ ~failed_action
      BY <2>2, Zenon DEF TerminalAccepted
    <2>5. p.receiptDigest = chunks
      BY <2>2 DEF TerminalAccepted
    <2>6. terminal'.receiptDigest = chunks'
      BY <2>1, <2>2, <2>5
    <2> QED
      BY <2>1, <2>2, <2>3, <2>4, <2>6, Zenon
  <1> QED
    BY <1>5, <1>6, <1>7, Zenon DEF EndInv

\* A frame before the last fits as it did.
LEMMA OldFits ==
    ASSUME TranscriptInv, NEW f \in FrameRecords, log' = Append(log, f), NEW i \in 1..Len(log)
    PROVE  FrameFits(i)'
  <1>0. PICK n : n = Len(log)
    OBVIOUS
  <1>1. /\ \A j \in 1..n : log'[j] = log[j] /\ Kind(j)' = Kind(j)
        /\ \A k : \A j \in 1..n : {l \in Of(k)' : l < j} = {l \in Of(k) : l < j}
    BY <1>0, AppendLog DEF TranscriptInv
  <1>2. n \in Nat /\ DOMAIN log = 1..n
    BY <1>0, LogFacts DEF TranscriptInv
  <1>3. FrameFits(i)
    BY <1>0, <1>2 DEF TranscriptInv, WellFormed
  <1>4. log'[i] = log[i] /\ Kind(i)' = Kind(i) /\ log'[1] = log[1]
    BY <1>0, <1>1, <1>2
  <1>5. Kind(i) # "STARTED" => log'[i - 1] = log[i - 1] /\ Kind(i - 1)' = Kind(i - 1)
    <2>1. Kind(i) # "STARTED" => i # 1
      BY <1>3 DEF FrameFits
    <2>2. i # 1 => i - 1 \in 1..n
      BY <1>0, <1>2
    <2> QED
      BY <1>1, <2>1, <2>2
  <1>6. {l \in Of("RECEIPT_CHUNK")' : l < i} = {l \in Of("RECEIPT_CHUNK") : l < i}
    BY <1>0, <1>1
  <1>7. Kind(i) = "RECEIPT_CHUNK" => log[i].payload.index = Cardinality({l \in Of("RECEIPT_CHUNK") : l < i})
    BY <1>3 DEF FrameFits
  <1>8. Kind(i)' = "RECEIPT_CHUNK" => log'[i].payload.index = Cardinality({l \in Of("RECEIPT_CHUNK")' : l < i})
    BY <1>4, <1>6, <1>7
  <1> QED
    BY <1>3, <1>4, <1>5, <1>8 DEF FrameFits

\* The frame that is taken fits the ones before it.
LEMMA NewFits ==
    ASSUME TranscriptInv, NEW f \in FrameRecords, NEW sender, Taken(f, sender), NEW n, n = Len(log)
    PROVE  FrameFits(n + 1)'
  <1>1. /\ \A j \in 1..n : log'[j] = log[j] /\ Kind(j)' = Kind(j)
        /\ log'[n + 1] = f /\ Kind(n + 1)' = f.payload.kind
        /\ \A k : {l \in Of(k)' : l < n + 1} = Of(k)
    BY AppendLog DEF TranscriptInv, Taken
  <1>2. n \in Nat
    BY LogFacts DEF TranscriptInv
  <1>3. /\ f.header.sequence = n + 1 /\ f.header.previousDigest = n /\ n = (n + 1) - 1
        /\ f.header.dispatch = "ours"
    BY <1>2, TakenFacts
  <1>4. f.header.executionId = log'[1].header.executionId
    <2>1. CASE n = 0
      BY <1>1, <2>1
    <2>2. CASE n # 0
      <3>1. log'[1] = log[1]
        BY <1>1, <1>2, <2>2
      <3> QED
        BY <2>2, <3>1, TakenFacts
    <2> QED
      BY <2>1, <2>2
  <1>5. f.payload.kind = "STARTED" <=> n + 1 = 1
    BY <1>2, TakenFacts
  <1>6. n # 0 => Kind(n)' = LastKind /\ log'[n] = log[n]
    BY <1>1, <1>2, LastFacts
  <1>7. f.payload.kind # "STARTED" => n # 0
    BY TakenFacts
  <1>8. /\ f.payload.kind = "RESOURCE_ACTION" => Kind(n)' \in {"STARTED", "RESOURCE_RESULT"}
        /\ f.payload.kind = "RESOURCE_RESULT" => Kind(n)' = "RESOURCE_ACTION"
        /\ f.payload.kind = "RECEIPT_CHUNK" => Kind(n)' \in {"STARTED", "RESOURCE_RESULT", "RECEIPT_CHUNK"}
        /\ f.payload.kind = "CLEANUP_RECORDED" => Kind(n)' = "RECEIPT_CHUNK"
        /\ f.payload.kind = "TERMINAL" => Kind(n)' = "CLEANUP_RECORDED"
        /\ f.payload.kind \notin {"ABORT", "REFUSED"}
    BY <1>6, <1>7, TakenFacts
  <1>9. f.payload.kind = "RESOURCE_RESULT" => f.payload.actionId = log'[n].payload.actionId
    BY <1>6, <1>7, TakenFacts DEF ResultAccepted
  <1>10. f.payload.kind = "RECEIPT_CHUNK" =>
           f.payload.index = Cardinality({l \in Of("RECEIPT_CHUNK")' : l < n + 1})
    <2>1. Len(chunks) = Cardinality(Of("RECEIPT_CHUNK"))
      BY DEF TranscriptInv, ChunkInv
    <2>2. f.payload.kind = "RECEIPT_CHUNK" => f.payload.index = Len(chunks)
      BY TakenFacts DEF ChunkAccepted
    <2>3. {l \in Of("RECEIPT_CHUNK")' : l < n + 1} = Of("RECEIPT_CHUNK")
      BY <1>1
    <2> QED
      BY <2>1, <2>2, <2>3
  <1>11. Kind(n + 1)' = f.payload.kind /\ log'[n + 1] = f /\ (n + 1) - 1 = n
    BY <1>1, <1>3
  <1>12. Kind((n + 1) - 1)' = Kind(n)' /\ log'[(n + 1) - 1] = log'[n]
    BY <1>11
  <1> QED
    BY <1>3, <1>4, <1>5, <1>8, <1>9, <1>10, <1>11, <1>12 DEF FrameFits

\* ... so the frames are still a transcript.
LEMMA TakenFits ==
    ASSUME TranscriptInv, NEW f \in FrameRecords, NEW sender, Taken(f, sender)
    PROVE  WellFormed'
  <1>0. PICK n : n = Len(log)
    OBVIOUS
  <1> DEFINE A == Of("RESOURCE_ACTION")
             p == f.payload
  <1>1. /\ \A j \in 1..n : log'[j] = log[j]
        /\ DOMAIN log' = 1..(n + 1) /\ log'[n + 1] = f
        /\ A' = IF p.kind = "RESOURCE_ACTION" THEN A \cup {n + 1} ELSE A
    BY <1>0, AppendLog DEF TranscriptInv, Taken
  <1>2. n \in Nat /\ A \subseteq 1..n
    BY <1>0, LogFacts DEF TranscriptInv
  <1>3. ASSUME NEW i \in DOMAIN log'
        PROVE  FrameFits(i)'
    <2>1. CASE i \in 1..n
      BY <1>0, <2>1, OldFits DEF Taken
    <2>2. CASE i = n + 1
      <3>1. FrameFits(n + 1)'
        BY <1>0, NewFits
      <3> QED
        BY <2>2, <3>1
    <2>3. i \in 1..n \/ i = n + 1
      BY <1>1, <1>2, <1>3
    <2> QED
      BY <2>1, <2>2, <2>3
  <1>4. ActionsDiffer'
    <2>1. ActionsDiffer /\ \A i \in A : log[i].payload.actionId \in actions
      BY DEF TranscriptInv, WellFormed, ActionInv
    <2>2. \A i \in A : log'[i] = log[i]
      BY <1>1, <1>2
    <2>3. p.kind = "RESOURCE_ACTION" => p.actionId \notin actions
      BY TakenFacts DEF ActionAccepted
    <2>4. ASSUME NEW i \in A', NEW j \in A', log'[i].payload.actionId = log'[j].payload.actionId
          PROVE  i = j
      BY <1>1, <2>1, <2>2, <2>3, <2>4 DEF ActionsDiffer
    <2> QED
      BY <2>4 DEF ActionsDiffer
  <1>5. (Cardinality(Of("RECEIPT_CHUNK")) <= MaxReceipt)'
    BY TakenChunk DEF ChunkInv
  <1> QED
    BY <1>3, <1>4, <1>5 DEF WellFormed

\* Nothing of the invariant is about the poison.
LEMMA TranscriptKeeps ==
    ASSUME TranscriptInv, UNCHANGED <<sequence, previous, execution, pending, cleanup, terminal,
                                      actions, chunks, failed_action, log>>
    PROVE  TranscriptType' /\ LastInv' /\ ActionInv' /\ ChunkInv' /\ EndInv' /\ WellFormed'
  <1>1. /\ \A i : Kind(i)' = Kind(i)
        /\ \A k : Of(k)' = Of(k)
        /\ LastKind' = LastKind
    BY DEF Kind, Of, LastKind
  <1>2. TranscriptType'
    BY DEF TranscriptInv, TranscriptType
  <1>3. LastInv'
    BY <1>1 DEF TranscriptInv, LastInv
  <1>4. ActionInv'
    <2>1. (failed_action' <=> failed_action) /\ log' = log /\ actions' = actions /\ ActionInv
      BY Zenon DEF TranscriptInv
    <2> QED
      BY <1>1, <2>1 DEF ActionInv
  <1>5. ChunkInv'
    BY <1>1 DEF TranscriptInv, ChunkInv
  <1>6. EndInv'
    <2>1. /\ (failed_action' <=> failed_action) /\ log' = log /\ chunks' = chunks
          /\ cleanup' = cleanup /\ terminal' = terminal /\ EndInv
      BY Zenon DEF TranscriptInv
    <2> QED
      BY <1>1, <2>1 DEF EndInv
  <1>7. WellFormed'
    <2>1. ASSUME NEW i \in DOMAIN log PROVE FrameFits(i)'
      <3>1. FrameFits(i)
        BY <2>1 DEF TranscriptInv, WellFormed
      <3>2. {j \in Of("RECEIPT_CHUNK")' : j < i} = {j \in Of("RECEIPT_CHUNK") : j < i}
        BY <1>1
      <3>3. log' = log
        OBVIOUS
      <3>4. Kind(i) = "RECEIPT_CHUNK" => log[i].payload.index = Cardinality({j \in Of("RECEIPT_CHUNK") : j < i})
        BY <3>1 DEF FrameFits
      <3>5. Kind(i)' = "RECEIPT_CHUNK" => log'[i].payload.index = Cardinality({j \in Of("RECEIPT_CHUNK")' : j < i})
        BY <1>1, <3>2, <3>3, <3>4
      <3> QED
        BY <1>1, <3>1, <3>3, <3>5 DEF FrameFits
    <2>2. ActionsDiffer'
      BY <1>1 DEF TranscriptInv, WellFormed, ActionsDiffer
    <2>3. (Cardinality(Of("RECEIPT_CHUNK")) <= MaxReceipt)'
      BY <1>1 DEF TranscriptInv, WellFormed
    <2>4. DOMAIN log' = DOMAIN log
      OBVIOUS
    <2> QED
      BY <2>1, <2>2, <2>3, <2>4 DEF WellFormed
  <1> QED
    BY <1>2, <1>3, <1>4, <1>5, <1>6, <1>7

\* A frame that accept takes or refuses keeps the invariant.
LEMMA FrameStep ==
    ASSUME TranscriptInv, NEW f \in FrameRecords, NEW sender, accept(f, sender)
    PROVE  TranscriptInv'
  <1>1. CASE Poison
    <2>1. TranscriptType' /\ LastInv' /\ ActionInv' /\ ChunkInv' /\ EndInv' /\ WellFormed'
      BY <1>1, TranscriptKeeps DEF Poison
    <2>2. TranscriptFlags'
      BY <1>1, Zenon DEF Poison, TranscriptInv, TranscriptFlags
    <2> QED
      BY <2>1, <2>2 DEF TranscriptInv
  <1>2. CASE Taken(f, sender)
    <2>1. TranscriptFlags'
      BY <1>2, Zenon DEF Taken, TranscriptInv, TranscriptFlags
    <2> QED
      BY <1>2, <2>1, TakenType, TakenLast, TakenAction, TakenChunk, TakenEnd, TakenFits DEF
         TranscriptInv
  <1> QED
    BY <1>1, <1>2, AcceptCases

\* The empty transcript.
LEMMA TranscriptStarts ==
    ASSUME TranscriptInit
    PROVE  TranscriptInv
  <1>1. log = <<>> /\ Len(log) = 0 /\ DOMAIN log = {} /\ log \in Seq(FrameRecords)
    BY DEF TranscriptInit
  <1>2. \A k : Of(k) = {}
    BY <1>1 DEF Of
  <1>3. Cardinality(Of("RECEIPT_CHUNK")) = 0 /\ MaxReceipt \in Nat
    BY <1>2, FS_EmptySet, MaxReceiptAssumption
  <1>4. chunks = <<>> /\ Len(chunks) = 0 /\ chunks \in Seq(Data)
    BY DEF TranscriptInit
  <1>5. TranscriptType
    BY <1>1, <1>4 DEF TranscriptType, TranscriptInit
  <1>6. TranscriptFlags
    BY Zenon DEF TranscriptFlags, TranscriptInit
  <1>7. LastInv
    BY <1>1 DEF LastInv, LastKind, TranscriptInit
  <1>8. ActionInv /\ ActionsDiffer
    BY <1>2 DEF ActionInv, ActionsDiffer
  <1>9. ChunkInv
    BY <1>2, <1>3, <1>4 DEF ChunkInv
  <1>10. EndInv
    BY <1>2 DEF EndInv, TranscriptInit
  <1>11. WellFormed
    BY <1>1, <1>3, <1>8 DEF WellFormed
  <1> QED
    BY <1>5, <1>6, <1>7, <1>8, <1>9, <1>10, <1>11 DEF TranscriptInv

\* Every step: a frame of either end, or one the server builds.
LEMMA TranscriptKept ==
    ASSUME TranscriptInv, [TranscriptNext]_allvars
    PROVE  TranscriptInv'
  <1>0. Len(log) \in Nat /\ sequence = Len(log) /\ previous = Len(log)
    BY LogFacts DEF TranscriptInv, TranscriptType
  <1>1. ASSUME NEW f \in Frames, NEW sender \in {"BROKER", "SERVER"}, accept(f, sender)
        PROVE  TranscriptInv'
    <2>1. PICK h \in Headers, p \in Payloads : f = [header |-> h, payload |-> p]
      BY <1>1 DEF Frames
    <2>2. h \in HeaderRecords
      BY <1>0, <2>1 DEF Headers, HeaderRecords, Other
    <2>3. f \in FrameRecords
      BY <2>1, <2>2 DEF FrameRecords
    <2> QED
      BY <1>1, <2>3, FrameStep
  <1>2. ASSUME NEW p \in Payloads, server_frame(p)
        PROVE  TranscriptInv'
    <2> DEFINE g == [header |-> [dispatch |-> "ours", executionId |-> execution,
                                 sequence |-> sequence + 1, previousDigest |-> previous],
                     payload |-> p]
    <2>1. execution \in Executions
      <3>1. execution # None /\ execution = IF log = <<>> THEN None ELSE log[1].header.executionId
        BY <1>2 DEF server_frame, TranscriptInv, TranscriptType
      <3>2. Len(log) # 0 => log[1] \in FrameRecords
        BY <1>0, LogFacts DEF TranscriptInv
      <3>3. log # <<>> => Len(log) # 0
        BY LogFacts DEF TranscriptInv
      <3> QED
        BY <3>1, <3>2, <3>3 DEF FrameRecords, HeaderRecords
    <2>2. g \in FrameRecords
      BY <1>0, <1>2, <2>1 DEF FrameRecords, HeaderRecords
    <2>3. accept(g, "SERVER")
      BY <1>2 DEF server_frame
    <2> QED
      BY <2>2, <2>3, FrameStep
  <1>3. CASE UNCHANGED allvars
    <2>1. TranscriptType' /\ LastInv' /\ ActionInv' /\ ChunkInv' /\ EndInv' /\ WellFormed'
      BY <1>3, TranscriptKeeps DEF allvars
    <2>2. TranscriptFlags'
      BY <1>3, Zenon DEF allvars, TranscriptInv, TranscriptFlags
    <2> QED
      BY <2>1, <2>2 DEF TranscriptInv
  <1> QED
    BY <1>1, <1>2, <1>3 DEF TranscriptNext

\* The parser's fields and the accepted frames agree.
LEMMA TranscriptInvariance == TranscriptSpec => []TranscriptInv
  <1>1. TranscriptInit => TranscriptInv
    BY TranscriptStarts
  <1>2. TranscriptInv /\ [TranscriptNext]_allvars => TranscriptInv'
    BY TranscriptKept
  <1> QED
    BY <1>1, <1>2, PTL DEF TranscriptSpec

\* What BrokerTranscript.accept lets through, frame by frame and whoever sends, is a
\* transcript of the broker protocol, or a prefix of one.
THEOREM TranscriptIsWellFormed == TranscriptSpec => []WellFormed
  <1>1. TranscriptInv => WellFormed
    BY DEF TranscriptInv
  <1> QED
    BY <1>1, TranscriptInvariance, PTL

\* A transcript that ends COMPLETED hides no denial, no ambiguity and no remainder.
THEOREM CompletionIsHonest == TranscriptSpec => []CompletedIsHonest
  <1>1. ASSUME TranscriptInv, terminal # NoPayload, terminal.status = "COMPLETED"
        PROVE  /\ \A i \in Of("RESOURCE_ACTION") :
                    /\ log[i].payload.manifest \in Owned
                    /\ Kind(i + 1) = "RESOURCE_RESULT"
                    /\ log[i + 1].payload.outcome \in Permitted(log[i].payload.verb)
               /\ \A i \in Of("CLEANUP_RECORDED") : log[i].payload.remaining = <<>>
               /\ Len(terminal.receiptDigest) = Cardinality(Of("RECEIPT_CHUNK"))
               /\ \A i \in Of("RECEIPT_CHUNK") :
                    log[i].payload.data = terminal.receiptDigest[log[i].payload.index + 1]
    <2>1. LastKind = "TERMINAL" /\ ActionInv /\ ChunkInv /\ EndInv
      BY <1>1 DEF TranscriptInv, LastInv
    <2>2. ~failed_action /\ cleanup.state = "CLEAN" /\ terminal.receiptDigest = chunks
      BY <1>1, <2>1, Zenon DEF EndInv
    <2>3. cleanup # NoPayload
      BY <1>1, <2>1 DEF TranscriptInv, LastInv
    <2>4. cleanup.remaining = <<>>
      BY <2>1, <2>2, <2>3 DEF EndInv
    <2>5. /\ Len(log) \in Nat /\ DOMAIN log = 1..Len(log)
          /\ \A k : Of(k) \subseteq 1..Len(log)
      BY <1>1, LogFacts DEF TranscriptInv
    <2>6. ASSUME NEW i \in Of("RESOURCE_ACTION")
          PROVE  /\ log[i].payload.manifest \in Owned
                 /\ Kind(i + 1) = "RESOURCE_RESULT"
                 /\ log[i + 1].payload.outcome \in Permitted(log[i].payload.verb)
      <3>1. i \in 1..Len(log) /\ Kind(i) = "RESOURCE_ACTION"
        BY <2>5 DEF Of
      <3>2. i # Len(log)
        BY <1>1, <2>1, <3>1, LastFacts
      <3>3. /\ log[i].payload.manifest \in Owned /\ Kind(i + 1) = "RESOURCE_RESULT"
            /\ log[i + 1].payload.outcome \in Permitted(log[i].payload.verb) \cup {"DENIED", "AMBIGUOUS"}
        BY <2>1, <3>2 DEF ActionInv
      <3>4. i + 1 \in Of("RESOURCE_RESULT")
        BY <2>5, <3>1, <3>2, <3>3 DEF Of
      <3>5. log[i + 1].payload.outcome \notin {"DENIED", "AMBIGUOUS"}
        BY <2>1, <2>2, <3>4 DEF ActionInv
      <3> QED
        BY <3>3, <3>5
    <2>7. \A i \in Of("CLEANUP_RECORDED") : log[i].payload.remaining = <<>>
      BY <2>1, <2>4 DEF EndInv
    <2>8. Len(terminal.receiptDigest) = Cardinality(Of("RECEIPT_CHUNK"))
      BY <2>1, <2>2 DEF ChunkInv
    <2>9. \A i \in Of("RECEIPT_CHUNK") :
            log[i].payload.data = terminal.receiptDigest[log[i].payload.index + 1]
      BY <2>1, <2>2 DEF ChunkInv
    <2> QED
      BY <2>6, <2>7, <2>8, <2>9
  <1>2. TranscriptInv => CompletedIsHonest
    BY <1>1 DEF CompletedIsHonest
  <1> QED
    BY <1>2, TranscriptInvariance, PTL

=============================================================================
