----------------------------- MODULE ProxyServer -----------------------------
(***************************************************************************)
(* The installed proxy server of live_proxy_server.py and its capacity     *)
(* broker channel.  Server processes compete for admission.lock; the one   *)
(* that holds it reserves the capacity in the ledger, serves one operation *)
(* after another and, inside an operation, drives one CREATE through       *)
(* dispatch, intent, API exchange, CREATED row, result and retirement.     *)
(* Processes and the machine may die at any point and a request may reach  *)
(* the cluster late.                                                       *)
(*                                                                         *)
(* Every guard of the code (custody, peer, observer, clock, deadline) may  *)
(* refuse at any step: that is the action Close of the server, or          *)
(* BrokerFails inside a probe.  A failed ledger write poisons the log; its *)
(* server can then only close.  Closing takes as many steps as the process *)
(* has resources; each may raise, and the run lock is one of them.         *)
(*                                                                         *)
(* The probe itself (CONF-LIVE-004) is not in the repository: it may call  *)
(* the broker's methods in any order and return any result.                *)
(***************************************************************************)
EXTENDS AdmissionLedger

CONSTANTS
  Servers,   \* server processes
  NoServer,  \* nobody holds admission.lock
  MaxStarts  \* bound: how often a server is started

ASSUME ServerAssumption == NoServer \notin Servers
ASSUME StartsAssumption == MaxStarts \in Nat

\* What a server process holds, by the turn in which close comes to it; the
\* storage has two descriptors, the journal and admission.lock.
Turn == [broker |-> 1, connection |-> 2, listener |-> 3, observer |-> 4, journal |-> 5,
         lock |-> 6, self_inspection |-> 7, qualification_binding |-> 8, secrets |-> 9,
         files |-> 10, memfd |-> 11]

\* Those through which a server acts on others.
Channels == {"broker", "connection", "listener", "observer"}

VARIABLES
  lock,      \* holder of the flock on admission.lock
  held,      \* each process's resources it has not yet tried to close
  closing,   \* its close: "no", "running", "failing", then "returned", "raised"
  starts,    \* number of starts (bound)
  disk,      \* the ledger of the rows an fsync has covered
  cached,    \* the ledgers after each row written since, oldest first
  torn,      \* an incomplete row follows: "no", "cached", "durable"
  srv,       \* each server: position, run, active operation
  broker,    \* its broker channel: the one-shot phases
  flight,    \* CREATE requests on their way to the cluster
  cluster,   \* resources that exist
  probes,    \* how often each operation of a run was executed (history)
  posts,     \* how often each resource was requested (history)
  results,   \* CREATED results sent to the broker (history)
  replies    \* replies sent to the client (history)

process == <<held, closing>>
storage == <<disk, cached, torn>>
effects == <<flight, cluster>>
history == <<probes, posts, results, replies>>
vars == <<lock, process, starts, storage, srv, broker, effects, history>>

\* What a reader of the file sees.
Ledger == IF cached = <<>> THEN disk ELSE cached[Len(cached)]

\* dispatch/STARTED, pending action, receipt chunks, API leg, intent row,
\* API exchange, CREATED row, result frame, retirement.
NoBroker == [closed |-> FALSE, dispatch |-> "none", pending |-> NoRes, chunks |-> FALSE,
             api |-> "none", intent |-> "none", exchange |-> "none", created |-> "none",
             result |-> "none", retirement |-> "none"]

Down == [pc |-> "down", next |-> "down", run |-> CHOOSE n \in Runs : TRUE, op |-> NoOp]

Init ==
  /\ lock = NoServer
  /\ held = [s \in Servers |-> {}]
  /\ closing = [s \in Servers |-> "no"]
  /\ starts = 0
  /\ disk = EmptyLedger
  /\ cached = <<>>
  /\ torn = "no"
  /\ srv = [s \in Servers |-> Down]
  /\ broker = [s \in Servers |-> NoBroker]
  /\ flight = {}
  /\ cluster = {}
  /\ probes = [n \in Runs |-> [o \in Ops |-> 0]]
  /\ posts = [r \in Res |-> 0]
  /\ results = {}
  /\ replies = {}

-----------------------------------------------------------------------------
(* One record call, in two steps: lock, read, parse, append; then fsync and *)
(* the read back.  A refused row raises before anything is written.         *)

Row(s, state, op, res, remaining) ==
  [state |-> state, run |-> srv[s].run, op |-> op, res |-> res, remaining |-> remaining]

\* Mutant of Write: a fragment at the end of the file is overlooked.
WriteAfterFragment(s, w, next) ==
  /\ RowAccepted(Ledger, w)
  /\ \/ /\ cached' = Append(cached, AfterRow(Ledger, w))
        /\ srv' = [srv EXCEPT ![s].pc = "sync", ![s].next = next, ![s].op = w.op]
        /\ UNCHANGED torn
     \/ /\ torn' = "cached"
        /\ srv' = [srv EXCEPT ![s].pc = "failed"]
        /\ UNCHANGED cached
  /\ UNCHANGED <<disk, lock, starts, effects, history>>

\* io.append, whole or cut short.  The caller goes on at `next' after the sync.
Write(s, w, next) ==
  /\ torn = "no"
  /\ RowAccepted(Ledger, w)
  /\ \/ /\ cached' = Append(cached, AfterRow(Ledger, w))
        /\ srv' = [srv EXCEPT ![s].pc = "sync", ![s].next = next, ![s].op = w.op]
        /\ UNCHANGED torn
     \/ /\ torn' = "cached"
        /\ srv' = [srv EXCEPT ![s].pc = "failed"]
        /\ UNCHANGED cached
  /\ UNCHANGED <<disk, lock, starts, effects, history>>

\* io.sync and the read back succeed: record returns.
Sync(s) ==
  /\ srv[s].pc = "sync"
  /\ disk' = Ledger
  /\ cached' = <<>>
  /\ srv' = [srv EXCEPT ![s].pc = srv[s].next]
  /\ broker' = [broker EXCEPT ![s].intent = IF @ = "sent" THEN "done" ELSE @,
                              ![s].created = IF @ = "sent" THEN "done" ELSE @]
  /\ UNCHANGED <<torn, lock, process, starts, effects, history>>

-----------------------------------------------------------------------------
(* NativeProxyServer.__init__: files, inspection and the run lock first,    *)
(* then observer and broker, the reservation after every check, the         *)
(* identity and the listener last.                                          *)
Start(s, n) ==
  /\ srv[s].pc = "down" /\ closing[s] = "no"
  /\ starts < MaxStarts
  /\ lock = NoServer
  /\ lock' = s
  /\ held' = [held EXCEPT ![s] = {"files", "secrets", "qualification_binding",
                                  "self_inspection", "journal", "lock"}]
  /\ starts' = starts + 1
  /\ srv' = [srv EXCEPT ![s] = [Down EXCEPT !.pc = "boot", !.run = n]]
  /\ broker' = [broker EXCEPT ![s] = NoBroker]
  /\ UNCHANGED <<closing, storage, effects, history>>

Gain(s, r) == held' = [held EXCEPT ![s] = @ \cup {r}]
Drop(s, r) == held' = [held EXCEPT ![s] = @ \ {r}]

\* A step of server s that changes what it holds and nothing else.
Local == UNCHANGED <<lock, closing, starts, storage, srv, broker, effects, history>>

Connect(s) ==
  /\ srv[s].pc = "boot"
  /\ \/ "observer" \notin held[s] /\ Gain(s, "observer")
     \/ "observer" \in held[s] /\ Gain(s, "broker")
  /\ Local

Reserve(s) ==
  /\ srv[s].pc = "boot" /\ "broker" \in held[s]
  /\ Write(s, Row(s, "RESERVED", NoOp, NoRes, {}), "serving")
  /\ UNCHANGED <<process, broker>>

\* The identity is read into a sealed memfd, closed once the TLS context has it.
LoadIdentity(s) ==
  /\ srv[s].pc = "serving" /\ "listener" \notin held[s]
  /\ Gain(s, "memfd")
  /\ Local

Listen(s) ==
  /\ srv[s].pc = "serving" /\ "memfd" \in held[s]
  /\ held' = [held EXCEPT ![s] = (@ \ {"memfd"}) \cup {"listener"}]
  /\ Local

\* serve: one connection, one bound request, the RUNNING row.
Accept(s, op) ==
  /\ srv[s].pc = "serving"
  /\ "listener" \in held[s]
  /\ Gain(s, "connection")
  /\ Write(s, Row(s, "RUNNING", op, NoRes, {}), "execute")
  /\ UNCHANGED <<closing, broker>>

\* active_operation is set and the fixed probe is called.
Execute(s) ==
  /\ srv[s].pc = "execute"
  /\ srv' = [srv EXCEPT ![s].pc = "probe"]
  /\ probes' = [probes EXCEPT ![srv[s].run][srv[s].op] = @ + 1]
  /\ UNCHANGED <<lock, process, starts, storage, broker, effects, posts, results, replies>>

\* The probe has come back with a receipt and the resources it left: the
\* RECORDED row, before the reply.  A PASS with anything left is refused.
ProbeReturns(s, status, remaining) ==
  /\ srv[s].pc = "probe"
  /\ ~broker[s].closed
  /\ broker[s].dispatch # "sent" /\ broker[s].exchange # "sent"
  /\ status = "PASS" => remaining = {}
  /\ LET w == Row(s, "RECORDED", srv[s].op, NoRes, remaining)
     IN  Write(s, w, IF status = "PASS" THEN "pass" ELSE "fail")
  /\ UNCHANGED <<process, broker>>

\* The receipt is sent and the connection closed; anything but PASS ends the
\* run, and so do all cases.
Reply(s) ==
  /\ srv[s].pc \in {"pass", "fail"}
  /\ replies' = replies \cup {[run |-> srv[s].run, op |-> srv[s].op, status |-> srv[s].pc]}
  /\ LET more == srv[s].pc = "pass" /\ Ledger[srv[s].run].done # Ops
     IN  srv' = [srv EXCEPT ![s].pc = IF more THEN "serving" ELSE "finished", ![s].op = NoOp]
  /\ Drop(s, "connection")
  /\ UNCHANGED <<lock, closing, starts, storage, broker, effects, probes, posts, results>>

\* close, at the end or after any refusal: the owner is marked closed and does
\* nothing any more.  The finally of serve has closed a connection before.  A
\* row that was being written may stay in the page cache.
Close(s) ==
  /\ srv[s].pc # "down"
  /\ Drop(s, "connection")
  /\ closing' = [closing EXCEPT ![s] = "running"]
  /\ srv' = [srv EXCEPT ![s] = Down]
  /\ broker' = [broker EXCEPT ![s] = NoBroker]
  /\ UNCHANGED <<lock, starts, storage, effects, history>>

\* r is the first resource of s that close has not come to.
Due(s, r) == r \in held[s] /\ \A q \in held[s] : Turn[r] <= Turn[q]

\* The flock goes with its descriptor, and may survive a close that raised: the
\* identity of a descriptor is checked before it is closed.
Closed(s, r) == lock' = IF r = "lock" /\ lock = s THEN NoServer ELSE lock
Raised(s, r) == lock' = lock \/ Closed(s, r)

\* Mutant of CloseNext: an exception leaves the loop.
CloseStops(s) ==
  /\ closing[s] = "running"
  /\ \/ \E r \in held[s] :
          /\ Due(s, r) /\ Drop(s, r)
          /\ \/ Closed(s, r) /\ UNCHANGED closing
             \/ Raised(s, r) /\ closing' = [closing EXCEPT ![s] = "raised"]
     \/ /\ held[s] = {}
        /\ closing' = [closing EXCEPT ![s] = "returned"]
        /\ UNCHANGED <<lock, held>>
  /\ UNCHANGED <<starts, storage, srv, broker, effects, history>>

\* The next operation of close, whatever became of the ones before; after the
\* last one close returns, or raises the first failure.
CloseNext(s) ==
  /\ closing[s] \in {"running", "failing"}
  /\ \/ \E r \in held[s] :
          /\ Due(s, r) /\ Drop(s, r)
          /\ \/ Closed(s, r) /\ UNCHANGED closing
             \/ Raised(s, r) /\ closing' = [closing EXCEPT ![s] = "failing"]
     \/ /\ held[s] = {}
        /\ closing' = [closing EXCEPT ![s] = IF @ = "running" THEN "returned" ELSE "raised"]
        /\ UNCHANGED <<lock, held>>
  /\ UNCHANGED <<starts, storage, srv, broker, effects, history>>

\* The process ends, after close or killed at any moment, and the kernel
\* closes what it still has.
Exit(s) ==
  /\ srv[s].pc # "down" \/ closing[s] # "no"
  /\ lock' = IF lock = s THEN NoServer ELSE lock
  /\ held' = [held EXCEPT ![s] = {}]
  /\ closing' = [closing EXCEPT ![s] = "no"]
  /\ srv' = [srv EXCEPT ![s] = Down]
  /\ broker' = [broker EXCEPT ![s] = NoBroker]
  /\ UNCHANGED <<starts, storage, effects, history>>

-----------------------------------------------------------------------------
(* _Broker: one-shot phases called by the probe.  None is repeated; a call  *)
(* that is out of order, or whose guard refuses, closes the channel.        *)

Usable(s) == srv[s].pc = "probe" /\ ~broker[s].closed

\* The call that is under way must come back first.
Calling(s) == broker[s].dispatch = "sent" \/ broker[s].exchange = "sent"

Phase(s, update) ==
  /\ broker' = [broker EXCEPT ![s] = update]
  /\ UNCHANGED <<lock, process, starts, storage, srv>>

\* begin: marked attempted, then DISPATCH is sent.
Begin(s) ==
  /\ Usable(s) /\ ~Calling(s)
  /\ broker[s].dispatch = "none"
  /\ Phase(s, [broker[s] EXCEPT !.dispatch = "sent"])
  /\ UNCHANGED <<effects, history>>

\* ... and STARTED comes back.
Started(s) ==
  /\ Usable(s)
  /\ broker[s].dispatch = "sent"
  /\ Phase(s, [broker[s] EXCEPT !.dispatch = "done"])
  /\ UNCHANGED <<effects, history>>

\* poll: the peer's next action or receipt chunk; refused while an action is
\* pending and after a retirement.  A GET or DELETE has no further phase: it
\* is a pending action with which the probe does nothing.
Poll(s) ==
  /\ Usable(s) /\ ~Calling(s)
  /\ broker[s].dispatch = "done"
  /\ broker[s].retirement = "none"
  /\ broker[s].pending = NoRes
  /\ \/ \E r \in Res :
          /\ ~broker[s].chunks
          /\ CaseOf[r] = srv[s].op
          /\ Phase(s, [broker[s] EXCEPT !.pending = r])
     \/ Phase(s, [broker[s] EXCEPT !.chunks = TRUE])
  /\ UNCHANGED <<effects, history>>

\* prepare_api: the authenticated API leg of the pending action.
PrepareApi(s) ==
  /\ Usable(s) /\ ~Calling(s)
  /\ broker[s].api = "none"
  /\ broker[s].pending # NoRes
  /\ Phase(s, [broker[s] EXCEPT !.api = "done"])
  /\ UNCHANGED <<effects, history>>

\* record_create_intent: the durable intent of the pending CREATE.
RecordIntent(s) ==
  /\ Usable(s) /\ ~Calling(s)
  /\ broker[s].intent = "none"
  /\ broker[s].pending # NoRes
  /\ Write(s, Row(s, "CREATE_INTENT", srv[s].op, broker[s].pending, {}), "probe")
  /\ broker' = [broker EXCEPT ![s].intent = "sent"]
  /\ UNCHANGED process

\* Mutant of Exchange: the intent is not awaited.
ExchangeEarly(s) ==
  /\ Usable(s) /\ ~Calling(s)
  /\ broker[s].exchange = "none"
  /\ broker[s].api = "done"
  /\ Phase(s, [broker[s] EXCEPT !.exchange = "sent"])
  /\ LET r == broker[s].pending
     IN  /\ flight' = flight \cup {[run |-> srv[s].run, res |-> r]}
         /\ posts' = [posts EXCEPT ![r] = @ + 1]
  /\ UNCHANGED <<cluster, probes, results, replies>>

\* exchange_api_create: attempted, then the request is written.
Exchange(s) ==
  /\ Usable(s) /\ ~Calling(s)
  /\ broker[s].exchange = "none"
  /\ broker[s].api = "done"
  /\ broker[s].intent = "done"
  /\ Phase(s, [broker[s] EXCEPT !.exchange = "sent"])
  /\ LET r == broker[s].pending
     IN  /\ flight' = flight \cup {[run |-> srv[s].run, res |-> r]}
         /\ posts' = [posts EXCEPT ![r] = @ + 1]
  /\ UNCHANGED <<cluster, probes, results, replies>>

\* ... and the created object comes back.
Response(s) ==
  /\ Usable(s)
  /\ broker[s].exchange = "sent"
  /\ [run |-> srv[s].run, res |-> broker[s].pending] \in cluster
  /\ Phase(s, [broker[s] EXCEPT !.exchange = "done"])
  /\ UNCHANGED <<effects, history>>

\* record_api_created: the durable identity.
RecordCreated(s) ==
  /\ Usable(s) /\ ~Calling(s)
  /\ broker[s].created = "none"
  /\ broker[s].exchange = "done"
  /\ Write(s, Row(s, "CREATED", srv[s].op, broker[s].pending, {}), "probe")
  /\ broker' = [broker EXCEPT ![s].created = "sent"]
  /\ UNCHANGED process

\* Mutant of SendResult: the response itself is passed on.
SendResponse(s) ==
  /\ Usable(s) /\ ~Calling(s)
  /\ broker[s].result = "none"
  /\ broker[s].exchange = "done"
  /\ Phase(s, [broker[s] EXCEPT !.result = "done"])
  /\ results' = results \cup {[run |-> srv[s].run, res |-> broker[s].pending]}
  /\ UNCHANGED <<effects, probes, posts, replies>>

\* send_create_result: one datagram, after the durable identity.
SendResult(s) ==
  /\ Usable(s) /\ ~Calling(s)
  /\ broker[s].result = "none"
  /\ broker[s].created = "done"
  /\ Phase(s, [broker[s] EXCEPT !.result = "done"])
  /\ results' = results \cup {[run |-> srv[s].run, res |-> broker[s].pending]}
  /\ UNCHANGED <<effects, probes, posts, replies>>

\* retire_create_result: the API leg is closed, then the transcript advances.
Retire(s) ==
  /\ Usable(s) /\ ~Calling(s)
  /\ broker[s].retirement = "none"
  /\ broker[s].result = "done"
  /\ Phase(s, [broker[s] EXCEPT !.retirement = "done", !.pending = NoRes])
  /\ UNCHANGED <<effects, history>>

\* A phase refused, timed out or met an error.
BrokerFails(s) ==
  /\ Usable(s)
  /\ Phase(s, [broker[s] EXCEPT !.closed = TRUE])
  /\ UNCHANGED <<effects, history>>

-----------------------------------------------------------------------------
\* The cluster applies a request, however late, or never sees it.
ApplyCreate(f) ==
  /\ f \in flight
  /\ flight' = flight \ {f}
  /\ cluster' \in {cluster, cluster \cup {f}}
  /\ UNCHANGED <<lock, process, starts, storage, srv, broker, history>>

\* The machine stops: what no fsync covered may be lost or cut.
PowerLoss ==
  /\ \E k \in 0..Len(cached) :
       /\ disk' = IF k = 0 THEN disk ELSE cached[k]
       /\ \/ torn' = IF torn = "durable" THEN "durable" ELSE "no"
          \/ (k < Len(cached) \/ torn = "cached") /\ torn' = "durable"
  /\ cached' = <<>>
  /\ lock' = NoServer
  /\ held' = [s \in Servers |-> {}]
  /\ closing' = [s \in Servers |-> "no"]
  /\ srv' = [s \in Servers |-> Down]
  /\ broker' = [s \in Servers |-> NoBroker]
  /\ UNCHANGED <<starts, effects, history>>

\* What a running server does next.
Step(s) ==
  \/ Connect(s) \/ Reserve(s) \/ LoadIdentity(s) \/ Listen(s) \/ Sync(s) \/ Execute(s) \/ Reply(s)
  \/ Close(s) \/ CloseNext(s) \/ Exit(s)
  \/ \E op \in Ops : Accept(s, op)
  \/ \E status \in {"PASS", "FAIL"}, remaining \in SUBSET Res : ProbeReturns(s, status, remaining)
  \/ Begin(s) \/ Started(s) \/ Poll(s) \/ PrepareApi(s) \/ RecordIntent(s) \/ Exchange(s)
  \/ Response(s) \/ RecordCreated(s) \/ SendResult(s) \/ Retire(s) \/ BrokerFails(s)

Next ==
  \/ \E s \in Servers : Step(s) \/ \E n \in Runs : Start(s, n)
  \/ \E f \in flight : ApplyCreate(f)
  \/ PowerLoss

Spec == Init /\ [][Next]_vars

-----------------------------------------------------------------------------
\* Nothing exists without a hold: whatever died and whatever was lost, every
\* resource in the cluster, and every request that may still create one, has
\* its intent on the disk in a reservation that still holds the capacity ("a
\* lost reply" leaves the identity held).
NoOrphan ==
  \A f \in flight \cup cluster :
    /\ disk[f.run].held
    /\ disk[f.run].resources[f.res] # "NONE"

\* The capacity has one user: over crashes, restarts, power losses and late
\* requests the durable ledger is a lease of one slot.  It is granted to a run
\* once and to one run at a time, operations run and resources exist only
\* under it, and it comes back only when nothing can be left.
Lease == INSTANCE CapacityLease WITH
  holders <- {n \in Runs : disk[n].held},
  spent <- {n \in Runs : disk[n].seen},
  begun <- {p \in Runs \X Ops : p[2] \in disk[p[1]].done},
  working <- {<<srv[s].run, srv[s].op>> : s \in {q \in Servers : srv[q].pc = "probe"}},
  exposed <- {<<f.run, CaseOf[f.res]>> : f \in flight \cup cluster},
  clean <- {p \in Runs \X Ops : p[2] \in disk[p[1]].recorded /\ disk[p[1]].current # p[2]}

ImplementsLease == Lease!Spec

\* No operation of a run is executed twice and no resource is requested
\* twice, over failures, restarts on the same envelope and power losses:
\* attempts are marked before they are made and never taken back.
AtMostOnce ==
  /\ \A n \in Runs, o \in Ops : probes[n][o] <= 1
  /\ \A r \in Res : posts[r] <= 1

\* A PASS reply proves a clean operation: its RECORDED row is durable and
\* nothing the operation could have created exists or is still to come.
PassIsClean ==
  \A p \in replies : p.status = "pass" =>
    /\ p.op \in disk[p.run].recorded
    /\ \A f \in flight \cup cluster : f.run = p.run => CaseOf[f.res] # p.op

\* The broker is told CREATED only about a resource that exists and whose
\* identity no power loss can take from the ledger.
ResultIsDurable ==
  \A f \in results : f \in cluster /\ disk[f.run].resources[f.res] = "CREATED"

\* After a row was cut short nothing is executed or requested, by any server,
\* until a power loss takes the fragment with it.
FragmentStopsWork ==
  [][torn # "no" => UNCHANGED <<probes, posts>>]_vars

\* The run lock outlasts what it protects: over refusals half-way through the
\* start, in a probe or at the end, closes that raise and deaths, the listener,
\* the connection and the channels to broker and observer that a process has
\* not yet tried to close belong to the holder of admission.lock, so another
\* server never starts beside one that can still act; and when close has ended,
\* whichever of its operations raised, nothing is left untried, and it returns
\* normally only with the lock given back.
LockOutlastsUse ==
  \A s \in Servers :
    /\ held[s] \cap Channels # {} => lock = s
    /\ closing[s] \in {"returned", "raised"} => held[s] = {}
    /\ closing[s] = "returned" => lock # s
============================================================================
