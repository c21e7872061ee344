# A TLA+ verification of the protected live backend

The repository is a conformance harness for multi-agent systems.  Most of it
validates documents; its *live backend* is a small distributed system that
consumes a one-time nonce, confines a child process, talks to an installed
proxy server over mutual TLS and accounts for the resources a test may leave in
a cluster.  This directory models that backend, checks it with TLC on small
instances, and proves most of its safety properties with TLAPS for instances of any
size.

All paths below are relative to `src/harness_conformance/` of the repository.

## 1. The system

| Part | State it keeps | Operations | Talks to |
|---|---|---|---|
| Replay journal, `live_replay_store.py` | an append-only file of digest-chained rows, a `flock`, a poison flag per instance | `reserve_nonce`, `running`, `terminal` | called by the supervisor; shared by processes through the file |
| Session supervisor, `live_supervisor.py` | a mutex, `_active`, `_opened`, `_closed`, deadline, last clock readings, receipts | `open_session`, `execute_fixed`, `cancel`, `close` | journal, cgroup lease, confined child, late resources |
| Confined child, `_NativeChannel` and `CgroupLease` | a forked child, the init of its PID namespace, two gates, a channel, a cgroup leaf, a pidfd | `establish`, `check_peer`, `execute`, `interrupt`, `cleanup`; `attach`, `kill_and_reap` | supervisor, kernel |
| Retained custody, `_RetainedCustody` (`live_linux_boundary.py`) | rows of descriptors and identities, the bytes read, sealed, closed; one owner thread | `read`, `read_kit`, `seal`, `check`, `close` | the host's files; used by the supervisor |
| TLS and HTTP reading, `_TLS` and `read_http` (`live_proxy_client.py`) | two memory BIOs, the bytes so far, a budget | `call`, `receive`, `flush`, `read_http` | client and proxy server |
| Late credential resources, `_LateResources` | state, operation, credential bytes, ancestry descriptors, memfd, socket | `credential_bytes`, `tls_memfd`, `close_memfd`, `transport`, `finish`, `close` | driven by `_NativeChannel.execute` and `execute_protected` (`live_proxy_client.py`) |
| Admission ledger, `live_mutation_admission.py` | an append-only file of reservations, operations and resource rows | `record`, `record_resource`, `parse_reservations` | called by the proxy server and its broker phases |
| Proxy server, `live_proxy_server.py` | the run lock `admission.lock`, the active operation, a listener | `__init__`, `serve`, `close` | ledger, broker, observers, the fixed probe |
| Broker channel, `_Broker` | nine one-shot phases, a transcript | `begin`, `poll`, `prepare_api`, `record_create_intent`, `exchange_api_create`, `record_api_created`, `send_create_result`, `retire_create_result` | a broker process over a socket, the cluster's API server |
| Broker transcript, `BrokerTranscript` | sequence, link, execution, pending action, chunks, cleanup, terminal, poison | `accept`, `server_frame` | fed by both ends of the channel |
| Kernel inspection, `_KernelSelfInspection` and its observer and broker variants | seven readers with their retained descriptors and identities, `owned`, `closed`, `failed`, `cleanup_failure`, `epoch_ready` | construction, `check`, `close`, a tick of the owner around every operation and a sampling one around every read | the kernel; called by the guards of server, observer channel and broker |
| SELinux status page reader, `_KernelNativeReads` | a mapping, the barrier registration | `status_epoch`, `_mapped_status` | a page the kernel rewrites in place |
| Policy observer channel, `_Observer` | socket, pidfd, inspection, the last observation | connect, `check`, `observe`, `close` | an observer process over a socket |
| Server files and qualification binding, `_Files`, `_ServerQualificationBinding` | open files and their identities | `check`, `close` | re-read by every tick |
| Authority, session and profile documents | none | verify signature, digest, schema | both ends |
| Campaign, evidence, acceptance, readiness, CI, parity, probes | files and reports | sequential | - |

Which behaviours are hard, and what makes each part correct:

* **Journal.** Several processes append to one file; a write can be short, an
  fsync can fail, a process or the machine can die anywhere.  A nonce must be
  granted once for ever, a row whose call returned must never be lost, and
  nothing may be appended after a fragment.
* **Supervisor.** Threads call it concurrently; `cancel` and `close` do part of
  their work outside the mutex; the wall clock may be set; cleanup may fail; the
  process may die and be started again on the same binding.  Work needs a
  durable `RUNNING`, a terminal row must be true, no case is sent twice.
* **Confined child.** Supervisor, child and init run side by side and each may
  die anywhere; a death signal is lost if the parent dies before it is armed and
  again when the identity changes; the move into the cgroup leaf may be
  ambiguous.  No process may outlive its parent or escape the leaf, and a cleanup
  that returns must have left nothing.
* **Retained custody.** Files are opened, listed, read in chunks and compared one
  system call at a time while the host may exchange them.  What is sealed must
  have existed at one moment; every descriptor is closed or reported.
* **TLS and HTTP.** Records, network segments and read sizes cut a message
  independently, and it may end anywhere.  The verdict must depend on the message
  alone and must come within the budget.
* **Late resources.** An exception unwinds through three callers, each of which
  cleans up; every close may fail.  No secret or transient descriptor outlives
  its operation, and a failed close must reach the terminal decision.
* **Ledger, server and broker.** Three durable steps surround one remote effect;
  any process or the machine may die between them and the cluster may apply a
  request after everyone has given up.  Nothing may exist without a durable
  hold, nothing is requested twice, capacity is released only when clean.  Every
  phase compares authority, peer, ledger and observed policy around its one
  effect, each at another moment; what it publishes must have been done in the
  world the dispatch pinned.
* **Transcript.** Frames may be repeated, reordered or come from the wrong end.
* **Kernel inspection.** What it reads belongs to others and may change between
  any two reads; any read may raise with descriptors half acquired.  A normal
  return must mean that every view was seen as retained and that all it read was
  read under one policy, a refusal must be final, and every descriptor is closed, once, after its
  borrowers, or reported.
* **Status page.** It is read without a lock while the kernel writes it.
* **Observer channel.** Answers may be late, repeated, or come from an observer
  that started over.  What is accepted must be current and of one version.

## 2. Modules

| Module | Models |
|---|---|
| `ReplayStates` | the states of a nonce and `EDGES`, shared by journal and supervisor |
| `ReplayJournal` | `_Journal` over `_FileIO`, processes, crashes, power loss |
| `NonceRegistry` | the abstract promise of the journal: a durable status per nonce that only moves forward, and at most one grant |
| `ReplayJournalProofs` | the theorems about `ReplayJournal` |
| `Supervisor` | `_Lifecycle`, `NativeSupervisor`, the outcomes of `_NativeChannel` |
| `SupervisorProofs` | the theorems about `Supervisor` |
| `ChildStartup` | `_NativeChannel` step by step with `CgroupLease`, the forked child and its init |
| `ChildStartupProofs` | the theorems about `ChildStartup` |
| `RetainedCustody` | `_RetainedCustody` against a host that changes files, names and descriptor numbers |
| `RetainedCustodyProofs` | the theorems about `RetainedCustody` |
| `HttpExchange` | `_TLS.call`, `receive`, `flush` and `read_http` against a peer, a network and a clock |
| `AdmissionLedger` | the ledger as data: which row may come next, what it makes of its run |
| `ProxyServer` | `NativeProxyServer`, `_State`, `_Broker` and the cluster, on top of `AdmissionLedger` |
| `CapacityLease` | the abstract promise of ledger and server: one slot, got once, held until clean |
| `ProxyServerProofs` | the theorems about `ProxyServer` and `AdmissionLedger`, that they implement `CapacityLease`, and those about `BrokerTranscript` |
| `BrokerTranscript` | `BrokerTranscript` |
| `LateResources` | `_LateResources` with its callers |
| `ProxyClientProofs` | the theorems about `LateResources` and `HttpExchange` |
| `Inspection` | `_KernelSelfInspection`, `_KernelObserverInspection`, `_KernelBrokerInspection` and their readers |
| `StatusPage` | `status_epoch` and `_mapped_status` against the kernel's updates |
| `KernelInspectionProofs` | the theorems about `StatusPage` and `Inspection` |
| `ObserverChannel` | `_Observer` and `validate_messages` |
| `BrokerGuards` | the guards inside the eight broker phases, composed with `ObserverChannel` |
| `BrokerGuardsProofs` | the theorems about `ObserverChannel` and `BrokerGuards` |
| `MC*` | the small instances |

### ReplayJournal

`file` holds complete rows, `tail` says whether an incomplete row follows and
whether it has reached the disk, `synced` counts the rows an fsync has covered.
`Transaction` is `flock`, `read`, `parse_journal` and the conditions of
`_record`; everything that raises there leaves no trace, so a refusal is not a
step.  `AppendRow` and `ShortWrite` are `os.write`; `SyncRow` the two `fsync`s;
`Readback` the comparison and the return; `StorageError` any exception after the
append began, which poisons the instance.  `Crash` drops one process, its lock
and its poison flag; `PowerLoss` drops all processes and any suffix of the
unsynced rows, possibly leaving a fragment.

Assumptions, stated in the model by construction: digests are collision-free (a
row's digest is its content without the link); a successful `fsync` makes every
row present in the file durable; `flock` excludes processes, which each have an
open file description of their own.  Threads of one process share one, and are
kept apart by the supervisor's mutex.

### Supervisor

`mutex`, `opened`, `closed`, `cancelled`, `active` and `sess` are the fields of
the same names; `owner` is the thread that made the instance, since retained
custody answers only to that thread (`owner_check`).  Each public call is split
where it releases or does not hold the mutex, where it blocks, and where it
writes the journal: `open_session` is `OpenSession`, `Reserve`, `Establish`,
`Running` (or `Abandon`); `execute_fixed` is `ExecuteFixed`, `Precheck`,
`Remote`, `Postcheck`; `cancel` is `Cancel`, `Interrupt`, `CancelAcquire`;
`close` is `Close`, `CloseAcquire`, `Closing`; `_terminate` is `Invalidate`,
`Cleanup`, `RecordTerminal`.  A journal call is refused, durable, or ambiguous
(poisoned, the row there or not), which is what `ReplayJournal` shows it to be.
`holders` is who keeps the open file description of `session.lock` alive; the
forked tree inherits it, so a restart waits for the tree of a dead supervisor.
Signature and context checks are one nondeterministic verdict.  `Close` reads and
sets `_closed` in one step; the code does so in two statements without the mutex, so
two threads in `close` may both get past the test, and both then do what `Close` lets
one do.  An asynchronous exception (KeyboardInterrupt) between two statements is not
modelled.

### ChildStartup

`pc` holds the position of three processes.  The supervisor's is `establish`
(`Fork`, `Attach`, `OpenGate`, `ReceiveMap`, `WriteMaps`, `ReceiveReady`,
`OpenPidfd`, `Identify`, `CheckPeer`), one exchange of `execute` with the
custodian (`Request`, `ReceiveEcho`), `interrupt`, and `cleanup` with the loop of
`kill_and_reap` (`KillLeaf`, `Drain`, `Events`).  The child arms its death signal,
checks its parent, waits at the gate, unshares, waits for its maps, takes its
identity, arms and checks again, forks and waits; init arms, asks the retained
pidfd whether its parent lives, confines itself, reports and serves.  The kernel
is what the code relies on: signals on the parent's death for armed processes
only, disarmed by a change of identity; a fork inherits the leaf; orphans go to
the subreaper or the host; the number of a reaped process may name another.
`Supervisor` uses the outcomes of this module in one step: established or not,
quiet or unproven.

### RetainedCustody

`rows` holds, per path, the identity behind the descriptor and the identity that
was accepted; `order` is the list of handles that `check` goes through and `close`
goes back through.  Each `os.open`, `fstat`, `stat`, `listdir` and `os.read` is a
step, and so is each comparison of a row with its descriptor and with its path
(`CheckStep`).  The host may rewrite a file in place, put another in its place,
add and remove kit names, or take over a descriptor number before any step.  An
identity includes the change time and is assumed never to repeat; the content of
a file is named by the identity it had when read.  Size, mode and digest demands
may refuse anywhere.  `snap` is history: what the host looked like when `seal`
began.

### HttpExchange

A message is a number of header units, a declared size, a number of body units
and whether `close_notify` follows; `ends` cuts its stream in records, `sent` and
`received` in what the network delivers, and `ReadSize` in what `read_http` asks
for.  One step is one `ssl.read`, one `recv` or its timeout.  `Late` and `Stop` are
`check`: the clock, and any other refusal.

### AdmissionLedger, ProxyServer and CapacityLease

A ledger is the parsed state of every run.  `RowAccepted` is the refusal logic
of `parse_reservations` and `_resource_transition`, `EntryAfter` its updates.
`ProxyServer` keeps the ledger on disk, the ledgers after each row written since
the last fsync, and a fragment marker.  `Start` is the first part of `__init__`: files,
binding, inspection and `admission.lock`; `Connect` the observer and the broker;
`Reserve` the reservation, `LoadIdentity` and `Listen` the rest.  `Accept` and `Execute` are the front half of `serve`,
`ProbeReturns` and `Reply` its back half; the phases of `_Broker` are actions of
their own, each one-shot.  A CREATE is two steps, the request (`Exchange`) and
the answer (`Response`); between them the request is in `flight`, and
`ApplyCreate` may deliver it at any later time, or lose it.  Every retained
re-check of the code may refuse anywhere: that is `Close` or `BrokerFails`.
`held` is what a process has acquired and not yet tried to close.  `Close` marks the
server closed, `CloseNext` is one operation of the loop of `close`, in the order
`Turn`: it succeeds or raises, and one that raises may or may not have released the
lock (`_State.close` checks the identity of a descriptor before it closes it).  When
nothing is left, close returns or raises its first failure, and `Exit`, at the end or
at any moment before it, hands the rest to the kernel.  A server started again is a
new process.
The probe is not part of the repository: it may call the phases in any order and
return any result.

`CapacityLease` knows neither rows nor servers.  `ProxyServer!ImplementsLease` maps
to it what is durable: who holds the slot, which operations have begun, which are
at work, of which something exists or may still come to exist, and which are
known to be clean.  A crash or a power loss maps to a rest or to nothing, so a
run that did not end cleanly keeps the slot for good.

### BrokerTranscript

`accept` is one action over every payload the schema admits and over headers
around the next one: the right one, a repeat, a wrong link, another execution, another
dispatch.  The eight common fields (`BROKER_COMMON`), which a frame must share with the
first, are one fact of the header, and so are the kind, namespace and name by which a
remaining resource is known; the schema's upper bound on a chunk's index is left out.
A refused frame poisons the transcript.  Digests are names: a link is the number
of the frame it is the digest of, a receipt digest is the sequence of chunks.

### LateResources

One session's object and the position of the one thread that may use it.  Each
primitive succeeds or fails at any of its checks, having opened any subset of
what it opens; each close of `close()` may fail on its own.  `claim` is what
`_terminate` did; `lost` and `reads` are history.

### Inspection

An entry point is a *program*: the sequence of elementary operations its call
performs, composed as the code composes its context managers (`PolicyPhase`
checks the roots before and after its body, and so on), with a tick before each and
after the last.  There are two ticks, as in the code: the owner's `_tick` around every
operation looks at the files of the server and at the peer (`OwnerTick`); a reader's
`_reader_tick`, around every operation that reads (`Reading`), does that and, once
`epoch_ready` is set, samples mounts, epoch and mounts (`Sample`).
`Observe` is `_observe`; `BuildProgram` is the constructor.  The world is a fact
per reader, the policy's sequence, the life of the peer and the descriptor
numbers that have come to name something else; each may change before any
operation.  A fact has two values that the signed record accepts but that differ
in identity, and one it refuses, so that "acceptable" and "the same as before"
are told apart.  The code says of `_observe` that its brackets "detect drift, not
an in-between change/ABA exclusion"; `PassMeansHeld` asks exactly that much of
the facts and more only of the policy, whose sequence cannot go back: the last read of
the call was made under the pinned epoch (`seen`, history), hence every read.  After the
last read there are only the join to the peer, the owner's ticks and the check of the
binding; a policy that is reloaded there is not noticed before the next call, in the
code and in the model.
`LookAgain` fails where the code compares and `LookLeaks` where a temporary
descriptor cannot be closed; `CallFails` is every other exception (clock, deadline,
system call).  `CloseView` is one turn of the loop of `close`.

### StatusPage

The kernel makes the sequence odd, writes the words one at a time, makes it even.
The reader's six loads happen in any order their two fences allow.  The sequence
wraps at `Cycle`; the assumption `2 * MaxUpdates < Cycle` stands for fewer than
2^31 updates in the at most 900 seconds of an inspection.  In `Inspection` a read
of the page is one step, which is what `StatusPage` shows it to be.

### ObserverChannel

The observer and the cluster are external: the observer answers any request it
received among the last `MaxBacklog` with what it then sees, with at most
`MaxSurplus` answers outstanding or superfluous, and may start over on the same
socket with its generations counted from one.  It reports a new
generation for every change of the policy; that is its contract and an
assumption here.  A digest of an observation is the challenge in it, which never
repeats.  `matches` stands for all comparisons with the signed binding.

### BrokerGuards

A phase is a program, as in `Inspection`: the comparisons and effects its call
performs in order.  `Check` is `_BrokerStart._check`, which every other guard
reaches: base, ledger, peer, one observation on the channel of `ObserverChannel`
(`Ask`, then `Observe` or `ObserveRefused`), peer, ledger.  The kinds of effect are
`Act` (a datagram, a connection, a handshake, the POST), `Local` (what stays in the
process) and `WriteRow`; only the row that was read back extends the history the
next guards demand (`Advance`).  Any refusal closes the channel for good and
poisons the log once a row may have been written.  `ProxyServer` has the same
phases with their durable effects and lets each of them refuse anywhere; here it
is shown what a phase that does not refuse has established.

## 3. Runs

| Run | Instance | Shows |
|---|---|---|
| `MCReplayJournal` | 2 processes, 3 bindings of 2 nonces (two bindings compete for one nonce), times 0..2, 3 rows | `GrantedOnce`, `WritersNeverCorrupt`, `AckedIsDurable`, `TerminalIsTimely`, and that the journal implements `NonceRegistry` |
| `MCSupervisor` | 2 threads, 2 cases, 2 starts, clocks 0..2, a session of 1 unit, fairness | `JournalSerial`, `WorkNeedsJournal`, `TerminalMeansQuiet`, `CompletedMeansAllPassed`, `EachCaseOnce`, `CancelTakesEffect`, `MutexIsReleased` |
| `MCChildStartup` | one session's tree, fairness | `NothingOutsideLeaf`, `QuietMeansEmpty`, `OrphansDie`, `KillEndsTree` |
| `MCRetainedCustody` | 1 authority file, a kit of up to 2 files, 2 reads per file, 2 changes of the host | `SealIsSnapshot`, `CloseIsTotal` |
| `MCHttpExchange` | headers and bodies of up to 3 units where 2 are allowed, cut in every way; a header budget of 1 and a deadline of 2, fairness | `VerdictFitsMessage`, `ReaderEnds` |
| `MCProxyServer` | 2 servers, 2 runs, 2 operations with 1 resource each, 3 starts | `NoOrphan`, `AtMostOnce`, `PassIsClean`, `ResultIsDurable`, `FragmentStopsWork`, `LockOutlastsUse`, and that servers and ledger implement `CapacityLease` |
| `MCBrokerGuards` | one operation through all eight phases, 22 observations, 2 changes, 1 surplus answer | `PublishedUnderPin`, `OneLateEffect`, `OneVersion`, `FreshView` |
| `MCBrokerTranscript` | 2 action ids, 1 owned and 1 foreign manifest, 2 executions, receipts of at most 2 chunks, 8 frames | `WellFormed`, `CompletedIsHonest` |
| `MCLateResources` | 3 operations, an ancestry of 3 descriptors | `NothingSurvives`, `LossIsReported` |
| `MCInspection` | the server's inspection and a peer's, 2 changes of the world, 3 calls after construction, 1 reader that meets a failing close | `PassMeansHeld`, `CloseIsHonest`, `BorrowersFirst` |
| `MCStatusPage` | a sequence modulo 6, 2 updates, 2 reads | `NoTornRead`, `HeldMeansUntouched` |
| `MCLateResourcesClaim` | the same as `MCLateResources` | *violated*: `NoClaimWhenUnproven`, see section 6 |

Why the bounds are enough.  Three rows are RESERVED, RUNNING and a terminal row
of one nonce, or the two nonces interleaved, and the full journal; the proofs
remove the bound altogether.  Two starts of the supervisor are a crash and a
restart on the same binding; with three clock values and a session of one unit
the deadline comes inside or at the end of the window, and the wall clock can go
back (what lies before the window is in the journal's run).  The confined tree
has no parameter.  One authority file and two kit names are the least with a file
outside and two inside a listed directory; two changes are one that spoils a
comparison and one that tries to hide it, and two chunks put a change between
them.  With limits of two units, messages below, at and above each limit occur,
and a record, a segment and a read can end at three different places in each.
Three starts of a server cover crash, restart on the same run, and a competing
run, and two operations cover a run that is half done and one that can finish and
release.  Twenty-two observations are the 21 of one operation and one of the
server before it; one surplus answer suffices, since answers are taken in order
and the first that does not fit ends the channel, and a backlog of two lets it be
for the present or the previous request.  Eight frames hold a whole execution
with an action, a result, two chunks, cleanup and terminal, and one frame too
many.  Three operations suffice for a first, a retained and a last use of the
credential.  Two changes of the inspected world are a change and its undoing, or
a change of two views; three calls are a check, a check after a refusal or a
close, and a second close.  A sequence modulo 6 is the smallest that wraps within
two updates, from each even start.  The broker's inspection runs the same program
as the observer's and is left out of the run for its time (about 80 seconds as it
is).  The longest runs are those of `Supervisor` (520 000 states), `ProxyServer`
(700 000), `BrokerGuards` (1.8 million), `Inspection` (3.8 million), and that of
`BrokerTranscript`, which has few states and many frames in each.

Symmetry is used in the runs of the journal, of the proxy server and of the
transcript, over processes, cases and identifiers that no constant distinguishes, and
in no run with a liveness property.

`CHECK_DEADLOCK FALSE` stands where the system really stops: a session, its tree
and its custody, a server run, a broker operation, a transcript and a message end,
the reads of the status page run out.  The other runs are checked for deadlock.

Fairness.  `Supervisor!FairSpec` asks weak fairness of the steps of a call that
has begun: the interpreter runs every thread, and each blocking operation is
bounded by the session's absolute deadline or the ten seconds of the reap.  It
asks nothing of callers, of the clocks or of the child.  One consequence of weak
fairness: a caller waiting for the mutex gets it only because sessions are
one-shot and the mutex cannot be taken again and again for ever.
`ChildStartup!FairSpec` asks that the scheduler runs the child and its init and
that the kernel delivers a pending SIGKILL; it asks nothing of the supervisor and
not that time passes, so `OrphansDie` does not lean on the deadline.
`HttpExchange!FairSpec` asks that the reading thread runs and that time passes, and
nothing of the peer.

## 4. Proofs

`ReplayJournalProofs` proves, for every set of processes and bindings, every
window and every bound:

* `TypeCorrect`, `NonceGrantedOnce`, `JournalStaysReadable`,
  `ReturnedRowsAreDurable`, `TerminalRowsAreFinal`, `TerminalRowsAreTimely`
  (invariants), `FragmentStopsWriters` (an action property), and
* `JournalImplementsRegistry`: `ReplayJournal!Spec` implements
  `NonceRegistry!Spec` under the mapping from a nonce to its last synced row.

`TerminalIsFinal` and `NoWriteAfterFragment`, which `TerminalRowsAreFinal` and
`FragmentStopsWriters` prove, are no separate properties of the run.

The theorems rest on the named assumptions about the constants in `ReplayJournal` and on
one inductive invariant, `IInv` (theorem `Invariance`):

* `LockInv`: a process inside a transaction holds the lock, so there is one;
* `PendingInv`: what it read is still the file (without its own row), and its
  row is what `_record` may append to that.  Without this a writer could append
  a row checked against another file;
* `SyncedInv` and `HistoryInv`: the synced rows are a prefix, and every returned
  row lies in it unchanged, so a power loss takes only rows nobody was told of;
* `OrderInv` and `LatestInv`: a file that parses has, per nonce, one RESERVED
  row first and states along `EDGES`; this is why a terminal row is last;
* `TimelyInv`: each row lies on the right side of its window;
* `GrantInv`: a nonce that was granted has a synced row.  `GrantedOnce` alone is
  not inductive: the second grant is excluded only because the first left a
  durable row which `MayRecord` sees.

`KernelInspectionProofs` proves of `StatusPage`, for every even cycle of the sequence word and every
number of updates below half of it:

* `StatusTypeCorrect`, `StatusReadIsAtomic` (`NoTornRead`) and `MatchExcludesChange`
  (`HeldMeansUntouched`).

The inductive invariant is `StatusPage!IInv`: the sequence word is determined by
the number of updates (`SeqInv`); between updates the page is the last version
(`PageInv`); the loads follow the fences (`OrderInv`); and, the part that makes
it inductive, a word already copied equals the version at "before" *unless the
page has moved since* (`CopyInv`), which an unchanged sequence at "after"
excludes.  That an unchanged word excludes movement is `WrapInjective`, and this
is where the bound on updates is needed.

It proves of `Inspection`, for every role and any number of changes by the host, of
failing calls and of calls, `CloseIsHonest` (`InspectionClosesHonestly`) and the action
properties `PassMeansHeld` (`PassingMeansHeld`) and `BorrowersFirst`
(`BorrowersCloseFirst`).  A program there is some hundred operations long, put together
by concatenation from the checks and constructors of seven readers, and the proof does
not follow it element by element.  A *stage* is what a program owns, has constructed and
has seen; `Moves` says from which stage to which one operation leads.  Each piece of a
program gets a type: `Leads(s, x, y)` says that `s` leads from stage `x` to stage `y`,
`Looks(s, N, L)` that `s` only observes, and from every stage where the readers `N` are
live leads to the same stage with the views `L` seen.  Both compose under
concatenation, so there is one small lemma per reader's check and constructor, and one
per role and call says that the whole program reaches the end with every view seen and
the peer joined.  The inductive invariant is `InspectionInv`:

* `OwnedInv`: readers are owned once and after all they borrow from.  The loop of
  `close` takes the last one, which is why borrowers go first;
* `OpenInv`: an open descriptor belongs to a reader that `close` will still reach, live,
  and its identity is known except while a failed open is being cleaned up;
* `BadInv`: a failed cleanup is on record with the owner, or with a reader that `close`
  has yet to reach;
* `RunInv`: inside a call the state fits the stage its program is at, and that program
  leads from there to its end.  Without it nothing says that a program which has come to
  its end has seen all views;
* `IdleInv`: between calls the owner is whole, or closed with nothing left to close.

That all reads fall under the pinned epoch needs a second invariant on top, `SeenInv`.
A read made after the policy has left the epoch is one whose own tick is still due; that
tick is a sampling one and fails (`TickCatches`).  Before `epoch_ready` ticks do not
sample, and a read may go unnoticed there; the operation "ready" is therefore a stage of
its own (`Sampling`) that drops what was seen of the roots, so the program can only
reach its end through a look that was sampled.

`SupervisorProofs` proves, for every set of threads and cases, every window and
duration and any number of restarts, `JournalSerial` (`RecordsAreSerial`),
`WorkNeedsJournal` (`NoWorkWithoutJournal`), `TerminalMeansQuiet`
(`TerminalIsQuiet`), `EachCaseOnce` (`NoCaseTwice`) and `CompletedMeansAllPassed`
(`CompletedIsEarned`).  The parts of its `IInv`:

* `MutexInv`: the mutex and the positions of the threads agree;
* `CustodyInv`: a thread that cleans up outside the mutex has seen the session gone
  and `_closed` set, which keeps any other from opening one.  This is what makes
  `close` outside the mutex safe, and none of the five properties is inductive
  without it;
* `ActiveInv` and `JournalInv`: `_active` tells where the holder can be, and the
  nonce is at least as far as the session;
* `CaseInv`: a case that reached the backend is done, or in the hands of the holder
  of the mutex, or its session takes no more cases; a nonce that is only reserved
  has started none.  So a restart finds either nothing sent or a nonce it cannot
  run again;
* `PassInv`: while the session takes cases, the cases done are cases passed.

`ChildStartupProofs` proves `NothingOutsideLeaf` (`LeafHoldsTheTree`) and
`QuietMeansEmpty` (`QuietIsEmpty`).  The first needs `LeafInv`: the gate is opened
only for a child that is in the leaf or dead.  The second needs `ForkInv` (who can
have been forked) and `ReapInv`: where the loop sees no children there are no
grandchildren either, because a subreaper adopts them.

`RetainedCustodyProofs` proves, for any files, kit, number of reads and number of
changes by the host, `SealIsSnapshot` (`SealedIsOneMoment`) and `CloseIsTotal`
(`CloseGivesAllBack`).  Identities only grow, so (`RowInv`) the accepted identity is
at most the descriptor's and that at most the path's.  A comparison with the path
that passes after seal began then pins the accepted identity to that moment, from
below and from above (`SealInv`).  A chunk is of the accepted identity once its
descriptor has been compared (`GotInv`), so every stored one is (`FileInv`), and the
names of the kit follow its directory's identity (`WalkInv`, `KitInv`).  `CloseInv`
says that close moves each row out of the order to those tried or reported.

`ProxyClientProofs` proves of `LateResources`, for every set of operations and every ancestry,
`NothingSurvives` (`NothingSurvivesAnOperation`) and `LossIsReported`
(`LossesAreReported`).  `ActiveInv` says that wherever an exception may be in flight
the object is still `IO_ACTIVE`, so the outer handler does clean up;
`CredentialInv` that the credential is with its whole ancestry or gone for good,
which bounds the reads; `LossInv` that `cleanup_failure` knows every loss but the
memfd's.

It proves of `HttpExchange`, for all limits, messages, divisions into TLS records, read
sizes and cuts of the connection, `VerdictFitsMessage` (`VerdictIsOfTheMessage`).
`StreamInv` orders the hands the stream goes through: read at most decrypted, decrypted
at most received, received at most sent, and no record holds both a part of the body and
the close_notify.  `LoopInv` says what each loop of `read_http` knows of the message: in
the header loop less than the header has come, in the body loop the header was accepted
and the body is incomplete, in the last loop exactly the declared message was decrypted.
The next record exists because a set of naturals has a least element
(`LeastOfNaturals`).

`ProxyServerProofs` proves, for any number of servers, runs, operations, resources
and starts, `NoOrphan` (`NothingIsOrphaned`), `AtMostOnce` (`AttemptsAreSingle`),
`PassIsClean` (`PassesAreClean`), `ResultIsDurable` (`ResultsAreDurable`), the action
property `FragmentStopsWork` (`FragmentsStopWork`), `LockOutlastsUse`
(`TheLockOutlastsUse`), and `TheLedgerIsALease`: servers and ledger implement
`CapacityLease!Spec`.  The parts of its `IInv`:

* `UpInv`: who is up holds the `flock`, so one server is; past its reservation there
  is no fragment, and between its rows everything is on the disk;
* `LedgerOK`: one run holds the capacity, and an operation that has left anything
  stays the current one of its run, which keeps the capacity;
* `ChainInv`: not covered by an fsync are at most one row and after it a reservation.
  Together with the lemma that an accepted row takes nothing back (`Grows`), what
  the server reads is at least what a power loss leaves;
* `PlaceInv` and `BrokerInv`: what the ledger says of the run at each position and
  after each broker phase, the phases in order;
* `EffectInv`: every request, resource, result, receipt and probe rests on a row on
  the disk.

`ProcessInv`, beside it, is about the closing: who has a channel or the lock's
descriptor holds the lock, and the channels' turns come before the lock's, so an
operation of close never gives the lock away while a channel is left, and one that
raises is a turn like any other.

For the implementation every step is mapped to a step of the lease or to none.
`Sync` maps to the step of the row it covers; the two rows that may become durable
at once when a server finds both a predecessor's row and its own reservation map to
one step of the lease, which is why that has a step for both.

It proves of `BrokerTranscript`, for all actions, manifests, executions and receipts,
`WellFormed` (`TranscriptIsWellFormed`) and `CompletedIsHonest` (`CompletionIsHonest`).
`accept` keeps no frames, only a handful of fields, and the invariant says that each
field is a function of the frames accepted: sequence and link of their number, the open
action of the last frame (`LastInv`), the actions and their ids of the frames of that
kind, with `failed_action` unset only while every result was permitted (`ActionInv`),
the chunks of the chunk frames in their order and not more than the maximum
(`ChunkInv`), cleanup and terminal of the last two frames (`EndInv`).  A frame that
passes the guards on the fields then fits the frames (`TakenFits`), and frames already
accepted fit as before because a transcript only grows (`OldFits`).

`BrokerGuardsProofs` proves, for every bound, `OneVersion` (`ObservationsAgree`) and
`FreshView` (`ObservationsAreFresh`, an action property) of the channel and
`PublishedUnderPin` (`PublishedInThePinnedWorld`) and `OneLateEffect`
(`AtMostOneLateEffect`) of the phases.  In the channel, boot and generation only move
forward, lexicographically, and under one boot generations and versions are the same
distance apart (`Honest`, `SamePast`); what is in the socket for the open request was
seen after it was sent (`InboxInv`).  In the phases every effect is followed by a
whole check (`Guarded`), and an effect outside the pinned world leaves a program that
is *doomed*: the comparison that will meet the reason is still ahead (`TaintInv`).
Neither property is inductive alone, since a phase that has acted too late goes on
for several steps before it refuses.

Every property was checked with TLC before it was proved.  The theorems
rest on the named assumptions of the modules and on nothing else.  A proof module
about two models extends both, so the names of such a pair differ (`HttpSpec`,
`TranscriptSpec`, `InspectionSpec`); each theorem is about one of them.  The bounds of the
runs are constants of the theorems, so they hold for every value of them.

Only model-checked:

* all liveness (`CancelTakesEffect`, `MutexIsReleased`, `OrphansDie`, `KillEndsTree`,
  `ReaderEnds`): fairness and `ENABLED` are outside what the prover does;
* the claim of `MCLateResourcesClaim`, which does not hold (section 6).

Every safety property of the passing runs, the invariants and the action properties, is
the statement of a theorem.

## 5. What is not modelled

* the parsing of what procfs, mountinfo, cgroup files and `bpf` return: a fact per
  reader in `Inspection`; opening and decoding of the server's files.  These are
  conversions of bytes without state of their own;
* the composition of the kernel inspection with the server's phases: in
  `BrokerGuards` it is part of the base and peer comparisons, in `ProxyServer` a
  guard that may refuse at any step;
* `bind_runtime` and the listing of `/proc/self/fd` by `check_ambient`: they compare
  and refuse, and change nothing;
* the closing of pipe and socket ends between the fork and the attachment, if
  that itself raises; asynchronous exceptions between two statements;
* the contents of the seccomp program, the mounts and the namespaces: one fact,
  `confined`, in `ChildStartup`;
* the TLS handshake, certificates and DER, header syntax and JSON at the level of
  bytes; signature and schema checks, which are verdicts;
* profiles, observations and qualification records (pure predicates over one
  document);
* campaign, lifecycle, evidence, acceptance, readiness report, launcher, command
  line, CI scripts, parity adapters and the Rust probes: sequential programs that
  read, convert and refuse; nothing in them is concurrent, retried or recovered.

## 6. Finding

`_LateResources.close_memfd` calls `_close_io`, which removes the memfd's row
before it checks and closes the descriptor.  If that raises, `_fail` closes what
is left in the rows, where the memfd no longer is, and `cleanup_failure` stays
unset.  The custody then closes without an error and `_terminate` writes the
terminal row although one close has failed.  `live_supervisor.py` line 209 says
"Consumed nonce, no terminal claim when time or cleanup is unproven"; the run
`MCLateResourcesClaim` shows the shortest way there.  `finish`, which closes the
same rows, keeps its first failure, and `LossIsReported` shows that the memfd is
the only exception.

## 7. Plan

Built, in this order: the journal with its abstract registry and proofs; the
supervisor over it; the admission ledger and the proxy server; the transcript;
the late resources; the kernel inspection, the status page with its proofs, and
the observer channel; the start-up of the confined tree; retained custody; the
abstract lease that the proxy server implements; the guards of the broker phases
over the observer channel; the reading of messages.

The safety properties of all of them are proved, and both implementations of an
abstract specification.  What is left:

1. the supervisor over the journal's stages instead of one-step calls, so that a
   second process and a full journal meet a running session;
2. the server's phases over `Inspection` instead of a guard that may refuse at any step;
3. opening of the server's files and of the qualification binding.
