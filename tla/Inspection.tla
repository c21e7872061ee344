----------------------------- MODULE Inspection -----------------------------
(***************************************************************************)
(* The kernel inspection of the proxy server (live_proxy_server.py):       *)
(* _KernelSelfInspection and the two peer inspections derived from it, the *)
(* seven readers each of them owns, and their ticks: the owner's around    *)
(* every operation, the reader's around every read.                        *)
(*                                                                         *)
(* The process is single threaded, but everything it reads belongs to      *)
(* others.  Between any two operations of a phase the world may change: a  *)
(* mount, a cgroup limit, a filter, a code file, the SELinux policy, the   *)
(* life of the peer.  An inspection is a program, a sequence of elementary *)
(* operations with a tick around each.  Any of them may raise; the phase   *)
(* then closes what was acquired, in reverse, and is never used again.     *)
(*                                                                         *)
(* What is read is abstracted to a fact per view: 0 and 1 are two values   *)
(* the signed record accepts but that differ in identity (an inode, a      *)
(* mount, a process start time); 2 is a value it refuses.  The SELinux     *)
(* status page is its sequence (module StatusPage): 0 is the pinned one.   *)
(***************************************************************************)
EXTENDS Naturals, Sequences, FiniteSets, SequencesExt

CONSTANTS Roles,      \* the inspections to study: "SERVER", "OBSERVER", "BROKER"
          MaxDrifts,  \* bound on the changes of the world
          MaxCalls,   \* bound on the calls of check() and close()
          MaxBad      \* bound on the readers that meet a failing close

ASSUME InspectionAssumption ==
    /\ Roles \subseteq {"SERVER", "OBSERVER", "BROKER"}
    /\ MaxDrifts \in Nat /\ MaxCalls \in Nat /\ MaxBad \in Nat

Views == {"roots", "policy", "process", "code", "mappings", "cgroup", "filters"}

Facts == Views \cup {"files"}  \* "files": the server's own retained files

Pinned == 0..1     \* facts the signed record accepts
Values == 0..2
NoValue == 9       \* nothing retained yet

-----------------------------------------------------------------------------
(* Descriptors.  Each view's rows are one resource, named after the view;  *)
(* the process view also holds a pidfd and the policy view a mapping.      *)

RootsHolds    == {"roots"}
PolicyHolds   == {"policy", "mapping"}
ProcessHolds  == {"process", "pidfd"}
CodeHolds     == {"code"}
MappingsHolds == {"mappings"}
CgroupHolds   == {"cgroup"}
FiltersHolds  == {"filters"}

Holds == [v \in Views |-> CASE v = "roots"    -> RootsHolds
                            [] v = "policy"   -> PolicyHolds
                            [] v = "process"  -> ProcessHolds
                            [] v = "code"     -> CodeHolds
                            [] v = "mappings" -> MappingsHolds
                            [] v = "cgroup"   -> CgroupHolds
                            [] v = "filters"  -> FiltersHolds]

Resources == UNION {Holds[v] : v \in Views}

ViewOf(r) == CHOOSE v \in Views : r \in Holds[v]

\* The views whose descriptors a view uses without owning them.
Borrows == [v \in Views |-> CASE v = "roots"    -> {}
                              [] v = "mappings" -> {"roots", "process", "code"}
                              [] v = "cgroup"   -> {"roots", "process"}
                              [] v = "filters"  -> {"roots", "process", "cgroup"}
                              [] OTHER          -> {"roots"}]

-----------------------------------------------------------------------------
(* Programs.  An operation is a record; a program is a sequence of them.   *)

Op(name, arg) == <<[op |-> name, arg |-> arg]>>

Own(v)   == Op("own", v)     \* allocate and register the view
Begin(v) == Op("begin", v)   \* its constructor validated its arguments
Open(r)  == Op("open", r)    \* acquire a descriptor and its identity
Look(v)  == Op("look", v)    \* observe afresh and compare with what is retained
Epoch    == Op("epoch", "policy")  \* read the status page
Ready    == Op("ready", "policy")  \* epoch_ready: ticks sample from here on
Bind     == Op("bind", "files")    \* _ServerQualificationBinding.check
Join     == Op("join", "process")  \* _process_binding

Around(outer, body) == outer \o body \o outer

RootsCheck == Look("roots")

PolicyPhase(body) == Around(RootsCheck, body)
PolicyCheck       == PolicyPhase(Look("policy"))

ProcessPhase(body) == Around(RootsCheck, body)
ProcessCompare     == Look("process")
ProcessCheck       == ProcessPhase(ProcessCompare)

CodePhase(body) == Around(RootsCheck, body)
CodeObserve     == Look("code")
CodeCheck       == CodePhase(CodeObserve)
MatchMaps       == CodePhase(CodeObserve \o CodeObserve)

MappingsPhase(body) == ProcessPhase(Around(ProcessCompare, body))
MappingsSnapshot    == Look("mappings") \o MatchMaps
MappingsObserve     == CodeCheck \o MappingsSnapshot \o ProcessCompare \o MappingsSnapshot
MappingsCheck       == MappingsPhase(MappingsObserve)

CgroupPhase(body) == ProcessPhase(Around(ProcessCompare, body))
CgroupObserve     == Look("cgroup") \o ProcessCompare \o Look("cgroup")
CgroupCheck       == CgroupPhase(CgroupObserve)

FiltersPhase(body) == CgroupPhase(Around(CgroupObserve, body))
FiltersCheck       == FiltersPhase(Look("filters"))

RootsBuild    == Own("roots") \o Begin("roots") \o Open("roots") \o RootsCheck
PolicyBuild   == Own("policy") \o Begin("policy") \o
                 PolicyPhase(Open("policy") \o Look("policy"))
RetainEpoch   == PolicyPhase(Epoch \o Open("mapping") \o Epoch) \o Ready
ProcessBuild  == Own("process") \o Begin("process") \o
                 ProcessPhase(Open("pidfd") \o Open("process") \o ProcessCompare)
CodeBuild     == Own("code") \o Begin("code") \o CodePhase(Open("code") \o CodeObserve)
MappingsBuild == Own("mappings") \o Begin("mappings") \o
                 MappingsPhase(Open("mappings") \o MappingsObserve)
CgroupBuild   == Own("cgroup") \o Begin("cgroup") \o
                 CgroupPhase(Open("cgroup") \o CgroupObserve)
FiltersBuild  == Own("filters") \o Begin("filters") \o
                 FiltersPhase(Open("filters") \o Look("filters"))

\* Only the peer inspections join the process view to the socket's peer.
PeerJoin(r) == IF r = "SERVER" THEN <<>> ELSE Join

Observe(r) ==
    PolicyCheck \o RootsCheck \o PolicyCheck \o ProcessCheck \o PolicyCheck
    \o CodeCheck \o PolicyCheck \o MappingsCheck \o PolicyCheck
    \o CgroupCheck \o PolicyCheck \o FiltersCheck \o PolicyCheck
    \o RootsCheck \o PeerJoin(r)

Phase(body) == Around(Bind, body)

CheckProgram(r) == Phase(Observe(r))

BuildProgram(r) ==
    Phase(RootsBuild \o PolicyBuild \o RetainEpoch \o PolicyCheck
          \o ProcessBuild \o PeerJoin(r) \o PolicyCheck
          \o CodeBuild \o PolicyCheck
          \o MappingsBuild \o PolicyCheck
          \o CgroupBuild \o PolicyCheck
          \o FiltersBuild \o Observe(r))

\* The operations in which a reader does its own input and output.
Reads == {"open", "look", "epoch"}

Programs == [r \in Roles |-> [build |-> BuildProgram(r), check |-> CheckProgram(r)]]

-----------------------------------------------------------------------------
VARIABLES
    fact,      \* the world: a value per fact
    epoch,     \* sequence of the SELinux status page, 0 the pinned one
    alive,     \* the inspected peer process has not exited
    taken,     \* descriptors whose number now names another file
    drifts,    \* changes of the world so far
    role,      \* which inspection this is
    res,       \* state of each descriptor
    ident,     \* descriptors whose close identity is captured
    view,      \* state of each reader object
    bad,       \* readers whose cleanup_failure is set
    retained,  \* what each reader retains
    owned,     \* self.owned
    flags,     \* closed, failed, cleanup_failure and epoch_ready of the owner
    mode,      \* "run" inside a phase, "unwind" inside close, "idle"
    call,      \* the entry point being run: "build", "check", "close"
    pc,        \* next operation of the program
    at,        \* "tick" or "op"
    outcome,   \* how the last build or check ended
    report,    \* how the last close ended
    calls,     \* calls of check and close so far
    agreed,    \* history: views found equal to what is retained in this phase
    seen       \* history: the epoch at the last read of this phase

world == <<fact, epoch, alive, taken, drifts>>
readers == <<res, ident, view, bad, retained, owned, flags>>
control == <<mode, call, pc, at, outcome, report, calls>>
allvars == <<world, role, readers, control, agreed, seen>>

Program == Programs[role][call]

InspectionInit ==
    /\ fact \in {f \in [Facts -> Pinned] : f["files"] = 0 /\
                    \A v \in Views \ {"process"} : f[v] = 0}
    /\ epoch = 0 /\ alive = TRUE /\ taken = {} /\ drifts = 0
    /\ role \in Roles
    /\ res = [r \in Resources |-> "none"] /\ ident = {}
    /\ view = [v \in Views |-> "none"] /\ bad = {}
    /\ retained = [v \in Views |-> NoValue]
    /\ owned = <<>>
    /\ flags = [closed |-> FALSE, failed |-> FALSE, cleanup |-> FALSE, epochReady |-> FALSE]
    /\ mode = "run" /\ call = "build" /\ pc = 1 /\ at = "tick"
    /\ outcome = "none" /\ report = "none" /\ calls = 0
    /\ agreed = {} /\ seen = 0

-----------------------------------------------------------------------------
(* The world.                                                              *)

Change == ~flags.closed /\ drifts < MaxDrifts /\ drifts' = drifts + 1

\* Something the record pins, other than the policy, becomes different.
Drift ==
    /\ Change
    /\ \E f \in Facts \ {"policy"} : \E x \in Values \ {fact[f]} :
           fact' = [fact EXCEPT ![f] = x]
    /\ agreed' = agreed \cup {v \in Views : fact'[v] = retained[v]}
    /\ UNCHANGED <<epoch, alive, taken, role, readers, control, seen>>

\* A policy load or an enforcing change: the kernel advances the sequence.
Reload ==
    /\ Change
    /\ epoch' = epoch + 1
    /\ \E x \in Values : fact' = [fact EXCEPT !["policy"] = x]
    /\ agreed' = agreed \cup {v \in Views : fact'[v] = retained[v]}
    /\ UNCHANGED <<alive, taken, role, readers, control, seen>>

PeerExit ==
    /\ Change
    /\ role # "SERVER" /\ alive
    /\ alive' = FALSE
    /\ UNCHANGED <<fact, epoch, taken, role, readers, control, agreed, seen>>

\* Other code of this process closed a descriptor it does not own and the
\* number was reused.  Nothing else runs while a phase is running.
Take ==
    /\ Change
    /\ mode = "idle"
    /\ \E r \in Resources \ ({"mapping"} \cup taken) :
           res[r] = "open" /\ taken' = taken \cup {r}
    /\ UNCHANGED <<fact, epoch, alive, role, readers, control, agreed, seen>>

-----------------------------------------------------------------------------
(* One phase.                                                              *)

\* An exception leaves the phase: it marks the owner failed and closes it.
Fail ==
    /\ flags' = [flags EXCEPT !.failed = TRUE, !.closed = TRUE]
    /\ mode' = "unwind" /\ pc' = 1 /\ at' = "tick" /\ agreed' = {}
    /\ UNCHANGED <<call, outcome, report, calls>>

\* The tick of the owner: its files and, for a peer, the socket's process.
OwnerTick ==
    /\ fact["files"] = 0
    /\ role # "SERVER" => alive

\* As if the reader's tick did not sample the status page.
SampleWithoutEpoch ==
    flags.epochReady => /\ fact["roots"] = retained["roots"]
                        /\ {"roots", "policy"} \cap taken = {}

\* What a reader's tick samples once epoch_ready is set: mounts, epoch, mounts.
Sample ==
    flags.epochReady => /\ fact["roots"] = retained["roots"]
                        /\ epoch = 0
                        /\ {"roots", "policy"} \cap taken = {}

\* The next operation is a read, or the last one was: a reader ticks too.
Reading ==
    \/ pc <= Len(Program) /\ Program[pc].op \in Reads
    \/ pc > 1 /\ Program[pc - 1].op \in Reads

TickOK == OwnerTick /\ (Reading => Sample)

Pass ==
    /\ mode' = "idle" /\ outcome' = "passed"
    /\ UNCHANGED <<call, pc, at, report, calls, flags, agreed>>

Tick ==
    /\ mode = "run" /\ at = "tick"
    /\ \/ /\ TickOK /\ pc <= Len(Program)
          /\ at' = "op"
          /\ UNCHANGED <<mode, call, pc, outcome, report, calls, flags, agreed>>
       \/ TickOK /\ pc > Len(Program) /\ Pass
       \/ ~TickOK /\ Fail
    /\ UNCHANGED <<world, role, res, ident, view, bad, retained, owned, seen>>

AtOp(name) == mode = "run" /\ at = "op" /\ Program[pc].op = name

Arg == Program[pc].arg

Advance ==
    /\ pc' = pc + 1 /\ at' = "tick"
    /\ UNCHANGED <<mode, call, outcome, report, calls>>

OwnView ==
    /\ AtOp("own")
    /\ view' = [view EXCEPT ![Arg] = "raw"]
    /\ owned' = Append(owned, Arg)
    /\ Advance
    /\ UNCHANGED <<world, role, res, ident, bad, retained, flags, agreed, seen>>

BeginView ==
    /\ AtOp("begin")
    /\ view' = [view EXCEPT ![Arg] = "live"]
    /\ Advance
    /\ UNCHANGED <<world, role, res, ident, bad, retained, owned, flags, agreed, seen>>

OpenRow ==
    /\ AtOp("open")
    /\ seen' = epoch
    /\ res' = [res EXCEPT ![Arg] = "open"]
    /\ ident' = ident \cup {Arg}
    /\ IF Arg \in Views
       THEN retained' = [retained EXCEPT ![Arg] = fact[Arg]]
       ELSE UNCHANGED retained
    /\ IF Arg \in Views /\ fact[Arg] \notin Pinned
       THEN Fail
       ELSE /\ agreed' = agreed \cup ({Arg} \cap Views)
            /\ Advance
            /\ UNCHANGED flags
    /\ UNCHANGED <<world, role, view, bad, owned>>

\* The open succeeded, reading the identity did not.
OpenHalf ==
    /\ AtOp("open")
    /\ seen' = epoch
    /\ res' = [res EXCEPT ![Arg] = "open"]
    /\ Fail
    /\ UNCHANGED <<world, role, ident, view, bad, retained, owned>>

Same(v) ==
    /\ fact[v] = retained[v] /\ Holds[v] \cap taken = {}
    /\ v = "policy" => epoch = 0

LookAgain ==
    /\ AtOp("look")
    /\ seen' = epoch
    /\ IF Same(Arg) THEN Advance /\ UNCHANGED <<flags, agreed>> ELSE Fail
    /\ UNCHANGED <<world, role, res, ident, view, bad, retained, owned>>

\* A temporary descriptor of the comparison could not be closed for certain.
LookLeaks ==
    /\ AtOp("look") /\ Arg # "filters" /\ Cardinality(bad) < MaxBad
    /\ seen' = epoch
    /\ bad' = bad \cup {Arg}
    /\ Fail
    /\ UNCHANGED <<world, role, res, ident, view, retained, owned>>

ReadEpoch ==
    /\ AtOp("epoch")
    /\ seen' = epoch
    /\ IF epoch = 0 THEN Advance /\ UNCHANGED <<flags, agreed>> ELSE Fail
    /\ UNCHANGED <<world, role, res, ident, view, bad, retained, owned>>

EpochReady ==
    /\ AtOp("ready")
    /\ flags' = [flags EXCEPT !.epochReady = TRUE]
    /\ Advance
    /\ UNCHANGED <<world, role, res, ident, view, bad, retained, owned, agreed, seen>>

BindingCheck ==
    /\ AtOp("bind")
    /\ IF fact["files"] = 0 THEN Advance /\ UNCHANGED <<flags, agreed>> ELSE Fail
    /\ UNCHANGED <<world, role, res, ident, view, bad, retained, owned, seen>>

\* The peer was pinned when the socket connected: fact 0.
JoinPeer ==
    /\ AtOp("join")
    /\ IF retained["process"] = 0 THEN Advance /\ UNCHANGED <<flags, agreed>> ELSE Fail
    /\ UNCHANGED <<world, role, res, ident, view, bad, retained, owned, seen>>

\* A system call fails, a clock goes backwards, a deadline passes.
CallFails ==
    /\ mode = "run"
    /\ Fail
    /\ UNCHANGED <<world, role, res, ident, view, bad, retained, owned, seen>>

-----------------------------------------------------------------------------
(* Closing.                                                                *)

\* What os.close may do to a descriptor that is still ours.
Closing == {"closed"} \cup (IF Cardinality(bad) < MaxBad THEN {"uncertain"} ELSE {})

\* Not retried: an error may already have released the descriptor.
CloseOutcomes(r) ==
    IF r \in taken THEN IF r \in ident THEN {"uncertain"} ELSE {"foreign"}
                   ELSE Closing

\* As if the owned views were closed in the order they were acquired.
FirstOwned == <<Head(owned), Tail(owned)>>

\* while self.owned: name, resource = self.owned.pop()
PopOwned == <<Last(owned), Front(owned)>>

\* A reader that failed in its own constructor has closed itself; the owner's
\* call then only repeats its cleanup failure, so one action stands for both.
\* A reader that never got past its arguments ("raw") holds nothing.
CloseView ==
    /\ mode = "unwind" /\ owned # <<>>
    /\ LET v    == PopOwned[1]
           open == {r \in Holds[v] : res[r] = "open"}
       IN /\ owned' = PopOwned[2]
          /\ \E end \in [open -> {"closed", "uncertain", "foreign"}] :
                /\ \A r \in open : end[r] \in CloseOutcomes(r)
                /\ IF view[v] = "live"
                   THEN /\ res' = [r \in Resources |-> IF r \in open THEN end[r] ELSE res[r]]
                        /\ view' = [view EXCEPT ![v] = "closed"]
                        /\ bad' = IF \E r \in open : end[r] = "uncertain"
                                  THEN bad \cup {v} ELSE bad
                        /\ flags' = [flags EXCEPT !.cleanup = @ \/ v \in bad']
                   ELSE UNCHANGED <<res, view, bad, flags>>
    /\ UNCHANGED <<world, role, ident, retained, control, agreed, seen>>

\* As if close() did not repeat an earlier cleanup failure.
CloseOnceOnly == report' = IF flags.cleanup /\ call = "close" THEN "raised" ELSE "clean"

\* close() raises the first cleanup failure, the second time too.
CloseReport == report' = IF flags.cleanup THEN "raised" ELSE "clean"

\* Inside build or check the exception that was already raised wins.
Unwound ==
    /\ mode = "unwind" /\ owned = <<>>
    /\ mode' = "idle"
    /\ IF call = "close" THEN CloseReport /\ UNCHANGED outcome
                         ELSE outcome' = "refused" /\ UNCHANGED report
    /\ UNCHANGED <<world, role, readers, call, pc, at, calls, agreed, seen>>

Call == mode = "idle" /\ calls < MaxCalls /\ calls' = calls + 1

Check ==
    /\ Call
    /\ \/ /\ ~flags.closed /\ ~flags.failed
          /\ mode' = "run" /\ call' = "check" /\ pc' = 1 /\ at' = "tick"
          /\ agreed' = {v \in Views : fact[v] = retained[v]} /\ seen' = 0
          /\ UNCHANGED outcome
       \/ /\ flags.closed \/ flags.failed
          /\ outcome' = "refused"
          /\ UNCHANGED <<mode, call, pc, at, agreed, seen>>
    /\ UNCHANGED <<world, role, readers, report>>

Close ==
    /\ Call
    /\ \/ /\ ~flags.closed
          /\ flags' = [flags EXCEPT !.closed = TRUE]
          /\ mode' = "unwind" /\ call' = "close"
          /\ UNCHANGED report
       \/ flags.closed /\ CloseReport /\ UNCHANGED <<flags, mode, call>>
    /\ UNCHANGED <<world, role, res, ident, view, bad, retained, owned, pc, at, outcome, agreed, seen>>

Done == mode = "idle" /\ calls = MaxCalls /\ UNCHANGED allvars

InspectionNext ==
    \/ Drift \/ Reload \/ PeerExit \/ Take
    \/ Tick \/ OwnView \/ BeginView \/ OpenRow \/ OpenHalf \/ LookAgain \/ LookLeaks
    \/ ReadEpoch \/ EpochReady \/ BindingCheck \/ JoinPeer \/ CallFails
    \/ CloseView \/ Unwound \/ Check \/ Close \/ Done

InspectionSpec == InspectionInit /\ [][InspectionNext]_allvars

-----------------------------------------------------------------------------
(* Properties.                                                             *)

\* A build or check that returns normally saw every one of the seven views
\* equal to what it retains at some moment of that call (a lasting change is
\* never missed, whichever operation it falls between), made its last read
\* while the SELinux policy was still the pinned epoch, which only moves
\* forward, so that everything it read was read under that policy (a reload
\* after the last read is not seen: only the owner ticks from there on), with
\* the files of the server, every descriptor and, for a peer, the very process
\* of the socket still in place; and no earlier call was refused, even if the
\* world has returned to what it was.
PassMeansHeld ==
    [][(mode = "run" /\ outcome' = "passed" /\ mode' = "idle") =>
            /\ agreed = Views
            /\ seen = 0 /\ fact["files"] = 0 /\ taken = {}
            /\ role # "SERVER" => alive /\ retained["process"] = 0
            /\ outcome # "refused"]_allvars

\* A reader's descriptors are closed only when no reader that borrows them
\* still has its own open, and never through a number that has come to name a
\* file of somebody else.
BorrowersFirst ==
    [][\A r \in Resources : (res[r] = "open" /\ res'[r] # "open") =>
          /\ res'[r] # "foreign"
          /\ \A w \in Views : ViewOf(r) \in Borrows[w] =>
              \A q \in Holds[w] : res'[q] # "open"]_allvars

\* Whatever was interrupted where, once the owner is closed no descriptor it
\* or its readers acquired is left open, half-built readers included, and
\* close() never returns normally when the fate of a descriptor is unknown:
\* not when the uncertain close happened inside an earlier refused call, whose
\* own exception hid it, and not the second time it is called.
CloseIsHonest ==
    /\ flags.closed /\ mode = "idle" => \A r \in Resources : res[r] # "open"
    /\ report = "clean" => bad = {} /\ \A r \in Resources : res[r] # "uncertain"
=============================================================================
