---------------------------- MODULE ChildStartup ----------------------------
(***************************************************************************)
(* How the supervisor starts, checks and ends the confined process tree:   *)
(* _NativeChannel of live_supervisor.py with CgroupLease, protect_parent   *)
(* and validate_peer of live_linux_boundary.py.  Three processes run side  *)
(* by side: the supervisor, the forked child, which sets the namespaces    *)
(* up, and the init of its PID namespace, which holds the channel.  Each   *)
(* may die at any point, by itself, by the out-of-memory killer or by a    *)
(* kill of the cgroup leaf.                                                *)
(*                                                                         *)
(* The kernel appears by what the code relies on: a death signal armed by  *)
(* prctl is sent when the parent dies and is disarmed by a change of user  *)
(* identity; a fork inherits the cgroup; the subreaper adopts orphans; a   *)
(* number of a reaped process may be given to another.                     *)
(***************************************************************************)
EXTENDS Sequences, FiniteSets

VARIABLES
  pc,        \* where each process is
  armed,     \* processes whose parent-death signal is set
  doomed,    \* processes with SIGKILL pending
  leaf,      \* processes in the leased cgroup leaf
  lease,     \* CgroupLease: "unowned", "owned", "closed"
  gate,      \* the pipe: "open", "G" (written), "shut" (end of file)
  toSup,     \* datagrams from the tree, with the sender's credentials
  toTree,    \* datagrams to the tree
  ends,      \* who holds the tree's end of the channel
  supEnd,    \* the supervisor holds its end
  confined,  \* init has its read-only root, no privileges and seccomp
  peer,      \* what the pidfd stands for: "none", "init", "other"
  orphanless,\* no_children of the reaping loop
  cancelled,
  expired    \* the absolute deadline has passed

channel == <<toSup, toTree, ends, supEnd>>
kernel == <<armed, doomed, leaf>>
verdict == <<peer, orphanless, cancelled>>
vars == <<pc, kernel, lease, gate, channel, confined, verdict, expired>>

Tree == {"child", "init"}

Alive(p) == pc[p] \notin {"none", "zombie", "gone", "dead"}
Up == Alive("supervisor")

\* Orphans are adopted by the subreaper, or by the host's init.
Parent(p) == IF p = "init" /\ Alive("child") THEN "child"
             ELSE IF p \in Tree /\ Up THEN "supervisor"
             ELSE "host"

Init ==
  /\ pc = [supervisor |-> "fork", child |-> "none", init |-> "none"]
  /\ armed = {} /\ doomed = {} /\ leaf = {}
  /\ lease = "unowned"
  /\ gate = "open"
  /\ toSup = <<>> /\ toTree = <<>>
  /\ ends = {} /\ supEnd = TRUE
  /\ confined = FALSE
  /\ peer = "none"
  /\ orphanless = FALSE /\ cancelled = FALSE /\ expired = FALSE

Goto(p, from, to) == pc[p] = from /\ pc' = [pc EXCEPT ![p] = to]

(* A process of the tree ends: its descriptors go, it leaves the leaf, and   *)
(* an armed child of it is killed.                                           *)
Exit(p) ==
  /\ pc' = [pc EXCEPT ![p] = "zombie"]
  /\ ends' = ends \ {p}
  /\ leaf' = leaf \ {p}
  /\ doomed' = (doomed \ {p})
               \cup (IF p = "child" /\ Alive("init") THEN armed \cap {"init"} ELSE {})
  /\ UNCHANGED <<armed, lease, gate, toSup, toTree, supEnd, confined, verdict, expired>>

-----------------------------------------------------------------------------
(* The supervisor: establish *)

\* socketpair, pipe, subreaper and fork; a failure closes what was opened.
Fork ==
  /\ \/ /\ pc["supervisor"] = "fork"
        /\ pc' = [pc EXCEPT !["supervisor"] = "attach", !["child"] = "protect"]
        /\ ends' = {"child"}
     \/ Goto("supervisor", "fork", "cleanup") /\ UNCHANGED ends
  /\ UNCHANGED <<kernel, lease, gate, toSup, toTree, supEnd, confined, verdict, expired>>

\* Mutant of Attach: a write that raised is taken for a late success.
AttachOptimistic ==
  /\ Goto("supervisor", "attach", "gate")
  /\ lease' = "owned"
  /\ leaf' \in {leaf, leaf \cup ({"child"} \cap {p \in Tree : Alive(p)})}
  /\ UNCHANGED <<gate, armed, doomed, channel, confined, verdict, expired>>

\* Mutant of Attach: the gate is left open when the write raises.
AttachKeepsGate ==
  /\ lease' = "owned"
  /\ \/ /\ Alive("child")
        /\ Goto("supervisor", "attach", "gate")
        /\ leaf' = leaf \cup {"child"}
     \/ /\ Goto("supervisor", "attach", "cleanup")
        /\ leaf' \in {leaf, leaf \cup ({"child"} \cap {p \in Tree : Alive(p)})}
  /\ UNCHANGED <<gate, armed, doomed, channel, confined, verdict, expired>>

\* lease.attach: owned before the write, whose outcome may be unknown.  When
\* it raises the gate is closed unwritten.
Attach ==
  /\ lease' = "owned"
  /\ \/ /\ Alive("child")
        /\ Goto("supervisor", "attach", "gate")
        /\ leaf' = leaf \cup {"child"}
        /\ UNCHANGED gate
     \/ /\ Goto("supervisor", "attach", "cleanup")
        /\ leaf' \in {leaf, leaf \cup ({"child"} \cap {p \in Tree : Alive(p)})}
        /\ gate' = "shut"
  /\ UNCHANGED <<armed, doomed, channel, confined, verdict, expired>>

\* The child may go on; a pipe without a reader raises.
OpenGate ==
  /\ \/ Alive("child") /\ Goto("supervisor", "gate", "mapwait") /\ gate' = "G"
     \/ Goto("supervisor", "gate", "cleanup") /\ gate' = "shut"
  /\ UNCHANGED <<kernel, lease, channel, confined, verdict, expired>>

\* _receive: a datagram of the expected sender, before the deadline.
Receive(from, to, msg, sender) ==
  /\ ~cancelled
  /\ toSup # <<>>
  /\ Head(toSup) = <<msg, sender>>
  /\ Goto("supervisor", from, to)
  /\ toSup' = Tail(toSup)
  /\ UNCHANGED <<kernel, lease, gate, toTree, ends, supEnd, confined, verdict, expired>>

\* ... or end of file, the deadline, an interrupt.
ReceiveFails(from) ==
  /\ expired \/ cancelled \/ (toSup = <<>> /\ ends = {})
  /\ Goto("supervisor", from, "cleanup")
  /\ UNCHANGED <<kernel, lease, gate, channel, confined, verdict, expired>>

ReceiveMap == Receive("mapwait", "map", "MAP", "child") \/ ReceiveFails("mapwait")

\* setgroups, uid_map and gid_map of the gated child, then the second gate.
WriteMaps ==
  /\ \/ /\ Alive("child")
        /\ Goto("supervisor", "map", "readywait")
        /\ toTree' = Append(toTree, "M")
     \/ Goto("supervisor", "map", "cleanup") /\ UNCHANGED toTree
  /\ UNCHANGED <<kernel, lease, gate, toSup, ends, supEnd, confined, verdict, expired>>

ReceiveReady == Receive("readywait", "pidfd", "READY", "init") \/ ReceiveFails("readywait")

\* pidfd_open of the number in the credentials: by now that process may have
\* been reaped and the number given away.
OpenPidfd ==
  /\ \/ /\ Goto("supervisor", "pidfd", "identify")
        /\ peer' = IF pc["init"] = "gone" THEN "other" ELSE "init"
     \/ Goto("supervisor", "pidfd", "cleanup") /\ UNCHANGED peer
  /\ UNCHANGED <<kernel, lease, gate, channel, confined, orphanless, cancelled, expired>>

\* process_identity: the parent must be the forked child.
Identify ==
  /\ \/ /\ peer = "init" /\ pc["init"] # "gone" /\ Parent("init") = "child"
        /\ Goto("supervisor", "identify", "check")
     \/ Goto("supervisor", "identify", "cleanup")
  /\ UNCHANGED <<kernel, lease, gate, channel, confined, verdict, expired>>

\* check_peer: the pidfd is quiet and the identity is the accepted one, with
\* its parent, its leaf, its privileges and its namespaces.
PeerOK ==
  /\ ~cancelled /\ ~expired
  /\ peer = "init" /\ Alive("init")
  /\ Parent("init") = "child"
  /\ "init" \in leaf
  /\ confined

CheckPeer(from) ==
  /\ \/ PeerOK /\ Goto("supervisor", from, "established")
     \/ ~PeerOK /\ Goto("supervisor", from, "cleanup")
  /\ UNCHANGED <<kernel, lease, gate, channel, confined, verdict, expired>>

-----------------------------------------------------------------------------
(* The supervisor: execute, interrupt, cleanup *)

\* execute: one byte to the custodian before a case is run ...
Request ==
  /\ PeerOK
  /\ Goto("supervisor", "established", "echo")
  /\ toTree' = Append(toTree, "P")
  /\ UNCHANGED <<kernel, lease, gate, toSup, ends, supEnd, confined, verdict, expired>>

\* ... and its echo, after which the peer is checked again.
ReceiveEcho == Receive("echo", "recheck", "P", "init") \/ ReceiveFails("echo")

\* interrupt, from any thread once a handle is out; the write may raise.  (In
\* the middle of a cleanup it would repeat what KillLeaf has done.)
Interrupt ==
  /\ pc["supervisor"] \in {"established", "echo", "recheck"}
  /\ cancelled' = TRUE
  /\ doomed' \in {doomed, IF lease = "owned" THEN doomed \cup leaf ELSE doomed}
  /\ UNCHANGED <<pc, armed, leaf, lease, gate, channel, confined, peer, orphanless, expired>>

\* The session ends, for any reason.
EndSession ==
  /\ Goto("supervisor", "established", "cleanup")
  /\ UNCHANGED <<kernel, lease, gate, channel, confined, verdict, expired>>

\* The channel and the pidfd are closed whatever the reaping did.
CleanedUp(from, to) ==
  /\ Goto("supervisor", from, to)
  /\ supEnd' = FALSE
  /\ peer' = "none"
  /\ UNCHANGED <<toSup, toTree, ends>>

\* cleanup: cgroup.kill on an owned leaf, else there is nothing to reap.
KillLeaf ==
  /\ cancelled' = TRUE
  /\ \/ /\ lease = "owned"
        /\ Goto("supervisor", "cleanup", "reap")
        /\ doomed' = doomed \cup leaf
        /\ UNCHANGED <<peer, channel>>
     \/ /\ lease = "owned"
        /\ CleanedUp("cleanup", "unproven")
        /\ UNCHANGED doomed
     \/ /\ lease # "owned"
        /\ CleanedUp("cleanup", "quiet")
        /\ UNCHANGED doomed
  /\ UNCHANGED <<armed, leaf, lease, gate, confined, orphanless, expired>>

\* waitpid(-1, WNOHANG) until there is no child or none that has ended.
Drain ==
  /\ pc["supervisor"] = "reap"
  /\ LET mine == {p \in Tree : Parent(p) = "supervisor" /\ pc[p] \notin {"none", "gone"}}
         left == {p \in mine : pc[p] # "zombie"}
     IN  /\ orphanless' = (left = {})
         /\ pc' = [p \in DOMAIN pc |-> IF p = "supervisor" THEN "events"
                                       ELSE IF p \in mine \ left THEN "gone" ELSE pc[p]]
  /\ UNCHANGED <<kernel, lease, gate, channel, confined, peer, cancelled, expired>>

\* Mutant of Events: an empty leaf is enough.
EventsOnly ==
  /\ \/ /\ leaf = {}
        /\ lease' = "closed"
        /\ CleanedUp("events", "quiet")
     \/ /\ Goto("supervisor", "events", "reap")
        /\ UNCHANGED <<lease, peer, channel>>
     \/ /\ CleanedUp("events", "unproven")
        /\ UNCHANGED lease
  /\ UNCHANGED <<kernel, gate, confined, orphanless, cancelled, expired>>

\* cgroup.events: "populated 0" and no children end the loop, 10 s end it too.
Events ==
  /\ \/ /\ leaf = {} /\ orphanless
        /\ lease' = "closed"
        /\ CleanedUp("events", "quiet")
     \/ /\ leaf # {} \/ ~orphanless
        /\ \/ Goto("supervisor", "events", "reap") /\ UNCHANGED <<lease, peer, channel>>
           \/ CleanedUp("events", "unproven") /\ UNCHANGED lease
  /\ UNCHANGED <<kernel, gate, confined, orphanless, cancelled, expired>>

-----------------------------------------------------------------------------
(* The child *)

\* protect_parent, first half: the death signal.
Protect(from, to) ==
  /\ Goto("child", from, to)
  /\ armed' = armed \cup {"child"}
  /\ UNCHANGED <<doomed, leaf, lease, gate, channel, confined, verdict, expired>>

\* ... second half: a parent that died before it was armed is noticed.
ProtectChecked(from, to) ==
  \/ /\ Parent("child") = "supervisor"
     /\ Goto("child", from, to)
     /\ UNCHANGED <<kernel, lease, gate, channel, confined, verdict, expired>>
  \/ /\ pc["child"] = from
     /\ Parent("child") # "supervisor"
     /\ Exit("child")

ReadGate ==
  /\ pc["child"] = "gate"
  /\ \/ /\ gate = "G"
        /\ Goto("child", "gate", "unshare")
        /\ UNCHANGED <<kernel, lease, gate, channel, confined, verdict, expired>>
     \/ gate = "shut" /\ Exit("child")

\* New namespaces, then MAP; either may fail.
Unshare ==
  \/ /\ supEnd
     /\ Goto("child", "unshare", "mapwait")
     /\ toSup' = Append(toSup, <<"MAP", "child">>)
     /\ UNCHANGED <<kernel, lease, gate, toTree, ends, supEnd, confined, verdict, expired>>
  \/ pc["child"] = "unshare" /\ Exit("child")

AwaitMap ==
  /\ pc["child"] = "mapwait"
  /\ \/ /\ toTree # <<>>
        /\ Goto("child", "mapwait", "identity")
        /\ toTree' = Tail(toTree)
        /\ UNCHANGED <<kernel, lease, gate, toSup, ends, supEnd, confined, verdict, expired>>
     \/ toTree = <<>> /\ ~supEnd /\ Exit("child")

\* setresgid and setresuid: the kernel disarms the death signal.
TakeIdentity ==
  /\ Goto("child", "identity", "reprotect")
  /\ armed' = armed \ {"child"}
  /\ UNCHANGED <<doomed, leaf, lease, gate, channel, confined, verdict, expired>>

\* pidfd_open(self) and the second fork; the end of the channel is init's now.
ForkInit ==
  \/ /\ pc["child"] = "forkinit"
     /\ pc' = [pc EXCEPT !["child"] = "wait", !["init"] = "arm"]
     /\ leaf' = IF "child" \in leaf THEN leaf \cup {"init"} ELSE leaf
     /\ ends' = {"init"}
     /\ UNCHANGED <<armed, doomed, lease, gate, toSup, toTree, supEnd, confined, verdict, expired>>
  \/ pc["child"] = "forkinit" /\ Exit("child")

\* waitpid(init) and exit.
WaitInit ==
  /\ pc["child"] = "wait"
  /\ pc["init"] = "zombie"
  /\ pc' = [pc EXCEPT !["child"] = "zombie", !["init"] = "gone"]
  /\ leaf' = leaf \ {"child"}
  /\ doomed' = doomed \ {"child"}
  /\ UNCHANGED <<armed, lease, gate, channel, confined, verdict, expired>>

-----------------------------------------------------------------------------
(* The init of the new PID namespace *)

ArmInit ==
  /\ Goto("init", "arm", "parent")
  /\ armed' = armed \cup {"init"}
  /\ UNCHANGED <<doomed, leaf, lease, gate, channel, confined, verdict, expired>>

\* Mutant of CheckParent: getppid is of no use across PID namespaces, and the
\* pidfd is not asked either.
CheckNothing ==
  /\ Goto("init", "parent", "confine")
  /\ UNCHANGED <<kernel, lease, gate, channel, confined, verdict, expired>>

\* The retained pidfd: a parent that died before the prctl is noticed.
CheckParent ==
  \/ /\ Alive("child")
     /\ Goto("init", "parent", "confine")
     /\ UNCHANGED <<kernel, lease, gate, channel, confined, verdict, expired>>
  \/ /\ pc["init"] = "parent"
     /\ ~Alive("child")
     /\ Exit("init")

\* Read-only root, only the channel left open, privileges dropped, seccomp.
Confine ==
  \/ /\ Goto("init", "confine", "ready")
     /\ confined' = TRUE
     /\ UNCHANGED <<kernel, lease, gate, channel, verdict, expired>>
  \/ pc["init"] = "confine" /\ Exit("init")

SendReady ==
  \/ /\ supEnd
     /\ Goto("init", "ready", "serve")
     /\ toSup' = Append(toSup, <<"READY", "init">>)
     /\ UNCHANGED <<kernel, lease, gate, toTree, ends, supEnd, confined, verdict, expired>>
  \/ pc["init"] = "ready" /\ ~supEnd /\ Exit("init")

\* The custodian answers until end of file or the deadline.
Serve ==
  /\ pc["init"] = "serve"
  /\ \/ /\ toTree # <<>> /\ supEnd /\ ~expired
        /\ toTree' = Tail(toTree)
        /\ toSup' = Append(toSup, <<"P", "init">>)
        /\ UNCHANGED <<pc, kernel, lease, gate, ends, supEnd, confined, verdict, expired>>
     \/ (expired \/ ~supEnd) /\ Exit("init")

-----------------------------------------------------------------------------
(* The host *)

\* The supervisor dies or is killed: its descriptors go with it.
SupervisorDies ==
  /\ Up
  /\ pc' = [pc EXCEPT !["supervisor"] = "dead"]
  /\ supEnd' = FALSE
  /\ gate' = IF gate = "open" THEN "shut" ELSE gate
  /\ doomed' = doomed \cup {p \in armed : Alive(p) /\ Parent(p) = "supervisor"}
  /\ UNCHANGED <<armed, leaf, lease, toSup, toTree, ends, confined, verdict, expired>>

\* A limit of the leaf is exceeded.
OutOfMemory(p) ==
  /\ Alive(p)
  /\ p \in leaf
  /\ doomed' = doomed \cup {p}
  /\ UNCHANGED <<pc, armed, leaf, lease, gate, channel, confined, verdict, expired>>

Killed(p) == Alive(p) /\ p \in doomed /\ Exit(p)

HostReaps(p) ==
  /\ pc[p] = "zombie" /\ Parent(p) = "host"
  /\ pc' = [pc EXCEPT ![p] = "gone"]
  /\ UNCHANGED <<kernel, lease, gate, channel, confined, verdict, expired>>

Expire ==
  /\ ~expired
  /\ expired' = TRUE
  /\ UNCHANGED <<pc, kernel, lease, gate, channel, confined, verdict>>

Establish ==
  \/ Fork \/ Attach \/ OpenGate \/ ReceiveMap \/ WriteMaps \/ ReceiveReady
  \/ OpenPidfd \/ Identify \/ CheckPeer("check")

Cleanup == KillLeaf \/ Drain \/ Events

ChildStep ==
  \/ Protect("protect", "checkparent") \/ ProtectChecked("checkparent", "gate")
  \/ ReadGate \/ Unshare \/ AwaitMap \/ TakeIdentity
  \/ Protect("reprotect", "recheck") \/ ProtectChecked("recheck", "forkinit")
  \/ ForkInit \/ WaitInit

InitStep == ArmInit \/ CheckParent \/ Confine \/ SendReady \/ Serve

Next ==
  \/ Establish \/ Request \/ ReceiveEcho \/ CheckPeer("recheck") \/ EndSession \/ Interrupt \/ Cleanup
  \/ ChildStep \/ InitStep
  \/ SupervisorDies \/ Expire
  \/ \E p \in Tree : OutOfMemory(p) \/ Killed(p) \/ HostReaps(p)

Spec == Init /\ [][Next]_vars

\* The scheduler runs the processes of the tree and the kernel delivers
\* SIGKILL.  Nothing is assumed of the supervisor, nor that time passes.
Fairness ==
  /\ WF_vars(ChildStep)
  /\ WF_vars(InitStep)
  /\ \A p \in Tree : WF_vars(Killed(p))

FairSpec == Spec /\ Fairness

-----------------------------------------------------------------------------
\* Whatever has gone through the gate can be killed by its leaf: a child past
\* the gate and every init are members of the leased cgroup, also when the
\* attachment was ambiguous or somebody died on the way.
NothingOutsideLeaf ==
  /\ Alive("child") /\ pc["child"] \notin {"protect", "checkparent", "gate"} => "child" \in leaf
  /\ Alive("init") => "init" \in leaf

\* A cleanup that returns leaves no process of the tree, running or unreaped,
\* wherever establish was interrupted and even if the child was never moved
\* into the leaf.
QuietMeansEmpty ==
  pc["supervisor"] = "quiet" => \A p \in Tree : pc[p] \in {"none", "gone"}

\* No process of the tree outlives its parent, in any order of their deaths,
\* prctl calls and checks, and without waiting for the deadline.
OrphansDie ==
  /\ pc["supervisor"] = "dead" ~> ~Alive("child")
  /\ pc["child"] \in {"zombie", "gone"} ~> ~Alive("init")

\* Killing the leaf ends the whole tree, and so the wait of kill_and_reap: also
\* a child that the failed attachment left outside, and an init forked while
\* the kill went out.
KillEndsTree ==
  pc["supervisor"] = "reap" ~> \A p \in Tree : ~Alive(p)
=============================================================================
