------------------------- MODULE ChildStartupProofs -------------------------
(***************************************************************************)
(* Theorems about ChildStartup, over every order in which the supervisor,  *)
(* the child and init of the confined tree step, die and are reaped.  The  *)
(* channel, the clock and the pidfd play no part in them.                  *)
(***************************************************************************)
EXTENDS ChildStartup, TLAPS

-----------------------------------------------------------------------------
(* The inductive invariant. *)

Processes == {"supervisor", "child", "init"}

SupervisorPos ==
  {"fork", "attach", "gate", "mapwait", "map", "readywait", "pidfd", "identify", "check",
   "established", "echo", "recheck", "cleanup", "reap", "events", "quiet", "unproven", "dead"}
ChildPos ==
  {"none", "protect", "checkparent", "gate", "unshare", "mapwait", "identity", "reprotect",
   "recheck", "forkinit", "wait", "zombie", "gone"}
InitPos == {"none", "arm", "parent", "confine", "ready", "serve", "zombie", "gone"}

Positions == SupervisorPos \cup ChildPos \cup InitPos

TypeOK ==
  /\ pc \in [Processes -> Positions]
  /\ pc["supervisor"] \in SupervisorPos
  /\ pc["child"] \in ChildPos
  /\ pc["init"] \in InitPos
  /\ leaf \in SUBSET Tree
  /\ lease \in {"unowned", "owned", "closed"}
  /\ gate \in {"open", "G", "shut"}

\* Why a kill of the leaf reaches everybody: the gate is only opened for a child
\* that is in the leaf.
LeafInv ==
  /\ NothingOutsideLeaf
  /\ gate = "G" \/ pc["supervisor"] = "gate" => (Alive("child") => "child" \in leaf)
  /\ pc["supervisor"] \in {"fork", "attach"} => gate = "open"

\* Who has ever been forked.
ForkInv ==
  /\ pc["supervisor"] = "fork" => pc["child"] = "none"
  /\ pc["init"] # "none" => pc["child"] \in {"wait", "zombie", "gone"}
  /\ lease = "unowned" => pc["supervisor"] \in {"fork", "attach", "cleanup", "quiet", "dead"}
  /\ lease = "unowned" /\ pc["supervisor"] = "cleanup" => pc["child"] = "none"
  /\ lease = "closed" => pc["supervisor"] \in {"quiet", "dead"}

\* Why the reaping loop may stop: without children there are no grandchildren,
\* for the subreaper adopts them.
ReapInv ==
  /\ QuietMeansEmpty
  /\ pc["supervisor"] = "events" /\ orphanless => \A p \in Tree : pc[p] \in {"none", "gone"}

IInv == TypeOK /\ LeafInv /\ ForkInv /\ ReapInv

-----------------------------------------------------------------------------
(* Steps that move one process. *)

USE DEF Processes, Positions, SupervisorPos, ChildPos, InitPos

\* The supervisor between the gate and the cleanup: its lease is owned, and it
\* opens the gate only at the gate.
LEMMA SupervisorMoves ==
    ASSUME IInv,
           NEW to \in SupervisorPos \ {"fork", "attach", "gate", "events", "quiet", "dead"},
           pc["supervisor"] \in SupervisorPos \ {"fork", "attach", "quiet", "dead"},
           pc' = [pc EXCEPT !["supervisor"] = to],
           UNCHANGED <<leaf, lease, orphanless>>,
           \/ gate' \in {gate, "shut"}
           \/ pc["supervisor"] = "gate" /\ gate' = "G",
           lease # "closed", lease # "unowned"
    PROVE  IInv'
  <1> USE DEF IInv
  <1>1. TypeOK'
    BY DEF TypeOK
  <1>2. LeafInv'
    BY DEF TypeOK, LeafInv, NothingOutsideLeaf, Alive
  <1>3. ForkInv' /\ ReapInv'
    BY DEF TypeOK, ForkInv, ReapInv, QuietMeansEmpty
  <1> QED
    BY <1>1, <1>2, <1>3

\* Past the attachment the lease is owned.
LEMMA LeaseOwned ==
    ASSUME IInv, pc["supervisor"] \notin {"fork", "attach", "cleanup", "quiet", "dead"}
    PROVE  lease = "owned"
  BY DEF IInv, TypeOK, ForkInv

\* A process of the tree ends, by itself or killed.
LEMMA ExitIInv ==
    ASSUME IInv, NEW p \in Tree, Alive(p), Exit(p)
    PROVE  IInv'
  <1> USE DEF IInv, Exit, verdict
  <1>1. pc' \in [Processes -> Positions]
    BY DEF TypeOK, Tree
  <1>2. TypeOK'
    BY <1>1 DEF TypeOK, Tree
  <1>3. LeafInv'
    BY DEF TypeOK, LeafInv, NothingOutsideLeaf, Alive, Tree
  <1>4. ForkInv' /\ ReapInv'
    BY DEF TypeOK, ForkInv, ReapInv, QuietMeansEmpty, Alive, Tree
  <1> QED
    BY <1>2, <1>3, <1>4

\* The child goes on: past the gate only as a member of the leaf.
LEMMA ChildMoves ==
    ASSUME IInv,
           NEW from \in ChildPos \ {"none", "wait", "zombie", "gone"},
           NEW to \in ChildPos \ {"none", "wait", "zombie", "gone"},
           Goto("child", from, to),
           to \in {"checkparent", "gate"} \/ "child" \in leaf,
           UNCHANGED <<leaf, lease, gate, orphanless>>
    PROVE  IInv'
  <1> USE DEF IInv, Goto
  <1>1. TypeOK'
    BY DEF TypeOK
  <1>2. LeafInv'
    BY DEF TypeOK, LeafInv, NothingOutsideLeaf, Alive
  <1>3. ForkInv' /\ ReapInv'
    BY DEF TypeOK, ForkInv, ReapInv, QuietMeansEmpty, Tree
  <1> QED
    BY <1>1, <1>2, <1>3

\* init goes on.
LEMMA InitMoves ==
    ASSUME IInv,
           NEW from \in InitPos \ {"none", "zombie", "gone"},
           NEW to \in InitPos \ {"none", "zombie", "gone"},
           Goto("init", from, to),
           UNCHANGED <<leaf, lease, gate, orphanless>>
    PROVE  IInv'
  <1> USE DEF IInv, Goto
  <1>1. TypeOK'
    BY DEF TypeOK
  <1>2. LeafInv'
    BY DEF TypeOK, LeafInv, NothingOutsideLeaf, Alive
  <1>3. ForkInv' /\ ReapInv'
    BY DEF TypeOK, ForkInv, ReapInv, QuietMeansEmpty, Tree
  <1> QED
    BY <1>1, <1>2, <1>3

-----------------------------------------------------------------------------
(* The steps of each process. *)

\* The processes have not been forked yet.
LEMMA InitIInv == Init => IInv
  BY DEF Init, IInv, TypeOK, LeafInv, ForkInv, ReapInv, NothingOutsideLeaf,
         QuietMeansEmpty, Alive, Tree

\* socketpair, fork and lease.attach: after an attachment that raised the gate is
\* shut, so the child is never let through.
LEMMA StartIInv == ASSUME IInv, Fork \/ Attach \/ OpenGate PROVE IInv'
  <1> USE DEF IInv, kernel, verdict, Goto
  <1>1. CASE Fork
    <2> USE <1>1 DEF Fork
    <2>1. TypeOK'
      <3>1. pc' \in [Processes -> Positions]
        BY DEF TypeOK
      <3>2. /\ pc'["supervisor"] \in SupervisorPos
            /\ pc'["child"] \in ChildPos /\ pc'["init"] \in InitPos
        BY DEF TypeOK
      <3> QED
        BY <3>1, <3>2 DEF TypeOK, Tree
    <2>2. LeafInv'
      BY DEF TypeOK, LeafInv, ForkInv, NothingOutsideLeaf, Alive, Tree
    <2>3. ForkInv' /\ ReapInv'
      BY DEF TypeOK, ForkInv, ReapInv, QuietMeansEmpty, Alive, Tree
    <2> QED
      BY <2>1, <2>2, <2>3
  <1>2. CASE Attach
    <2> USE <1>2 DEF Attach
    <2>1. TypeOK'
      <3>1. pc' \in [Processes -> Positions]
        BY DEF TypeOK
      <3>2. /\ pc'["supervisor"] \in SupervisorPos
            /\ pc'["child"] \in ChildPos /\ pc'["init"] \in InitPos
        BY DEF TypeOK
      <3> QED
        BY <3>1, <3>2 DEF TypeOK, Tree
    <2>2. LeafInv'
      BY DEF TypeOK, LeafInv, ForkInv, NothingOutsideLeaf, Alive, Tree
    <2>3. ForkInv' /\ ReapInv'
      BY DEF TypeOK, ForkInv, ReapInv, QuietMeansEmpty, Alive, Tree
    <2> QED
      BY <2>1, <2>2, <2>3
  <1>3. CASE OpenGate
    <2>1. lease = "owned"
      BY <1>3, LeaseOwned DEF OpenGate
    <2> QED
      BY <1>3, <2>1, SupervisorMoves DEF OpenGate
  <1> QED
    BY <1>1, <1>2, <1>3

\* The rest of establish, execute and interrupt: nothing about the tree changes.
LEMMA SessionIInv ==
    ASSUME IInv,
           \/ ReceiveMap \/ WriteMaps \/ ReceiveReady \/ OpenPidfd \/ Identify
           \/ CheckPeer("check") \/ Request \/ ReceiveEcho \/ CheckPeer("recheck")
           \/ EndSession
    PROVE  IInv'
  <1>1. \E to \in SupervisorPos \ {"fork", "attach", "gate", "events", "quiet", "dead"} :
          pc' = [pc EXCEPT !["supervisor"] = to]
    BY DEF ReceiveMap, WriteMaps, ReceiveReady, OpenPidfd, Identify, CheckPeer, Request,
           ReceiveEcho, EndSession, Receive, ReceiveFails, Goto
  <1>2. UNCHANGED <<leaf, lease, gate, orphanless>>
    BY DEF ReceiveMap, WriteMaps, ReceiveReady, OpenPidfd, Identify, CheckPeer, Request,
           ReceiveEcho, EndSession, Receive, ReceiveFails, kernel, verdict
  <1>3. pc["supervisor"] \in {"mapwait", "map", "readywait", "pidfd", "identify", "check",
                              "established", "echo", "recheck"}
    BY DEF ReceiveMap, WriteMaps, ReceiveReady, OpenPidfd, Identify, CheckPeer, Request,
           ReceiveEcho, EndSession, Receive, ReceiveFails, Goto
  <1>4. lease = "owned"
    BY <1>3, LeaseOwned
  <1> QED
    BY <1>1, <1>2, <1>3, <1>4, SupervisorMoves

\* kill_and_reap: the loop ends when waitpid finds no child at all, and then no
\* grandchild is left either.
LEMMA CleanupIInv == ASSUME IInv, Cleanup PROVE IInv'
  <1> USE DEF IInv, kernel, verdict, channel, Goto, CleanedUp
  <1>1. CASE KillLeaf
    <2> USE <1>1 DEF KillLeaf
    <2>1. TypeOK'
      <3>1. pc' \in [Processes -> Positions]
        BY DEF TypeOK
      <3>2. /\ pc'["supervisor"] \in SupervisorPos
            /\ pc'["child"] \in ChildPos /\ pc'["init"] \in InitPos
        BY DEF TypeOK
      <3> QED
        BY <3>1, <3>2 DEF TypeOK, Tree
    <2>2. LeafInv'
      BY DEF TypeOK, LeafInv, ForkInv, NothingOutsideLeaf, Alive, Tree
    <2>3. ForkInv' /\ ReapInv'
      BY DEF TypeOK, ForkInv, ReapInv, QuietMeansEmpty, Alive, Tree
    <2> QED
      BY <2>1, <2>2, <2>3
  <1>2. CASE Drain
    <2> USE <1>2 DEF Drain, Parent, Up
    <2>1. TypeOK'
      BY DEF TypeOK, Tree, Alive
    <2>2. LeafInv'
      BY DEF TypeOK, LeafInv, NothingOutsideLeaf, Alive, Tree
    <2>3. ForkInv'
      BY DEF TypeOK, ForkInv, Alive, Tree
    <2>4. ReapInv'
      BY DEF TypeOK, ForkInv, ReapInv, QuietMeansEmpty, Alive, Tree
    <2> QED
      BY <2>1, <2>2, <2>3, <2>4
  <1>3. CASE Events
    <2> USE <1>3 DEF Events
    <2>1. TypeOK'
      <3>1. pc' \in [Processes -> Positions]
        BY DEF TypeOK
      <3>2. /\ pc'["supervisor"] \in SupervisorPos
            /\ pc'["child"] \in ChildPos /\ pc'["init"] \in InitPos
        BY DEF TypeOK
      <3> QED
        BY <3>1, <3>2 DEF TypeOK, Tree
    <2>2. LeafInv'
      BY DEF TypeOK, LeafInv, ForkInv, NothingOutsideLeaf, Alive, Tree
    <2>3. ForkInv' /\ ReapInv'
      BY DEF TypeOK, ForkInv, ReapInv, QuietMeansEmpty, Alive, Tree
    <2> QED
      BY <2>1, <2>2, <2>3
  <1> QED
    BY <1>1, <1>2, <1>3 DEF Cleanup

\* The forked child: it reads "G" only when it is in the leaf, and init inherits
\* its cgroup.
LEMMA ChildStepIInv == ASSUME IInv, ChildStep PROVE IInv'
  <1> USE DEF IInv, kernel, verdict
  <1>1. CASE Protect("protect", "checkparent")
    BY <1>1, ChildMoves DEF Protect
  <1>2. CASE ProtectChecked("checkparent", "gate")
    <2>1. CASE Exit("child") /\ pc["child"] = "checkparent"
      BY <2>1, ExitIInv DEF Alive, Tree
    <2> QED
      BY <1>2, <2>1, ChildMoves DEF ProtectChecked
  <1>3. CASE ReadGate
    <2>1. CASE Exit("child")
      BY <1>3, <2>1, ExitIInv DEF ReadGate, Alive, Tree
    <2>2. CASE gate = "G" /\ Goto("child", "gate", "unshare")
      <3>1. "child" \in leaf
        BY <2>2 DEF LeafInv, Alive, Goto
      <3> QED
        BY <1>3, <2>2, <3>1, ChildMoves DEF ReadGate, Goto, Exit
    <2> QED
      BY <1>3, <2>1, <2>2 DEF ReadGate
  <1>4. CASE Unshare \/ AwaitMap \/ TakeIdentity \/ Protect("reprotect", "recheck")
             \/ ProtectChecked("recheck", "forkinit")
    <2>1. /\ pc["child"] \in {"unshare", "mapwait", "identity", "reprotect", "recheck"}
          /\ "child" \in leaf
      BY <1>4 DEF Unshare, AwaitMap, TakeIdentity, Protect, ProtectChecked, Goto, LeafInv,
                  NothingOutsideLeaf, Alive
    <2>2. CASE Exit("child")
      BY <2>1, <2>2, ExitIInv DEF Alive, Tree
    <2>3. ASSUME NEW from \in ChildPos \ {"none", "wait", "zombie", "gone"},
                 NEW to \in ChildPos \ {"none", "wait", "zombie", "gone"},
                 Goto("child", from, to), UNCHANGED <<leaf, lease, gate, orphanless>>
          PROVE  IInv'
      BY <2>1, <2>3, ChildMoves
    <2> QED
      BY <1>4, <2>2, <2>3 DEF Unshare, AwaitMap, TakeIdentity, Protect, ProtectChecked
  <1>5. CASE ForkInit
    <2>1. CASE Exit("child")
      BY <1>5, <2>1, ExitIInv DEF ForkInit, Alive, Tree
    <2>2. CASE pc["child"] = "forkinit" /\ ~Exit("child")
      <3> USE <1>5, <2>2 DEF ForkInit
      <3>1. TypeOK'
        BY DEF TypeOK, Tree
      <3>2. LeafInv'
        BY DEF TypeOK, LeafInv, NothingOutsideLeaf, Alive
      <3>3. ForkInv' /\ ReapInv'
        BY DEF TypeOK, ForkInv, ReapInv, QuietMeansEmpty, Tree
      <3> QED
        BY <3>1, <3>2, <3>3
    <2> QED
      BY <1>5, <2>1, <2>2 DEF ForkInit
  <1>6. CASE WaitInit
    <2> USE <1>6 DEF WaitInit
    <2>1. TypeOK'
      BY DEF TypeOK, Tree
    <2>2. LeafInv'
      BY DEF TypeOK, LeafInv, NothingOutsideLeaf, Alive
    <2>3. ForkInv' /\ ReapInv'
      BY DEF TypeOK, ForkInv, ReapInv, QuietMeansEmpty, Tree
    <2> QED
      BY <2>1, <2>2, <2>3
  <1> QED
    BY <1>1, <1>2, <1>3, <1>4, <1>5, <1>6 DEF ChildStep

\* init only runs on or ends.
LEMMA InitStepIInv == ASSUME IInv, InitStep PROVE IInv'
  <1> USE DEF kernel, verdict
  <1>1. pc["init"] \in {"arm", "parent", "confine", "ready", "serve"}
    BY DEF InitStep, ArmInit, CheckParent, Confine, SendReady, Serve, Goto
  <1>2. CASE Exit("init")
    BY <1>1, <1>2, ExitIInv DEF Alive, Tree
  <1>3. ASSUME NEW from \in InitPos \ {"none", "zombie", "gone"},
               NEW to \in InitPos \ {"none", "zombie", "gone"},
               Goto("init", from, to), UNCHANGED <<leaf, lease, gate, orphanless>>
        PROVE  IInv'
    BY <1>3, InitMoves
  <1>4. CASE UNCHANGED <<pc, leaf, lease, gate, orphanless>>
    BY <1>4 DEF IInv, TypeOK, LeafInv, ForkInv, ReapInv, NothingOutsideLeaf,
                QuietMeansEmpty, Alive
  <1> QED
    BY <1>2, <1>3, <1>4 DEF InitStep, ArmInit, CheckParent, Confine, SendReady, Serve

\* The death of the supervisor, and what the host does to the tree.
LEMMA HostIInv ==
    ASSUME IInv,
           \/ SupervisorDies
           \/ \E p \in Tree : Killed(p) \/ HostReaps(p)
    PROVE  IInv'
  <1> USE DEF IInv, kernel, verdict
  <1>1. CASE SupervisorDies
    <2> USE <1>1 DEF SupervisorDies, Up
    <2>1. TypeOK'
      BY DEF TypeOK
    <2>2. LeafInv'
      BY DEF TypeOK, LeafInv, NothingOutsideLeaf, Alive
    <2>3. ForkInv' /\ ReapInv'
      BY DEF TypeOK, ForkInv, ReapInv, QuietMeansEmpty, Tree
    <2> QED
      BY <2>1, <2>2, <2>3
  <1>2. ASSUME NEW p \in Tree, Killed(p) PROVE IInv'
    BY <1>2, ExitIInv DEF Killed
  <1>3. ASSUME NEW p \in Tree, HostReaps(p) PROVE IInv'
    <2> USE <1>3 DEF HostReaps
    <2>1. TypeOK'
      BY DEF TypeOK, Tree
    <2>2. LeafInv'
      BY DEF TypeOK, LeafInv, NothingOutsideLeaf, Alive, Tree
    <2>3. ForkInv' /\ ReapInv'
      BY DEF TypeOK, ForkInv, ReapInv, QuietMeansEmpty, Tree
    <2> QED
      BY <2>1, <2>2, <2>3
  <1> QED
    BY <1>1, <1>2, <1>3

\* An interrupt, a memory limit and the deadline only mark somebody.
LEMMA MarkIInv ==
    ASSUME IInv, UNCHANGED <<pc, leaf, lease, gate, orphanless>>
    PROVE  IInv'
  BY DEF IInv, TypeOK, LeafInv, ForkInv, ReapInv, NothingOutsideLeaf, QuietMeansEmpty, Alive

-----------------------------------------------------------------------------
(* The theorems. *)

\* Every step of every process keeps the invariant.
LEMMA NextIInv == IInv /\ [Next]_vars => IInv'
  <1> SUFFICES ASSUME IInv, [Next]_vars PROVE IInv'
    OBVIOUS
  <1>1. CASE Interrupt \/ Expire \/ UNCHANGED vars \/ \E p \in Tree : OutOfMemory(p)
    BY <1>1, MarkIInv DEF Interrupt, Expire, OutOfMemory, vars, kernel, verdict
  <1> QED
    BY <1>1, StartIInv, SessionIInv, CleanupIInv, ChildStepIInv, InitStepIInv, HostIInv
       DEF Next, Establish

\* The tree satisfies the inductive invariant whoever dies, and when.
THEOREM Invariance == Spec => []IInv
  BY InitIInv, NextIInv, PTL DEF Spec

\* establish: no process of the tree gets past the gate outside the leased leaf,
\* also when lease.attach raised with the outcome unknown.
THEOREM LeafHoldsTheTree == Spec => []NothingOutsideLeaf
  <1>1. IInv => NothingOutsideLeaf
    BY DEF IInv, LeafInv
  <1> QED
    BY <1>1, Invariance, PTL

\* cleanup: when kill_and_reap returns, no process of the tree is left, running or
\* unreaped.
THEOREM QuietIsEmpty == Spec => []QuietMeansEmpty
  <1>1. IInv => QuietMeansEmpty
    BY DEF IInv, ReapInv
  <1> QED
    BY <1>1, Invariance, PTL
============================================================================
