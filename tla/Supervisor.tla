----------------------------- MODULE Supervisor -----------------------------
(***************************************************************************)
(* The protected session supervisor of live_supervisor.py: _Lifecycle with *)
(* the NativeSupervisor and _NativeChannel around it.  One process at a    *)
(* time holds session.lock; several of its threads call open_session,      *)
(* execute_fixed, cancel and close, the process may die at any point and   *)
(* be started again on the same signed binding, and the wall clock may be  *)
(* set.  The replay journal appears by what one _record call does to the   *)
(* session's nonce (ReplayJournal): refused, durable, or ambiguous.        *)
(*                                                                         *)
(* Signature, custody and context checks of the factory are one            *)
(* nondeterministic verdict: they decide whether a call goes on, and read  *)
(* nothing that another action changes.                                    *)
(***************************************************************************)
EXTENDS Integers, ReplayStates

CONSTANTS
  Threads,      \* threads of the supervisor process
  NoThread,     \* nobody holds the mutex
  CASES,        \* the fixed operations
  NotBefore,    \* validity window of the one binding presented
  NotAfter,
  MaxDuration,  \* the session is never longer than this (900 s)
  MaxTime,      \* bound: both clocks stay in 0..MaxTime
  MaxStarts     \* bound: how often the process is started

Times == 0..MaxTime

ASSUME TimeAssumption == MaxTime \in Nat
ASSUME WindowAssumption == NotBefore \in Times /\ NotAfter \in Times
ASSUME DurationAssumption == MaxDuration \in Nat
ASSUME StartsAssumption == MaxStarts \in Nat
ASSUME NoThreadAssumption == NoThread \notin Threads

VARIABLES
  wall, mono,   \* the wall clock and the monotonic clock
  owner,        \* the thread that made the NativeSupervisor, or NoThread
  starts,       \* how many were started (bound)
  holders,      \* who keeps session.lock's open file description alive
  mutex,        \* holder of _mutex
  opened, closed, cancelled,   \* _opened, _closed, channel.cancelled
  active,       \* _active: "none", "reserved", or "running" (handle issued)
  sess,         \* deadline, lastWall and done of the active dict
  lease,        \* cgroup lease: "unowned", "owned", "closed"
  child,        \* the confined process tree: "none", "alive", "dead"
  journal,      \* the nonce in the replay journal: state and observedAt
  poisoned,     \* the _Journal instance saw ambiguous storage
  pc, loc,      \* each thread's position and its locals
  started,      \* how often each case reached the backend (history)
  passed        \* cases with an accepted PASS receipt (history)

clocks == <<wall, mono>>
flags == <<opened, closed, cancelled>>
process == <<owner, starts, holders>>
boundary == <<lease, child>>
store == <<journal, poisoned>>
history == <<started, passed>>
vars == <<clocks, process, mutex, flags, active, sess, boundary, store, pc, loc, history>>

\* A NativeSupervisor exists.
up == owner # NoThread

NoSession == [deadline |-> 0, lastWall |-> 0, done |-> {}]
NoCall == [call |-> "open", case |-> CHOOSE c \in CASES : TRUE, status |-> "PASS",
           target |-> "FAILED", at |-> 0, failed |-> FALSE]

Init ==
  /\ wall \in Times
  /\ mono = 0
  /\ owner = NoThread
  /\ starts = 0
  /\ holders = {}
  /\ mutex = NoThread
  /\ opened = FALSE /\ closed = FALSE /\ cancelled = FALSE
  /\ active = "none"
  /\ sess = NoSession
  /\ lease = "unowned"
  /\ child = "none"
  /\ journal = [state |-> "FREE", at |-> 0]
  /\ poisoned = FALSE
  /\ pc = [t \in Threads |-> "idle"]
  /\ loc = [t \in Threads |-> NoCall]
  /\ started = [c \in CASES |-> 0]
  /\ passed = {}

-----------------------------------------------------------------------------
(* One _record call of the session's journal. *)

Recordable(s, t) ==
  /\ ~poisoned
  /\ IF s = "RESERVED"
     THEN journal.state = "FREE" /\ NotBefore <= t /\ t < NotAfter
     ELSE /\ journal.state # "FREE"
          /\ s \in EDGES[journal.state]
          /\ t >= journal.at
          /\ s = "EXPIRED" => t >= NotAfter
          /\ s \in {"RUNNING", "COMPLETED"} => t < NotAfter

\* The call returned: the row is durable.
Recorded(s, t) ==
  /\ Recordable(s, t)
  /\ journal' = [state |-> s, at |-> t]
  /\ UNCHANGED poisoned

\* It raised: refused, busy or full; or ambiguous, the row there or not.
NotRecorded(s, t) ==
  \/ UNCHANGED <<journal, poisoned>>
  \/ /\ Recordable(s, t)
     /\ poisoned' = TRUE
     /\ journal' \in {journal, [state |-> s, at |-> t]}

(* Positions of threads. *)

Goto(t, from, to) == pc[t] = from /\ pc' = [pc EXCEPT ![t] = to]

\* Enter _terminate(target) while holding the mutex.
Terminate(t, from, target) ==
  /\ Goto(t, from, "terminate")
  /\ loc' = [loc EXCEPT ![t].target = target]
  /\ UNCHANGED mutex

Release(t, from) ==
  /\ Goto(t, from, "idle")
  /\ mutex' = NoThread
  /\ loc' = [loc EXCEPT ![t] = NoCall]

(* _now: the clocks and the retained context, which answers only to the     *)
(* thread that made it (owner_check); check_peer adds the peer.             *)
NowOK(t) ==
  /\ t = owner
  /\ wall >= sess.lastWall
  /\ wall < NotAfter
  /\ mono < sess.deadline
  /\ ~closed
  /\ ~cancelled

PeerOK(t) == NowOK(t) /\ child = "alive"

\* The dict after _now: a wall clock that went back is refused unread.
Seen == IF wall >= sess.lastWall THEN [sess EXCEPT !.lastWall = wall] ELSE sess

-----------------------------------------------------------------------------
(* NativeSupervisor.__init__: session.lock and an empty cgroup leaf. *)
Start(t) ==
  /\ ~up
  /\ starts < MaxStarts
  /\ holders = {}
  /\ child # "alive"
  /\ owner' = t
  /\ starts' = starts + 1
  /\ holders' = {"supervisor"}
  /\ opened' = FALSE /\ closed' = FALSE /\ cancelled' = FALSE
  /\ sess' = NoSession
  /\ lease' = "unowned"
  /\ poisoned' = FALSE
  /\ UNCHANGED <<clocks, mutex, active, child, journal, pc, loc, history>>

\* _cleanup_native: custody, journal handle, lease and session.lock.
CleanupNative ==
  /\ holders' = holders \ {"supervisor"}
  /\ lease' = "closed"
  /\ closed' = TRUE

(* open_session, up to the reservation: the one-shot check, the signed       *)
(* authority, the window, and the deadline.                                  *)
OpenSession(t) ==
  /\ up /\ t = owner /\ pc[t] = "idle" /\ mutex = NoThread
  /\ ~closed /\ ~opened
  /\ NotBefore <= wall /\ wall < NotAfter
  /\ mutex' = t
  /\ pc' = [pc EXCEPT ![t] = "reserve"]
  /\ loc' = [loc EXCEPT ![t] = [NoCall EXCEPT !.call = "open", !.at = wall]]
  /\ opened' = TRUE
  /\ sess' = [deadline |-> mono + IF NotAfter - wall < MaxDuration
                                   THEN NotAfter - wall ELSE MaxDuration,
              lastWall |-> wall, done |-> {}]
  /\ UNCHANGED <<clocks, process, closed, cancelled, active, boundary, store, history>>

\* Any check before the reservation failed, or a thread that does not own the
\* custody called: the instance is finished.
OpenRefused(t) ==
  /\ up /\ pc[t] = "idle" /\ mutex = NoThread
  /\ ~closed /\ ~opened
  /\ CleanupNative
  /\ UNCHANGED <<clocks, owner, starts, mutex, opened, cancelled, active, sess, child,
                 store, pc, loc, history>>

\* Mutant of Reserve: a failed reservation is taken for granted.
ReserveAnyway(t) ==
  /\ Recorded("RESERVED", loc[t].at) \/ NotRecorded("RESERVED", loc[t].at)
  /\ active' = "reserved"
  /\ Goto(t, "reserve", "establish")
  /\ UNCHANGED <<clocks, process, mutex, flags, sess, boundary, loc, history>>

\* journal.reserve_nonce, then _active is set.
Reserve(t) ==
  /\ \/ /\ Recorded("RESERVED", loc[t].at)
        /\ active' = "reserved"
        /\ Goto(t, "reserve", "establish")
     \/ /\ NotRecorded("RESERVED", loc[t].at)
        /\ UNCHANGED active
        /\ Goto(t, "reserve", "abandon")
  /\ UNCHANGED <<clocks, process, mutex, flags, sess, boundary, loc, history>>

\* _now, then boundary.establish: fork, cgroup attach, handshake.  The forked
\* tree inherits session.lock's open file description.
Establish(t) ==
  /\ pc[t] = "establish"
  /\ sess' = Seen
  /\ \/ /\ NowOK(t)
        /\ child' = "alive" /\ lease' = "owned" /\ holders' = holders \cup {"child"}
        /\ \/ Goto(t, "establish", "running") /\ UNCHANGED <<mutex, loc>>
           \/ Terminate(t, "establish", "FAILED")
     \/ /\ Terminate(t, "establish", "FAILED")
        /\ UNCHANGED <<child, lease, holders>>
  /\ UNCHANGED <<clocks, owner, starts, flags, active, store, history>>

\* check_peer, journal.running, the handle is issued.
Running(t) ==
  /\ pc[t] = "running"
  /\ sess' = Seen
  /\ \/ /\ PeerOK(t)
        /\ Recorded("RUNNING", wall)
        /\ active' = "running"
        /\ Release(t, "running")
     \/ /\ \/ PeerOK(t) /\ NotRecorded("RUNNING", wall)
           \/ ~PeerOK(t) /\ UNCHANGED store
        /\ Terminate(t, "running", "FAILED")
        /\ UNCHANGED active
  /\ UNCHANGED <<clocks, process, flags, boundary, history>>

\* open_session's own exception handler, still under the mutex.
Abandon(t) ==
  /\ Release(t, "abandon")
  /\ CleanupNative
  /\ UNCHANGED <<clocks, owner, starts, opened, cancelled, active, sess, child, store, history>>

-----------------------------------------------------------------------------
\* Mutant of ExecuteFixed: no check for a case already done.
ExecuteAgain(t, c) ==
  /\ up /\ pc[t] = "idle" /\ mutex = NoThread
  /\ active = "running"
  /\ mutex' = t
  /\ pc' = [pc EXCEPT ![t] = "precheck"]
  /\ loc' = [loc EXCEPT ![t] = [NoCall EXCEPT !.call = "execute", !.case = c]]
  /\ UNCHANGED <<clocks, process, flags, active, sess, boundary, store, history>>

(* execute_fixed: a busy mutex or a bad handle refuses without a trace; a   *)
(* repeated case ends the session.                                          *)
ExecuteFixed(t, c) ==
  /\ up /\ pc[t] = "idle" /\ mutex = NoThread
  /\ active = "running"
  /\ mutex' = t
  /\ pc' = [pc EXCEPT ![t] = IF c \in sess.done THEN "terminate" ELSE "precheck"]
  /\ loc' = [loc EXCEPT ![t] = [NoCall EXCEPT !.call = "execute", !.case = c]]
  /\ UNCHANGED <<clocks, process, flags, active, sess, boundary, store, history>>

\* _now and check_peer, then the request is sent to the protected backend.
Precheck(t) ==
  /\ pc[t] = "precheck"
  /\ sess' = Seen
  /\ \/ /\ PeerOK(t)
        /\ Goto(t, "precheck", "remote")
        /\ started' = [started EXCEPT ![loc[t].case] = @ + 1]
        /\ UNCHANGED <<mutex, loc>>
     \/ /\ ~PeerOK(t)
        /\ Terminate(t, "precheck", "FAILED")
        /\ UNCHANGED started
  /\ UNCHANGED <<clocks, process, flags, active, boundary, store, passed>>

\* boundary.execute returns a receipt, or raises.
Remote(t) ==
  /\ \/ \E status \in {"PASS", "FAIL"} :
          /\ Goto(t, "remote", "postcheck")
          /\ loc' = [loc EXCEPT ![t].status = status]
          /\ UNCHANGED mutex
     \/ Terminate(t, "remote", "FAILED")
  /\ UNCHANGED <<clocks, process, flags, active, sess, boundary, store, history>>

\* Mutant of Postcheck: any receipt counts as a pass.
PostcheckAnyStatus(t) ==
  /\ pc[t] = "postcheck"
  /\ \/ /\ PeerOK(t)
        /\ LET done == sess.done \cup {loc[t].case}
           IN  /\ sess' = [Seen EXCEPT !.done = done]
               /\ passed' = IF loc[t].status = "PASS" THEN passed \cup {loc[t].case} ELSE passed
               /\ IF done = CASES THEN Terminate(t, "postcheck", "COMPLETED")
                                  ELSE Release(t, "postcheck")
     \/ /\ ~PeerOK(t)
        /\ sess' = Seen
        /\ Terminate(t, "postcheck", "FAILED")
        /\ UNCHANGED passed
  /\ UNCHANGED <<clocks, process, flags, active, boundary, store, started>>

\* _now and check_peer again, then the receipt counts.
Postcheck(t) ==
  /\ pc[t] = "postcheck"
  /\ \/ /\ PeerOK(t)
        /\ LET done == sess.done \cup {loc[t].case}
           IN  /\ sess' = [Seen EXCEPT !.done = done]
               /\ \/ /\ loc[t].status # "PASS"
                     /\ Terminate(t, "postcheck", "FAILED")
                     /\ UNCHANGED passed
                  \/ /\ loc[t].status = "PASS"
                     /\ passed' = passed \cup {loc[t].case}
                     /\ IF done = CASES THEN Terminate(t, "postcheck", "COMPLETED")
                                        ELSE Release(t, "postcheck")
     \/ /\ ~PeerOK(t)
        /\ sess' = Seen
        /\ Terminate(t, "postcheck", "FAILED")
        /\ UNCHANGED passed
  /\ UNCHANGED <<clocks, process, flags, active, boundary, store, started>>

-----------------------------------------------------------------------------
(* cancel: the handle check and the interrupt run outside the mutex. *)
Cancel(t) ==
  /\ up /\ active = "running"
  /\ Goto(t, "idle", "interrupt")
  /\ UNCHANGED <<clocks, process, mutex, flags, active, sess, boundary, store, loc, history>>

\* cgroup.kill on a leaf this process owns; the write may raise.
Interrupt(t) ==
  /\ cancelled' = TRUE
  /\ \/ /\ Goto(t, "interrupt", "cancelwait")
        /\ IF lease = "owned" /\ child = "alive"
           THEN child' = "dead" /\ holders' = holders \ {"child"}
           ELSE UNCHANGED <<child, holders>>
     \/ /\ lease = "owned"
        /\ Goto(t, "interrupt", "idle")
        /\ UNCHANGED <<child, holders>>
  /\ UNCHANGED <<clocks, owner, starts, mutex, opened, closed, active, sess, lease, store, loc, history>>

\* Mutant of CancelAcquire: cancel leaves the session to its executor.
CancelWithoutTerminate(t) ==
  /\ mutex = NoThread
  /\ Goto(t, "cancelwait", "idle")
  /\ UNCHANGED <<clocks, process, mutex, flags, active, sess, boundary, store, loc, history>>

CancelAcquire(t) ==
  /\ mutex = NoThread
  /\ \/ /\ active # "none"
        /\ Goto(t, "cancelwait", "terminate")
        /\ mutex' = t
        /\ loc' = [loc EXCEPT ![t] = [NoCall EXCEPT !.call = "cancel", !.target = "CANCELLED"]]
     \/ /\ active = "none"
        /\ Goto(t, "cancelwait", "idle")
        /\ UNCHANGED <<mutex, loc>>
  /\ UNCHANGED <<clocks, process, flags, active, sess, boundary, store, history>>

\* NativeSupervisor.close marks the instance closed before it takes the mutex.
Close(t) ==
  /\ up /\ ~closed
  /\ Goto(t, "idle", "closewait")
  /\ closed' = TRUE
  /\ UNCHANGED <<clocks, process, mutex, opened, cancelled, active, sess, boundary, store, loc, history>>

\* Mutant of CloseAcquire: without a session there is nothing to wait for.
CloseAtOnce(t) ==
  /\ \/ /\ active # "none" /\ mutex = NoThread
        /\ Goto(t, "closewait", "terminate")
        /\ mutex' = t
        /\ loc' = [loc EXCEPT ![t] = [NoCall EXCEPT !.call = "close"]]
     \/ /\ active = "none"
        /\ Goto(t, "closewait", "closing")
        /\ UNCHANGED <<mutex, loc>>
  /\ UNCHANGED <<clocks, process, flags, active, sess, boundary, store, history>>

CloseAcquire(t) ==
  /\ mutex = NoThread
  /\ \/ /\ active # "none"
        /\ Goto(t, "closewait", "terminate")
        /\ mutex' = t
        /\ loc' = [loc EXCEPT ![t] = [NoCall EXCEPT !.call = "close"]]
     \/ /\ active = "none"
        /\ Goto(t, "closewait", "closing")
        /\ UNCHANGED <<mutex, loc>>
  /\ UNCHANGED <<clocks, process, flags, active, sess, boundary, store, history>>

\* ... and cleans up after it has given the mutex back.
Closing(t) ==
  /\ Goto(t, "closing", "idle")
  /\ CleanupNative
  /\ UNCHANGED <<clocks, owner, starts, mutex, opened, cancelled, active, sess, child, store, loc, history>>

-----------------------------------------------------------------------------
(* _terminate, step by step.  The handle is invalidated first. *)
Invalidate(t) ==
  /\ Goto(t, "terminate", "cleanup")
  /\ active' = "none"
  /\ loc' = [loc EXCEPT ![t].at = wall,
                        ![t].failed = wall < sess.lastWall,
                        ![t].target = IF wall >= NotAfter THEN "EXPIRED"
                                      ELSE IF mono >= sess.deadline THEN "FAILED"
                                      ELSE @]
  /\ UNCHANGED <<clocks, process, mutex, flags, sess, boundary, store, history>>

\* boundary.cleanup: kill the leaf, reap everything, then close the channel and
\* the custody.  It fails when the tree is not reaped in time, or after that.
Cleanup(t) ==
  /\ Goto(t, "cleanup", "record")
  /\ cancelled' = TRUE
  /\ \/ /\ lease' = IF lease = "owned" THEN "closed" ELSE lease
        /\ child' = IF lease = "owned" THEN "dead" ELSE child
        /\ holders' = IF lease = "owned" THEN holders \ {"child"} ELSE holders
        /\ loc' \in {loc, [loc EXCEPT ![t].failed = TRUE]}
     \/ /\ lease = "owned"
        /\ loc' = [loc EXCEPT ![t].failed = TRUE]
        /\ UNCHANGED <<lease, child, holders>>
  /\ UNCHANGED <<clocks, owner, starts, mutex, opened, closed, active, sess, store, history>>

\* Mutant of RecordTerminal: a failed cleanup is recorded all the same.
RecordAnyway(t) ==
  /\ pc[t] = "record"
  /\ Recorded(loc[t].target, loc[t].at) \/ NotRecorded(loc[t].target, loc[t].at)
  /\ \/ /\ loc[t].call = "open"
        /\ Goto(t, "record", "abandon")
        /\ UNCHANGED <<mutex, loc>>
     \/ /\ loc[t].call # "open"
        /\ pc' = [pc EXCEPT ![t] = IF loc[t].call = "close" THEN "closing" ELSE "idle"]
        /\ mutex' = NoThread
        /\ loc' = [loc EXCEPT ![t] = NoCall]
  /\ UNCHANGED <<clocks, process, flags, active, sess, boundary, history>>

\* Mutant of RecordTerminal: an exception leaves the mutex locked.
RecordKeepsMutex(t) ==
  /\ pc[t] = "record"
  /\ \/ ~loc[t].failed /\ Recorded(loc[t].target, loc[t].at) /\ mutex' = NoThread
     \/ ~loc[t].failed /\ NotRecorded(loc[t].target, loc[t].at) /\ UNCHANGED mutex
     \/ loc[t].failed /\ UNCHANGED <<store, mutex>>
  /\ pc' = [pc EXCEPT ![t] = "idle"]
  /\ loc' = [loc EXCEPT ![t] = NoCall]
  /\ UNCHANGED <<clocks, process, flags, active, sess, boundary, history>>

\* journal.terminal, only when the time and the cleanup are proven.
RecordTerminal(t) ==
  /\ pc[t] = "record"
  /\ \/ /\ ~loc[t].failed
        /\ Recorded(loc[t].target, loc[t].at) \/ NotRecorded(loc[t].target, loc[t].at)
     \/ /\ loc[t].failed
        /\ UNCHANGED store
  /\ \/ /\ loc[t].call = "open"
        /\ Goto(t, "record", "abandon")
        /\ UNCHANGED <<mutex, loc>>
     \/ /\ loc[t].call # "open"
        /\ pc' = [pc EXCEPT ![t] = IF loc[t].call = "close" THEN "closing" ELSE "idle"]
        /\ mutex' = NoThread
        /\ loc' = [loc EXCEPT ![t] = NoCall]
  /\ UNCHANGED <<clocks, process, flags, active, sess, boundary, history>>

-----------------------------------------------------------------------------
(* The process dies, by exit or by kill: its threads and its half of the    *)
(* lock go, the confined tree gets SIGKILL from the kernel a little later.  *)
Crash ==
  /\ up
  /\ owner' = NoThread
  /\ holders' = holders \ {"supervisor"}
  /\ mutex' = NoThread
  /\ active' = "none"
  /\ pc' = [t \in Threads |-> "idle"]
  /\ loc' = [t \in Threads |-> NoCall]
  /\ UNCHANGED <<clocks, starts, flags, sess, boundary, store, history>>

\* Parent-death signal, deadline, or the tree's own failure.
ChildDies ==
  /\ child = "alive"
  /\ child' = "dead"
  /\ holders' = holders \ {"child"}
  /\ UNCHANGED <<clocks, owner, starts, mutex, flags, active, sess, lease, store, pc, loc, history>>

\* Time passes; the wall clock may also be set, back or forth.
Tick ==
  /\ mono < MaxTime
  /\ mono' = mono + 1
  /\ wall' \in Times
  /\ UNCHANGED <<process, mutex, flags, active, sess, boundary, store, pc, loc, history>>

\* The steps of a call that has begun.
Step(t) ==
  \/ Reserve(t) \/ Establish(t) \/ Running(t) \/ Abandon(t)
  \/ Precheck(t) \/ Remote(t) \/ Postcheck(t)
  \/ Interrupt(t) \/ CancelAcquire(t) \/ CloseAcquire(t) \/ Closing(t)
  \/ Invalidate(t) \/ Cleanup(t) \/ RecordTerminal(t)

Next ==
  \/ \E t \in Threads :
       \/ Start(t)
       \/ OpenSession(t)
       \/ OpenRefused(t)
       \/ \E c \in CASES : ExecuteFixed(t, c)
       \/ Cancel(t)
       \/ Close(t)
       \/ Step(t)
  \/ Crash
  \/ ChildDies
  \/ Tick

Spec == Init /\ [][Next]_vars

\* Calls that have begun go on: the interpreter runs every thread, and every
\* blocking operation is bounded by the absolute deadline or the 10 s reap.
Fairness == \A t \in Threads : WF_vars(Step(t))

FairSpec == Spec /\ Fairness

-----------------------------------------------------------------------------
\* No child and no backend operation without durable custody: a confined tree
\* exists only for a nonce the journal holds, and a request is at the backend
\* only while the nonce is durably RUNNING, whatever cancels, closes or
\* crashes beside it ("no child, credential, or operation exists before
\* durable reservation").
WorkNeedsJournal ==
  /\ child = "alive" => journal.state # "FREE"
  /\ \A t \in Threads : pc[t] = "remote" => journal.state = "RUNNING"

\* A terminal record is a proof of quiet: once the journal says the session
\* ended, nothing of it is alive - no tree, no handle, no operation - even
\* when the row was written ambiguously or the process died right after.
TerminalMeansQuiet ==
  journal.state \in TERMINAL =>
    /\ child # "alive"
    /\ active = "none"
    /\ \A t \in Threads : pc[t] \notin {"precheck", "remote", "postcheck"}

\* COMPLETED is only recorded when every fixed case returned an accepted PASS
\* receipt, before the window closed.
CompletedMeansAllPassed ==
  journal.state = "COMPLETED" => passed = CASES /\ journal.at < NotAfter

\* A _record call has the journal to itself: flock would let a second thread of
\* the process in, so no two threads are ever at a row, and none writes one
\* after a close or a refused open gave session.lock and the journal's
\* descriptor back.
JournalSerial ==
  \A t \in Threads : pc[t] \in {"reserve", "running", "record"} =>
    /\ "supervisor" \in holders
    /\ \A u \in Threads \ {t} : pc[u] \notin {"reserve", "running", "record"}

\* No case of a nonce reaches the backend twice, over repeated calls, races,
\* crashes and restarts on the same signed binding.
EachCaseOnce == \A c \in CASES : started[c] <= 1

\* cancel takes effect: once its interrupt went out, the session ends, even
\* if the executing thread is in the middle of an operation or another thread
\* keeps calling execute_fixed.
CancelTakesEffect ==
  (\E t \in Threads : pc[t] = "cancelwait") ~> active = "none"

\* The mutex is always given back.
MutexIsReleased == []<>(mutex = NoThread)
============================================================================
