-------------------------- MODULE SupervisorProofs --------------------------
(***************************************************************************)
(* Theorems about Supervisor, for every set of threads and of cases, every *)
(* window and duration, and any number of restarts: the five safety        *)
(* invariants its run checks, from one inductive invariant.                *)
(***************************************************************************)
EXTENDS Supervisor, TLAPS

-----------------------------------------------------------------------------
(* The inductive invariant. *)

Calls == {"open", "execute", "cancel", "close"}
CaseValues == CASES \cup {CHOOSE c \in CASES : TRUE}
Locals == [call : Calls, case : CaseValues, status : {"PASS", "FAIL"},
           target : TERMINAL, at : Times, failed : BOOLEAN]
\* Where a thread holds _mutex.
Holding == {"reserve", "establish", "running", "abandon", "precheck", "remote", "postcheck",
            "terminate", "cleanup", "record"}
Positions == Holding \cup {"idle", "interrupt", "cancelwait", "closewait", "closing"}

FlagsOK == /\ opened \in BOOLEAN /\ closed \in BOOLEAN /\ cancelled \in BOOLEAN
           /\ poisoned \in BOOLEAN
TypeOK ==
  /\ wall \in Times /\ mono \in Times
  /\ owner \in Threads \cup {NoThread} /\ mutex \in Threads \cup {NoThread}
  /\ starts \in Nat
  /\ holders \in SUBSET {"supervisor", "child"}
  /\ active \in {"none", "reserved", "running"}
  /\ sess \in [deadline : Int, lastWall : Times, done : SUBSET CASES]
  /\ lease \in {"unowned", "owned", "closed"}
  /\ child \in {"none", "alive", "dead"}
  /\ journal \in [state : States \cup {"FREE"}, at : Times]
  /\ pc \in [Threads -> Positions]
  /\ started \in [CASES -> Nat]
  /\ passed \in SUBSET CASES

LocalsOK == loc \in [Threads -> Locals]

\* The mutex and the positions of its holders agree.
MutexInv == \A t \in Threads : pc[t] \in Holding <=> mutex = t

\* session.lock outlives the session and whoever holds the mutex; a thread that
\* cleans up outside the mutex (closing) has seen the session gone, and closed
\* keeps another from being opened.
CustodyInv ==
  /\ ~up => mutex = NoThread /\ active = "none" /\ \A t \in Threads : pc[t] = "idle"
  /\ up /\ "supervisor" \notin holders => closed /\ active = "none" /\ mutex = NoThread
  /\ active # "none" \/ mutex # NoThread => opened
  /\ \A t \in Threads :
       /\ pc[t] = "closewait" => closed
       /\ pc[t] \in Holding /\ loc[t].call = "close" => closed
       /\ pc[t] = "closing" => closed /\ active = "none" /\ mutex = NoThread

\* _active says where the holder of the mutex can be.
ActiveInv ==
  /\ mutex = NoThread => active # "reserved"
  /\ \A t \in Threads :
       /\ pc[t] \in {"reserve", "abandon", "cleanup", "record"} => active = "none"
       /\ pc[t] \in {"establish", "running"} => active = "reserved"
       /\ pc[t] \in {"precheck", "remote", "postcheck"} => active = "running"

\* The nonce is at least as far as the session, and a tree needs an owned lease
\* and a nonce that is taken but not terminal.
JournalInv ==
  /\ active = "reserved" => journal.state \in {"RESERVED", "RUNNING"}
  /\ active = "running" => journal.state = "RUNNING"
  /\ journal.state \in TERMINAL => child # "alive"
  /\ child = "alive" => journal.state # "FREE"
  /\ up /\ "supervisor" \in holders /\ lease # "owned" => child # "alive"
  /\ \A t \in Threads : pc[t] = "record" /\ ~loc[t].failed => child # "alive"

\* Some thread is about to invalidate the handle.
Terminating == \E t \in Threads : pc[t] = "terminate"

\* A case that reached the backend is done, or in the hands of the mutex holder,
\* or its session takes no further case; before RUNNING none has been started.
CaseInv ==
  /\ \A c \in CASES : started[c] <= 1
  /\ journal.state \in {"FREE", "RESERVED"} => \A c \in CASES : started[c] = 0
  /\ active = "running" /\ ~Terminating =>
       \A c \in CASES : started[c] # 0 =>
          \/ c \in sess.done
          \/ \E t \in Threads : pc[t] \in {"remote", "postcheck"} /\ loc[t].case = c
  /\ \A t \in Threads :
       /\ pc[t] \in {"precheck", "remote", "postcheck"} => loc[t].case \in CASES
       /\ pc[t] = "precheck" => loc[t].case \notin sess.done
       /\ pc[t] \in {"reserve", "establish", "running"} => sess.done = {}

\* While the session takes cases, the cases done are cases passed.
PassInv ==
  /\ active = "running" /\ ~Terminating => sess.done \subseteq passed
  /\ \A t \in Threads : pc[t] \in {"terminate", "cleanup", "record"} /\ loc[t].target = "COMPLETED"
        => passed = CASES
  /\ journal.state = "COMPLETED" => passed = CASES /\ journal.at < NotAfter

IInv ==
  /\ FlagsOK /\ TypeOK /\ LocalsOK
  /\ MutexInv /\ CustodyInv /\ ActiveInv /\ JournalInv /\ CaseInv /\ PassInv

-----------------------------------------------------------------------------
(* The locals of a call, and what the shared exits leave. *)
USE DEF Positions, Holding, TERMINAL, States, Terminating

\* Times are naturals.
LEMMA ZeroTime == 0 \in Times /\ Times \subseteq Nat
  BY TimeAssumption DEF Times

\* The locals of a thread without a call.
LEMMA NoCallOK == NoCall \in Locals /\ NoCall.call = "open" /\ NoCall.target = "FAILED"
  <1>1. NoCall.failed \in BOOLEAN
    <2>1. FALSE \in BOOLEAN
      BY Zenon
    <2> QED
      BY <2>1 DEF NoCall
  <1> QED
    BY <1>1, ZeroTime DEF NoCall, Locals, CaseValues, Calls

\* The locals open_session begins with.
LEMMA OpenCallOK ==
    ASSUME NEW w \in Times
    PROVE  /\ [NoCall EXCEPT !.call = "open", !.at = w] \in Locals
           /\ [NoCall EXCEPT !.call = "open", !.at = w].call = "open"
           /\ [NoCall EXCEPT !.call = "open", !.at = w].target = "FAILED"
  BY NoCallOK DEF Locals, Calls

\* The locals execute_fixed begins with: a failure unless it finds otherwise.
LEMMA ExecuteCallOK ==
    ASSUME NEW c \in CASES
    PROVE  /\ [NoCall EXCEPT !.call = "execute", !.case = c] \in Locals
           /\ [NoCall EXCEPT !.call = "execute", !.case = c].call = "execute"
           /\ [NoCall EXCEPT !.call = "execute", !.case = c].case = c
           /\ [NoCall EXCEPT !.call = "execute", !.case = c].target = "FAILED"
  BY NoCallOK DEF Locals, Calls, CaseValues

\* The locals cancel begins its _terminate with.
LEMMA CancelCallOK ==
    /\ [NoCall EXCEPT !.call = "cancel", !.target = "CANCELLED"] \in Locals
    /\ [NoCall EXCEPT !.call = "cancel", !.target = "CANCELLED"].call = "cancel"
    /\ [NoCall EXCEPT !.call = "cancel", !.target = "CANCELLED"].target = "CANCELLED"
  BY NoCallOK DEF Locals, Calls

\* The locals close begins its _terminate with.
LEMMA CloseCallOK ==
    /\ [NoCall EXCEPT !.call = "close"] \in Locals
    /\ [NoCall EXCEPT !.call = "close"].call = "close"
    /\ [NoCall EXCEPT !.call = "close"].target = "FAILED"
  BY NoCallOK DEF Locals, Calls

\* A call replaces its own locals only.
LEMMA AssignLocals ==
    ASSUME LocalsOK, NEW t \in Threads, NEW l \in Locals, loc' = [loc EXCEPT ![t] = l]
    PROVE  LocalsOK' /\ loc'[t] = l /\ \A u \in Threads \ {t} : loc'[u] = loc[u]
  BY DEF LocalsOK

\* Entering _terminate sets the target and keeps the rest of the locals.
LEMMA TerminateLocals ==
    ASSUME LocalsOK, NEW t \in Threads, NEW from, NEW target \in TERMINAL,
           Terminate(t, from, target)
    PROVE  /\ LocalsOK'
           /\ pc[t] = from /\ pc' = [pc EXCEPT ![t] = "terminate"] /\ mutex' = mutex
           /\ loc'[t].target = target /\ loc'[t].call = loc[t].call
           /\ \A u \in Threads \ {t} : loc'[u] = loc[u]
  <1>1. [loc[t] EXCEPT !.target = target] \in Locals
    BY DEF LocalsOK, Locals
  <1>2. loc' = [loc EXCEPT ![t] = [loc[t] EXCEPT !.target = target]]
    BY DEF Terminate, LocalsOK
  <1>3. loc'[t] = [loc[t] EXCEPT !.target = target]
    BY <1>1, <1>2, AssignLocals
  <1>4. loc[t] \in Locals
    BY DEF LocalsOK
  <1>5. loc'[t].target = target /\ loc'[t].call = loc[t].call
    BY <1>3, <1>4 DEF Locals
  <1> QED
    BY <1>1, <1>2, <1>5, AssignLocals DEF Terminate, Goto

\* Giving the mutex back forgets the locals of one thread.
LEMMA ReleaseLocals ==
    ASSUME LocalsOK, NEW t \in Threads, NEW from, Release(t, from)
    PROVE  LocalsOK' /\ \A u \in Threads \ {t} : loc'[u] = loc[u]
  BY NoCallOK, AssignLocals DEF Release

\* The answer of boundary.execute changes the status and not the case.
LEMMA RemoteLocals ==
    ASSUME TypeOK, LocalsOK, NEW t \in Threads, Remote(t)
    PROVE  /\ LocalsOK' /\ loc'[t].call = loc[t].call
           /\ pc'[t] = "postcheck" => loc'[t].case = loc[t].case
           /\ pc'[t] = "terminate" => loc'[t].target = "FAILED"
           /\ \A u \in Threads \ {t} : loc'[u] = loc[u]
  <1>1. CASE Terminate(t, "remote", "FAILED")
    BY <1>1, TerminateLocals DEF Terminate, Goto, TypeOK
  <1>2. ASSUME NEW status \in {"PASS", "FAIL"}, Goto(t, "remote", "postcheck"),
               loc' = [loc EXCEPT ![t].status = status]
        PROVE  /\ LocalsOK' /\ loc'[t].call = loc[t].call /\ loc'[t].case = loc[t].case
               /\ \A u \in Threads \ {t} : loc'[u] = loc[u]
    <2>1. [loc[t] EXCEPT !.status = status] \in Locals
      BY DEF LocalsOK, Locals
    <2>2. loc' = [loc EXCEPT ![t] = [loc[t] EXCEPT !.status = status]]
      BY <1>2 DEF LocalsOK
    <2>3. loc'[t] = [loc[t] EXCEPT !.status = status] /\ loc[t] \in Locals
      BY <2>1, <2>2, AssignLocals DEF LocalsOK
    <2>4. loc'[t].call = loc[t].call /\ loc'[t].case = loc[t].case
      BY <2>3 DEF Locals
    <2> QED
      BY <2>1, <2>2, <2>4, AssignLocals
  <1> QED
    BY <1>1, <1>2 DEF Remote, Goto, TypeOK

\* _terminate decides its target: kept, or EXPIRED, or FAILED.
LEMMA InvalidateLocals ==
    ASSUME TypeOK, LocalsOK, NEW t \in Threads, Invalidate(t)
    PROVE  /\ LocalsOK' /\ loc'[t].call = loc[t].call
           /\ loc'[t].target \in {loc[t].target, "EXPIRED", "FAILED"}
           /\ \A u \in Threads \ {t} : loc'[u] = loc[u]
  <1> DEFINE f == wall < sess.lastWall
             x == IF wall >= NotAfter THEN "EXPIRED"
                  ELSE IF mono >= sess.deadline THEN "FAILED" ELSE loc[t].target
             l == [loc[t] EXCEPT !.at = wall, !.failed = f, !.target = x]
  <1>1. loc[t] \in Locals /\ wall \in Times
    BY DEF LocalsOK, TypeOK
  <1>2. f \in BOOLEAN
    BY ZeroTime DEF TypeOK
  <1>3. x \in TERMINAL /\ x \in {loc[t].target, "EXPIRED", "FAILED"}
    BY <1>1 DEF Locals
  <1>4. loc' = [loc EXCEPT ![t] = l]
    BY DEF Invalidate, LocalsOK, Locals
  <1> HIDE DEF f, x
  <1>5. l \in Locals /\ l.call = loc[t].call /\ l.target = x
    BY <1>1, <1>2, <1>3 DEF Locals
  <1> HIDE DEF l
  <1> QED
    BY <1>3, <1>4, <1>5, AssignLocals

\* boundary.cleanup: only a cleanup that raised leaves an owned lease.
LEMMA CleanupLocals ==
    ASSUME TypeOK, LocalsOK, NEW t \in Threads, Cleanup(t)
    PROVE  /\ LocalsOK' /\ loc'[t].call = loc[t].call /\ loc'[t].target = loc[t].target
           /\ ~loc'[t].failed => lease' # "owned" /\ (lease = "owned" => child' = "dead")
           /\ lease # "owned" => lease' = lease /\ child' = child
           /\ \A u \in Threads \ {t} : loc'[u] = loc[u]
  <1> DEFINE l == [loc[t] EXCEPT !.failed = TRUE]
  <1>1. loc[t] \in Locals
    BY DEF LocalsOK
  <1>2. TRUE \in BOOLEAN
    BY Zenon
  <1>3. l \in Locals /\ l.call = loc[t].call /\ l.target = loc[t].target /\ l.failed
    BY <1>1, <1>2 DEF Locals
  <1>4. [loc EXCEPT ![t].failed = TRUE] = [loc EXCEPT ![t] = l]
    BY DEF LocalsOK, Locals
  <1> HIDE DEF l
  <1>5. loc' = loc \/ loc' = [loc EXCEPT ![t] = l]
    BY <1>4 DEF Cleanup
  <1>6. /\ LocalsOK' /\ loc'[t].call = loc[t].call /\ loc'[t].target = loc[t].target
        /\ \A u \in Threads \ {t} : loc'[u] = loc[u]
    <2>1. CASE loc' = loc
      BY <2>1 DEF LocalsOK
    <2>2. CASE loc' = [loc EXCEPT ![t] = l]
      BY <2>2, <1>3, AssignLocals
    <2> QED
      BY <1>5, <2>1, <2>2
  <1>7. CASE lease = "owned" /\ loc' = [loc EXCEPT ![t] = l]
    <2>1. loc'[t].failed
      BY <1>7, <1>3, AssignLocals
    <2> QED
      BY <1>6, <1>7, <2>1
  <1>8. CASE /\ lease' = IF lease = "owned" THEN "closed" ELSE lease
             /\ child' = IF lease = "owned" THEN "dead" ELSE child
    BY <1>6, <1>8
  <1> QED
    BY <1>4, <1>7, <1>8 DEF Cleanup

\* Every failure exit under the mutex that enters _terminate: the session is still
\* there, and the journal and the tree are as the failing step left them.
LEMMA TerminateStep ==
    ASSUME IInv, NEW t \in Threads, NEW from \in Holding, NEW target \in TERMINAL,
           Terminate(t, from, target),
           active # "none", UNCHANGED <<clocks, owner, starts, flags, active, started>>,
           TypeOK', FlagsOK',
           passed \subseteq passed', target = "COMPLETED" => passed' = CASES,
           \/ journal' = journal
           \/ active = "reserved" /\ journal'.state = "RUNNING",
           \/ UNCHANGED <<holders, boundary>>
           \/ child' = "alive" /\ lease' = "owned" /\ holders' = holders \cup {"child"}
    PROVE  IInv'
  <1> USE DEF IInv
  <1>0. /\ LocalsOK'
        /\ pc[t] = from /\ pc' = [pc EXCEPT ![t] = "terminate"] /\ mutex' = mutex
        /\ loc'[t].target = target /\ loc'[t].call = loc[t].call
        /\ \A u \in Threads \ {t} : loc'[u] = loc[u]
    BY TerminateLocals
  <1>1. MutexInv'
    BY <1>0 DEF MutexInv, TypeOK
  <1>2. CustodyInv'
    BY <1>0 DEF CustodyInv, TypeOK, MutexInv, flags, up, boundary
  <1>3. ActiveInv'
    BY <1>0 DEF ActiveInv, TypeOK
  <1>4. JournalInv'
    BY <1>0 DEF JournalInv, ActiveInv, TypeOK, up, boundary
  <1>5. pc'[t] = "terminate" /\ \A u \in Threads \ {t} : pc'[u] = pc[u] /\ loc'[u] = loc[u]
    BY <1>0 DEF TypeOK
  <1>6. Terminating'
    BY <1>5
  <1>7. CaseInv'
    <2>1. \A u \in Threads \ {t} : pc[u] \notin Holding
      BY <1>0 DEF MutexInv
    <2> QED
      BY <1>5, <1>6, <2>1 DEF CaseInv
  <1>8. PassInv'
    <2>1. journal'.state = "COMPLETED" => passed' = CASES /\ journal'.at < NotAfter
      BY DEF PassInv, TypeOK
    <2> QED
      BY <1>0, <1>5, <1>6, <2>1 DEF PassInv, TypeOK
  <1> QED
    BY <1>0, <1>1, <1>2, <1>3, <1>4, <1>7, <1>8

-----------------------------------------------------------------------------
(* One lemma per action. *)

\* A new process: session.lock is free, so no thread of an older one is left.
LEMMA StartStep == ASSUME IInv, NEW t \in Threads, Start(t) PROVE IInv'
  <1> USE DEF IInv
  <1>1. FlagsOK'
    BY Zenon DEF FlagsOK, Start, clocks, history
  <1>2. TypeOK'
    BY ZeroTime DEF TypeOK, Start, clocks, history, NoSession
  <1>3. LocalsOK'
    BY NoThreadAssumption DEF LocalsOK, Start, clocks, history
  <1>4. MutexInv'
    BY NoThreadAssumption DEF TypeOK, MutexInv, Start, clocks, history
  <1>5. CustodyInv'
    BY NoThreadAssumption DEF TypeOK, MutexInv, CustodyInv, ActiveInv, up, Start,
       clocks, history
  <1>6. ActiveInv'
    BY NoThreadAssumption DEF TypeOK, MutexInv, CustodyInv, ActiveInv, up, Start,
       clocks, history
  <1>7. JournalInv'
    BY NoThreadAssumption DEF TypeOK, MutexInv, CustodyInv, ActiveInv, JournalInv, up,
       Start, clocks, history
  <1>8. CaseInv'
    BY NoThreadAssumption DEF TypeOK, MutexInv, CustodyInv, ActiveInv, JournalInv,
       CaseInv, up, Start, clocks, history
  <1>9. PassInv'
    BY NoThreadAssumption DEF TypeOK, MutexInv, CustodyInv, ActiveInv, JournalInv,
       CaseInv, PassInv, up, Start, clocks, history
  <1> QED
    BY <1>1, <1>2, <1>3, <1>4, <1>5, <1>6, <1>7, <1>8, <1>9

\* open_session takes the mutex and the one-shot flag before anything durable.
LEMMA OpenSessionStep == ASSUME IInv, NEW t \in Threads, OpenSession(t) PROVE IInv'
  <1> USE DEF IInv
  <1>0. /\ LocalsOK' /\ loc'[t].call = "open"
        /\ \A u \in Threads \ {t} : loc'[u] = loc[u]
    <2> DEFINE l == [NoCall EXCEPT !.call = "open", !.at = wall]
    <2>1. l \in Locals /\ l.call = "open"
      BY OpenCallOK DEF TypeOK
    <2>2. loc' = [loc EXCEPT ![t] = l]
      BY DEF OpenSession
    <2> HIDE DEF l
    <2> QED
      BY <2>1, <2>2, AssignLocals
  <1>1. FlagsOK'
    BY Zenon DEF FlagsOK, OpenSession, NoSession, clocks, process, boundary, store, history
  <1>2. TypeOK'
    <2>1. sess' \in [deadline : Int, lastWall : Times, done : SUBSET CASES]
      BY ZeroTime, WindowAssumption, DurationAssumption DEF OpenSession, TypeOK
    <2> QED
      BY <2>1 DEF TypeOK, OpenSession, clocks, process, boundary, store, history
  <1>3. LocalsOK'
    BY <1>0
  <1>4. MutexInv'
    BY <1>0, NoThreadAssumption DEF TypeOK, MutexInv, OpenSession, NoSession, clocks,
       process, boundary, store, history
  <1>5. CustodyInv'
    BY <1>0, NoThreadAssumption DEF TypeOK, MutexInv, CustodyInv, ActiveInv, up,
       OpenSession, NoSession, clocks, process, boundary, store, history
  <1>6. ActiveInv'
    BY <1>0, NoThreadAssumption DEF TypeOK, MutexInv, CustodyInv, ActiveInv, up,
       OpenSession, NoSession, clocks, process, boundary, store, history
  <1>7. JournalInv'
    BY <1>0, NoThreadAssumption DEF TypeOK, MutexInv, CustodyInv, ActiveInv,
       JournalInv, up, OpenSession, NoSession, clocks, process, boundary, store,
       history
  <1>8. CaseInv'
    BY <1>0, NoThreadAssumption DEF TypeOK, MutexInv, CustodyInv, ActiveInv,
       JournalInv, CaseInv, up, OpenSession, NoSession, clocks, process, boundary,
       store, history
  <1>9. PassInv'
    BY <1>0, NoThreadAssumption DEF TypeOK, MutexInv, CustodyInv, ActiveInv,
       JournalInv, CaseInv, PassInv, up, OpenSession, NoSession, clocks, process,
       boundary, store, history
  <1> QED
    BY <1>1, <1>2, <1>3, <1>4, <1>5, <1>6, <1>7, <1>8, <1>9

\* A refused open gives session.lock back; the instance is closed for good.
LEMMA OpenRefusedStep == ASSUME IInv, NEW t \in Threads, OpenRefused(t) PROVE IInv'
  <1> USE DEF IInv
  <1>1. FlagsOK'
    BY Zenon DEF FlagsOK, OpenRefused, CleanupNative, clocks, store, history
  <1>2. TypeOK'
    BY ZeroTime DEF TypeOK, OpenRefused, CleanupNative, clocks, store, history
  <1>3. LocalsOK'
    BY NoThreadAssumption DEF LocalsOK, OpenRefused, CleanupNative, clocks, store, history
  <1>4. MutexInv'
    BY NoThreadAssumption DEF TypeOK, MutexInv, OpenRefused, CleanupNative, clocks,
       store, history
  <1>5. CustodyInv'
    BY NoThreadAssumption DEF TypeOK, MutexInv, CustodyInv, ActiveInv, up,
       OpenRefused, CleanupNative, clocks, store, history
  <1>6. ActiveInv'
    BY NoThreadAssumption DEF TypeOK, MutexInv, CustodyInv, ActiveInv, up,
       OpenRefused, CleanupNative, clocks, store, history
  <1>7. JournalInv'
    BY NoThreadAssumption DEF TypeOK, MutexInv, CustodyInv, ActiveInv, JournalInv, up,
       OpenRefused, CleanupNative, clocks, store, history
  <1>8. CaseInv'
    BY NoThreadAssumption DEF TypeOK, MutexInv, CustodyInv, ActiveInv, JournalInv,
       CaseInv, up, OpenRefused, CleanupNative, clocks, store, history
  <1>9. PassInv'
    BY NoThreadAssumption DEF TypeOK, MutexInv, CustodyInv, ActiveInv, JournalInv,
       CaseInv, PassInv, up, OpenRefused, CleanupNative, clocks, store, history
  <1> QED
    BY <1>1, <1>2, <1>3, <1>4, <1>5, <1>6, <1>7, <1>8, <1>9

\* A reservation that raised leaves no session, whatever the journal holds.
LEMMA ReserveStep == ASSUME IInv, NEW t \in Threads, Reserve(t) PROVE IInv'
  <1> USE DEF IInv
  <1>1. FlagsOK'
    BY Zenon DEF FlagsOK, Reserve, Recorded, NotRecorded, Goto, clocks, process,
       flags, boundary, history
  <1>2. TypeOK'
    BY DEF TypeOK, LocalsOK, Locals, Reserve, Recorded, NotRecorded, Goto, clocks,
       process, flags, boundary, history
  <1>3. LocalsOK'
    BY NoThreadAssumption DEF LocalsOK, Reserve, Recordable, Recorded, NotRecorded,
       Goto, clocks, process, flags, boundary, history
  <1>4. MutexInv'
    BY NoThreadAssumption DEF TypeOK, MutexInv, Reserve, Recordable, Recorded,
       NotRecorded, Goto, clocks, process, flags, boundary, history
  <1>5. CustodyInv'
    BY NoThreadAssumption DEF TypeOK, MutexInv, CustodyInv, ActiveInv, up, Reserve,
       Recordable, Recorded, NotRecorded, Goto, clocks, process, flags, boundary,
       history
  <1>6. ActiveInv'
    BY NoThreadAssumption DEF TypeOK, MutexInv, CustodyInv, ActiveInv, up, Reserve,
       Recordable, Recorded, NotRecorded, Goto, clocks, process, flags, boundary,
       history
  <1>7. JournalInv'
    BY NoThreadAssumption DEF TypeOK, MutexInv, CustodyInv, ActiveInv, JournalInv, up,
       Reserve, Recordable, Recorded, NotRecorded, Goto, clocks, process, flags,
       boundary, history
  <1>8. CaseInv'
    BY NoThreadAssumption DEF TypeOK, MutexInv, CustodyInv, ActiveInv, JournalInv,
       CaseInv, up, Reserve, Recordable, Recorded, NotRecorded, Goto, clocks, process,
       flags, boundary, history
  <1>9. PassInv'
    BY NoThreadAssumption DEF TypeOK, MutexInv, CustodyInv, ActiveInv, JournalInv,
       CaseInv, PassInv, up, Reserve, Recordable, Recorded, NotRecorded, Goto, clocks,
       process, flags, boundary, history
  <1> QED
    BY <1>1, <1>2, <1>3, <1>4, <1>5, <1>6, <1>7, <1>8, <1>9

\* The tree is only ever forked under a reservation.
LEMMA EstablishStep == ASSUME IInv, NEW t \in Threads, Establish(t) PROVE IInv'
  <1> USE DEF IInv
  <1> USE DEF Establish, clocks, flags, store, history
  <1>1. FlagsOK'
    BY Zenon DEF FlagsOK
  <1>2. TypeOK' /\ sess'.done = sess.done
    BY DEF TypeOK, Seen, Goto, Terminate
  <1>3. active = "reserved" /\ pc[t] \in Holding
    BY DEF ActiveInv
  <1>4. CASE Terminate(t, "establish", "FAILED")
    <2>1. UNCHANGED <<clocks, owner, starts, flags, active, started, passed, journal>>
      OBVIOUS
    <2>2. \/ UNCHANGED <<holders, boundary>>
          \/ child' = "alive" /\ lease' = "owned" /\ holders' = holders \cup {"child"}
      BY DEF boundary
    <2> QED
      BY <1>1, <1>2, <1>3, <1>4, <2>1, <2>2, TerminateStep
  <1>5. CASE /\ child' = "alive" /\ lease' = "owned" /\ holders' = holders \cup {"child"}
             /\ Goto(t, "establish", "running") /\ UNCHANGED <<mutex, loc>>
    <2> USE <1>5 DEF Goto
    <2>1. LocalsOK' /\ MutexInv'
      BY DEF LocalsOK, TypeOK, MutexInv
    <2>2. CustodyInv' /\ ActiveInv'
      BY DEF TypeOK, CustodyInv, ActiveInv, up
    <2>3. JournalInv'
      BY DEF TypeOK, MutexInv, CustodyInv, ActiveInv, JournalInv, up
    <2>4. CaseInv'
      BY <1>2, <1>3 DEF TypeOK, CaseInv
    <2>5. PassInv'
      BY <1>3, <1>2 DEF TypeOK, PassInv
    <2> QED
      BY <1>1, <1>2, <2>1, <2>2, <2>3, <2>4, <2>5
  <1> QED
    BY <1>4, <1>5

\* The handle is issued after a durable RUNNING row, which needs a RESERVED one:
\* no case of the nonce can have been started before.
LEMMA RunningStep == ASSUME IInv, NEW t \in Threads, Running(t) PROVE IInv'
  <1> USE DEF IInv
  <1> USE DEF clocks, process, flags, boundary, history
  <1>0. UNCHANGED <<clocks, process, flags, boundary, history>> /\ sess' = Seen /\ pc[t] = "running"
    BY DEF Running
  <1>1. FlagsOK'
    BY Zenon DEF FlagsOK, Running, Recorded, NotRecorded, store
  <1>2. TypeOK' /\ sess'.done = sess.done
    BY DEF Running, TypeOK, Seen, Goto, Terminate, Release, Recorded, NotRecorded, store
  <1>3. active = "reserved" /\ pc[t] \in Holding
    BY <1>0 DEF ActiveInv
  <1>4. CASE /\ (PeerOK(t) /\ NotRecorded("RUNNING", wall)) \/ (~PeerOK(t) /\ UNCHANGED store)
             /\ Terminate(t, "running", "FAILED") /\ UNCHANGED active
    <2>1. journal' = journal \/ journal'.state = "RUNNING"
      BY <1>4 DEF NotRecorded, store
    <2> QED
      BY <1>0, <1>1, <1>2, <1>3, <1>4, <2>1, TerminateStep
  <1>5. CASE Recorded("RUNNING", wall) /\ active' = "running" /\ Release(t, "running")
    <2>1. /\ LocalsOK' /\ mutex' = NoThread
          /\ \A u \in Threads \ {t} : loc'[u] = loc[u]
      BY <1>5, ReleaseLocals DEF Release
    <2>2. /\ \A u \in Threads \ {t} : pc[u] \notin Holding
          /\ pc[t] = "running" /\ pc'[t] = "idle"
          /\ \A u \in Threads \ {t} : pc'[u] = pc[u]
      BY <1>5 DEF MutexInv, TypeOK, Release, Goto
    <2>3. journal.state = "RESERVED" /\ journal'.state = "RUNNING"
      BY <1>5 DEF Recorded, Recordable, EDGES, TypeOK
    <2>4. MutexInv'
      BY <2>1, <2>2, NoThreadAssumption DEF MutexInv
    <2>5. CustodyInv'
      BY <1>0, <1>3, <2>1, <2>2 DEF CustodyInv, up
    <2>6. ActiveInv'
      BY <1>5, <2>1, <2>2 DEF ActiveInv
    <2>7. JournalInv'
      BY <1>0, <1>5, <2>1, <2>2, <2>3 DEF JournalInv, up
    <2>8. CaseInv'
      BY <1>0, <1>2, <2>1, <2>2, <2>3 DEF CaseInv
    <2>9. PassInv'
      BY <1>0, <1>2, <2>1, <2>2, <2>3 DEF PassInv, CaseInv
    <2> QED
      BY <1>1, <1>2, <2>1, <2>4, <2>5, <2>6, <2>7, <2>8, <2>9
  <1> QED
    BY <1>4, <1>5 DEF Running

\* open_session's exception handler still holds the mutex when it cleans up.
LEMMA AbandonStep == ASSUME IInv, NEW t \in Threads, Abandon(t) PROVE IInv'
  <1> USE DEF IInv
  <1>0. LocalsOK' /\ \A u \in Threads \ {t} : loc'[u] = loc[u]
    BY ReleaseLocals DEF Abandon
  <1>1. FlagsOK'
    BY Zenon DEF FlagsOK, Abandon, Release, Goto, CleanupNative, clocks, store, history
  <1>2. TypeOK'
    BY ZeroTime DEF TypeOK, Abandon, Release, Goto, CleanupNative, clocks, store, history
  <1>3. LocalsOK'
    BY <1>0
  <1>4. MutexInv'
    BY <1>0, NoThreadAssumption DEF TypeOK, MutexInv, Abandon, Release, Goto,
       CleanupNative, clocks, store, history
  <1>5. CustodyInv'
    BY <1>0, NoThreadAssumption DEF TypeOK, MutexInv, CustodyInv, ActiveInv, up,
       Abandon, Release, Goto, CleanupNative, clocks, store, history
  <1>6. ActiveInv'
    BY <1>0, NoThreadAssumption DEF TypeOK, MutexInv, CustodyInv, ActiveInv, up,
       Abandon, Release, Goto, CleanupNative, clocks, store, history
  <1>7. JournalInv'
    BY <1>0, NoThreadAssumption DEF TypeOK, MutexInv, CustodyInv, ActiveInv,
       JournalInv, up, Abandon, Release, Goto, CleanupNative, clocks, store, history
  <1>8. CaseInv'
    BY <1>0, NoThreadAssumption DEF TypeOK, MutexInv, CustodyInv, ActiveInv,
       JournalInv, CaseInv, up, Abandon, Release, Goto, CleanupNative, clocks, store,
       history
  <1>9. PassInv'
    BY <1>0, NoThreadAssumption DEF TypeOK, MutexInv, CustodyInv, ActiveInv,
       JournalInv, CaseInv, PassInv, up, Abandon, Release, Goto, CleanupNative,
       clocks, store, history
  <1> QED
    BY <1>1, <1>2, <1>3, <1>4, <1>5, <1>6, <1>7, <1>8, <1>9

\* A repeated case ends the session instead of reaching the backend.
LEMMA ExecuteFixedStep == ASSUME IInv, NEW t \in Threads, NEW c \in CASES, ExecuteFixed(t, c) PROVE IInv'
  <1> USE DEF IInv
  <1>0. /\ LocalsOK' /\ loc'[t].call = "execute" /\ loc'[t].case = c
        /\ loc'[t].target = "FAILED"
        /\ \A u \in Threads \ {t} : loc'[u] = loc[u]
    <2> DEFINE l == [NoCall EXCEPT !.call = "execute", !.case = c]
    <2>1. l \in Locals /\ l.call = "execute" /\ l.case = c /\ l.target = "FAILED"
      BY ExecuteCallOK
    <2>2. loc' = [loc EXCEPT ![t] = l]
      BY DEF ExecuteFixed
    <2> HIDE DEF l
    <2> QED
      BY <2>1, <2>2, AssignLocals
  <1>1. FlagsOK'
    BY Zenon DEF FlagsOK, ExecuteFixed, clocks, process, flags, boundary, store, history
  <1>2. TypeOK'
    BY ZeroTime DEF TypeOK, ExecuteFixed, clocks, process, flags, boundary, store, history
  <1>3. LocalsOK'
    BY <1>0
  <1>4. MutexInv'
    BY <1>0, NoThreadAssumption DEF TypeOK, MutexInv, ExecuteFixed, clocks, process,
       flags, boundary, store, history
  <1>5. CustodyInv'
    BY <1>0, NoThreadAssumption DEF TypeOK, MutexInv, CustodyInv, ActiveInv, up,
       ExecuteFixed, clocks, process, flags, boundary, store, history
  <1>6. ActiveInv'
    BY <1>0, NoThreadAssumption DEF TypeOK, MutexInv, CustodyInv, ActiveInv, up,
       ExecuteFixed, clocks, process, flags, boundary, store, history
  <1>7. JournalInv'
    BY <1>0, NoThreadAssumption DEF TypeOK, MutexInv, CustodyInv, ActiveInv,
       JournalInv, up, ExecuteFixed, clocks, process, flags, boundary, store, history
  <1>8. CaseInv'
    BY <1>0, NoThreadAssumption DEF TypeOK, MutexInv, CustodyInv, ActiveInv,
       JournalInv, CaseInv, up, ExecuteFixed, clocks, process, flags, boundary, store,
       history
  <1>9. PassInv'
    BY <1>0, NoThreadAssumption DEF TypeOK, MutexInv, CustodyInv, ActiveInv,
       JournalInv, CaseInv, PassInv, up, ExecuteFixed, clocks, process, flags,
       boundary, store, history
  <1> QED
    BY <1>1, <1>2, <1>3, <1>4, <1>5, <1>6, <1>7, <1>8, <1>9

\* The case that reaches the backend is not done, and nobody else is at it.
LEMMA PrecheckStep == ASSUME IInv, NEW t \in Threads, Precheck(t) PROVE IInv'
  <1> USE DEF IInv
  <1> USE DEF Precheck, clocks, process, flags, boundary, store
  <1>1. FlagsOK'
    BY Zenon DEF FlagsOK
  <1>2. TypeOK' /\ sess'.done = sess.done
    BY DEF TypeOK, Seen, Goto, Terminate, CaseInv
  <1>3. active = "running" /\ pc[t] \in Holding
    BY DEF ActiveInv
  <1>4. CASE Terminate(t, "precheck", "FAILED") /\ UNCHANGED started
    BY <1>1, <1>2, <1>3, <1>4, TerminateStep
  <1>5. CASE /\ Goto(t, "precheck", "remote")
             /\ started' = [started EXCEPT ![loc[t].case] = @ + 1]
             /\ UNCHANGED <<mutex, loc>>
    <2> USE <1>5 DEF Goto
    <2>1. LocalsOK' /\ MutexInv'
      BY DEF LocalsOK, TypeOK, MutexInv
    <2>2. CustodyInv' /\ ActiveInv'
      BY DEF TypeOK, CustodyInv, ActiveInv, up
    <2>3. JournalInv'
      BY DEF TypeOK, JournalInv, up
    <2>4. /\ \A u \in Threads \ {t} : pc[u] \notin Holding
          /\ pc[t] = "precheck" /\ pc'[t] = "remote"
          /\ \A u \in Threads \ {t} : pc'[u] = pc[u]
      BY DEF MutexInv, TypeOK
    <2>5. started[loc[t].case] = 0 /\ loc[t].case \in CASES /\ loc[t].case \notin sess.done
      BY <1>3, <2>4 DEF CaseInv, TypeOK
    <2>6. CaseInv'
      BY <1>2, <1>3, <2>4, <2>5 DEF TypeOK, CaseInv, JournalInv
    <2>7. PassInv'
      BY <1>2, <1>3, <2>4 DEF PassInv, TypeOK
    <2> QED
      BY <1>1, <1>2, <2>1, <2>2, <2>3, <2>6, <2>7
  <1> QED
    BY <1>4, <1>5

\* Whatever the backend answers, the case stays counted as started.
LEMMA RemoteStep == ASSUME IInv, NEW t \in Threads, Remote(t) PROVE IInv'
  <1> USE DEF IInv
  <1> USE DEF clocks, process, flags, boundary, store, history
  <1>0. UNCHANGED <<clocks, process, flags, active, sess, boundary, store, history>>
    BY DEF Remote
  <1>1. FlagsOK'
    BY <1>0, Zenon DEF FlagsOK
  <1>2. active = "running" /\ pc[t] \in Holding /\ TypeOK'
    BY <1>0 DEF ActiveInv, Remote, Goto, Terminate, TypeOK
  <1>3. CASE Terminate(t, "remote", "FAILED")
    BY <1>0, <1>1, <1>2, <1>3, TerminateStep
  <1>4. CASE Goto(t, "remote", "postcheck") /\ UNCHANGED mutex
    <2>1. /\ LocalsOK' /\ loc'[t].call = loc[t].call /\ loc'[t].case = loc[t].case
          /\ \A u \in Threads \ {t} : loc'[u] = loc[u]
      BY <1>4, RemoteLocals DEF Goto, TypeOK
    <2>2. /\ \A u \in Threads \ {t} : pc[u] \notin Holding
          /\ pc[t] = "remote" /\ pc'[t] = "postcheck"
          /\ \A u \in Threads \ {t} : pc'[u] = pc[u]
      BY <1>4 DEF MutexInv, TypeOK, Goto
    <2>3. MutexInv'
      BY <1>4, <2>2 DEF MutexInv
    <2>4. CustodyInv' /\ ActiveInv'
      BY <1>0, <1>4, <2>1, <2>2 DEF CustodyInv, ActiveInv, up
    <2>5. JournalInv'
      BY <1>0, <2>1, <2>2 DEF JournalInv, up
    <2>6. CaseInv'
      BY <1>0, <2>1, <2>2 DEF CaseInv
    <2>7. PassInv'
      BY <1>0, <2>1, <2>2 DEF PassInv
    <2> QED
      BY <1>1, <1>2, <2>1, <2>3, <2>4, <2>5, <2>6, <2>7
  <1> QED
    BY <1>3, <1>4 DEF Remote

\* COMPLETED is only asked for when the cases done are all cases, and up to here
\* every case done was passed.
LEMMA PostcheckStep == ASSUME IInv, NEW t \in Threads, Postcheck(t) PROVE IInv'
  <1> USE DEF IInv
  <1> USE DEF clocks, process, flags, boundary, store
  <1> DEFINE done == sess.done \cup {loc[t].case}
  <1>0. UNCHANGED <<clocks, process, flags, active, boundary, store, started>> /\ pc[t] = "postcheck"
    BY DEF Postcheck
  <1>1. FlagsOK'
    BY <1>0, Zenon DEF FlagsOK
  <1>2. active = "running" /\ pc[t] \in Holding /\ loc[t].case \in CASES
    BY <1>0 DEF ActiveInv, CaseInv
  <1>3. /\ \A u \in Threads \ {t} : pc[u] \notin Holding
        /\ ~Terminating
    BY <1>0, <1>2 DEF MutexInv, TypeOK
  <1>4. sess' \in [deadline : Int, lastWall : Times, done : SUBSET CASES]
    BY <1>2 DEF Postcheck, Seen, TypeOK
  <1>5. passed' \in {passed, passed \cup {loc[t].case}}
    BY DEF Postcheck
  <1>6. pc' \in [Threads -> Positions] /\ mutex' \in Threads \cup {NoThread}
    BY DEF Postcheck, TypeOK, Goto, Terminate, Release
  <1>7. TypeOK'
    BY <1>0, <1>2, <1>4, <1>5, <1>6 DEF TypeOK
  <1>8. CASE Terminate(t, "postcheck", "FAILED")
    BY <1>0, <1>1, <1>2, <1>5, <1>7, <1>8, TerminateStep
  <1>9. CASE /\ Terminate(t, "postcheck", "COMPLETED")
             /\ passed' = passed \cup {loc[t].case} /\ done = CASES
    <2>1. passed' = CASES
      BY <1>2, <1>3, <1>9 DEF PassInv, TypeOK
    <2> QED
      BY <1>0, <1>1, <1>2, <1>5, <1>7, <1>9, <2>1, TerminateStep
  <1>10. CASE /\ Release(t, "postcheck") /\ sess' = [Seen EXCEPT !.done = done]
              /\ passed' = passed \cup {loc[t].case}
    <2>1. /\ LocalsOK' /\ mutex' = NoThread
          /\ \A u \in Threads \ {t} : loc'[u] = loc[u]
      BY <1>10, ReleaseLocals DEF Release
    <2>2. pc'[t] = "idle" /\ \A u \in Threads \ {t} : pc'[u] = pc[u]
      BY <1>10 DEF TypeOK, Release, Goto
    <2>3. sess'.done = sess.done \cup {loc[t].case}
      BY <1>10 DEF Seen, TypeOK
    <2>4. MutexInv'
      BY <1>3, <2>1, <2>2, NoThreadAssumption DEF MutexInv
    <2>5. CustodyInv'
      BY <1>0, <1>2, <1>3, <2>1, <2>2 DEF CustodyInv, up
    <2>6. ActiveInv'
      BY <1>0, <1>2, <1>3, <2>1, <2>2 DEF ActiveInv
    <2>7. JournalInv'
      BY <1>0, <2>1, <2>2 DEF JournalInv, up
    <2>8. CaseInv'
      BY <1>0, <1>3, <2>1, <2>2, <2>3 DEF CaseInv
    <2>9. PassInv'
      BY <1>0, <1>2, <1>3, <1>10, <2>1, <2>2, <2>3 DEF PassInv, TypeOK
    <2> QED
      BY <1>1, <1>7, <2>1, <2>4, <2>5, <2>6, <2>7, <2>8, <2>9
  <1> QED
    BY <1>8, <1>9, <1>10 DEF Postcheck

\* cancel passes the handle check without the mutex.
LEMMA CancelStep == ASSUME IInv, NEW t \in Threads, Cancel(t) PROVE IInv'
  <1> USE DEF IInv
  <1>1. FlagsOK'
    BY Zenon DEF FlagsOK, Cancel, Goto, clocks, process, flags, boundary, store, history
  <1>2. TypeOK'
    BY ZeroTime DEF TypeOK, Cancel, Goto, clocks, process, flags, boundary, store, history
  <1>3. LocalsOK'
    BY NoThreadAssumption DEF LocalsOK, Cancel, Goto, clocks, process, flags,
       boundary, store, history
  <1>4. MutexInv'
    BY NoThreadAssumption DEF TypeOK, MutexInv, Cancel, Goto, clocks, process, flags,
       boundary, store, history
  <1>5. CustodyInv'
    BY NoThreadAssumption DEF TypeOK, MutexInv, CustodyInv, ActiveInv, up, Cancel,
       Goto, clocks, process, flags, boundary, store, history
  <1>6. ActiveInv'
    BY NoThreadAssumption DEF TypeOK, MutexInv, CustodyInv, ActiveInv, up, Cancel,
       Goto, clocks, process, flags, boundary, store, history
  <1>7. JournalInv'
    BY NoThreadAssumption DEF TypeOK, MutexInv, CustodyInv, ActiveInv, JournalInv, up,
       Cancel, Goto, clocks, process, flags, boundary, store, history
  <1>8. CaseInv'
    BY NoThreadAssumption DEF TypeOK, MutexInv, CustodyInv, ActiveInv, JournalInv,
       CaseInv, up, Cancel, Goto, clocks, process, flags, boundary, store, history
  <1>9. PassInv'
    BY NoThreadAssumption DEF TypeOK, MutexInv, CustodyInv, ActiveInv, JournalInv,
       CaseInv, PassInv, up, Cancel, Goto, clocks, process, flags, boundary, store,
       history
  <1> QED
    BY <1>1, <1>2, <1>3, <1>4, <1>5, <1>6, <1>7, <1>8, <1>9

\* ... and kills the tree without it.
LEMMA InterruptStep == ASSUME IInv, NEW t \in Threads, Interrupt(t) PROVE IInv'
  <1> USE DEF IInv
  <1>1. FlagsOK'
    BY Zenon DEF FlagsOK, Interrupt, Goto, clocks, store, history
  <1>2. TypeOK'
    BY ZeroTime DEF TypeOK, Interrupt, Goto, clocks, store, history
  <1>3. LocalsOK'
    BY NoThreadAssumption DEF LocalsOK, Interrupt, Goto, clocks, store, history
  <1>4. MutexInv'
    BY NoThreadAssumption DEF TypeOK, MutexInv, Interrupt, Goto, clocks, store, history
  <1>5. CustodyInv'
    BY NoThreadAssumption DEF TypeOK, MutexInv, CustodyInv, ActiveInv, up, Interrupt,
       Goto, clocks, store, history
  <1>6. ActiveInv'
    BY NoThreadAssumption DEF TypeOK, MutexInv, CustodyInv, ActiveInv, up, Interrupt,
       Goto, clocks, store, history
  <1>7. JournalInv'
    BY NoThreadAssumption DEF TypeOK, MutexInv, CustodyInv, ActiveInv, JournalInv, up,
       Interrupt, Goto, clocks, store, history
  <1>8. CaseInv'
    BY NoThreadAssumption DEF TypeOK, MutexInv, CustodyInv, ActiveInv, JournalInv,
       CaseInv, up, Interrupt, Goto, clocks, store, history
  <1>9. PassInv'
    BY NoThreadAssumption DEF TypeOK, MutexInv, CustodyInv, ActiveInv, JournalInv,
       CaseInv, PassInv, up, Interrupt, Goto, clocks, store, history
  <1> QED
    BY <1>1, <1>2, <1>3, <1>4, <1>5, <1>6, <1>7, <1>8, <1>9

\* With the mutex free, a session that is still there has an issued handle.
LEMMA CancelAcquireStep == ASSUME IInv, NEW t \in Threads, CancelAcquire(t) PROVE IInv'
  <1> USE DEF IInv
  <1>0. /\ LocalsOK'
        /\ pc'[t] = "terminate" => loc'[t].call = "cancel" /\ loc'[t].target = "CANCELLED"
        /\ \A u \in Threads \ {t} : loc'[u] = loc[u]
    BY CancelCallOK, AssignLocals DEF CancelAcquire, Goto, TypeOK, LocalsOK
  <1>1. FlagsOK'
    BY Zenon DEF FlagsOK, CancelAcquire, Goto, clocks, process, flags, boundary,
       store, history
  <1>2. TypeOK'
    BY ZeroTime DEF TypeOK, CancelAcquire, Goto, clocks, process, flags, boundary,
       store, history
  <1>3. LocalsOK'
    BY <1>0
  <1>4. MutexInv'
    BY <1>0, NoThreadAssumption DEF TypeOK, MutexInv, CancelAcquire, Goto, clocks,
       process, flags, boundary, store, history
  <1>5. CustodyInv'
    BY <1>0, NoThreadAssumption DEF TypeOK, MutexInv, CustodyInv, ActiveInv, up,
       CancelAcquire, Goto, clocks, process, flags, boundary, store, history
  <1>6. ActiveInv'
    BY <1>0, NoThreadAssumption DEF TypeOK, MutexInv, CustodyInv, ActiveInv, up,
       CancelAcquire, Goto, clocks, process, flags, boundary, store, history
  <1>7. JournalInv'
    BY <1>0, NoThreadAssumption DEF TypeOK, MutexInv, CustodyInv, ActiveInv,
       JournalInv, up, CancelAcquire, Goto, clocks, process, flags, boundary, store,
       history
  <1>8. CaseInv'
    BY <1>0, NoThreadAssumption DEF TypeOK, MutexInv, CustodyInv, ActiveInv,
       JournalInv, CaseInv, up, CancelAcquire, Goto, clocks, process, flags, boundary,
       store, history
  <1>9. PassInv'
    BY <1>0, NoThreadAssumption DEF TypeOK, MutexInv, CustodyInv, ActiveInv,
       JournalInv, CaseInv, PassInv, up, CancelAcquire, Goto, clocks, process, flags,
       boundary, store, history
  <1> QED
    BY <1>1, <1>2, <1>3, <1>4, <1>5, <1>6, <1>7, <1>8, <1>9

\* close sets the flag that keeps a later open_session out.
LEMMA CloseStep == ASSUME IInv, NEW t \in Threads, Close(t) PROVE IInv'
  <1> USE DEF IInv
  <1>1. FlagsOK'
    BY Zenon DEF FlagsOK, Close, Goto, clocks, process, boundary, store, history
  <1>2. TypeOK'
    BY ZeroTime DEF TypeOK, Close, Goto, clocks, process, boundary, store, history
  <1>3. LocalsOK'
    BY NoThreadAssumption DEF LocalsOK, Close, Goto, clocks, process, boundary, store,
       history
  <1>4. MutexInv'
    BY NoThreadAssumption DEF TypeOK, MutexInv, Close, Goto, clocks, process,
       boundary, store, history
  <1>5. CustodyInv'
    BY NoThreadAssumption DEF TypeOK, MutexInv, CustodyInv, ActiveInv, up, Close,
       Goto, clocks, process, boundary, store, history
  <1>6. ActiveInv'
    BY NoThreadAssumption DEF TypeOK, MutexInv, CustodyInv, ActiveInv, up, Close,
       Goto, clocks, process, boundary, store, history
  <1>7. JournalInv'
    BY NoThreadAssumption DEF TypeOK, MutexInv, CustodyInv, ActiveInv, JournalInv, up,
       Close, Goto, clocks, process, boundary, store, history
  <1>8. CaseInv'
    BY NoThreadAssumption DEF TypeOK, MutexInv, CustodyInv, ActiveInv, JournalInv,
       CaseInv, up, Close, Goto, clocks, process, boundary, store, history
  <1>9. PassInv'
    BY NoThreadAssumption DEF TypeOK, MutexInv, CustodyInv, ActiveInv, JournalInv,
       CaseInv, PassInv, up, Close, Goto, clocks, process, boundary, store, history
  <1> QED
    BY <1>1, <1>2, <1>3, <1>4, <1>5, <1>6, <1>7, <1>8, <1>9

\* close goes to cleanup without the mutex only when no session is left.
LEMMA CloseAcquireStep == ASSUME IInv, NEW t \in Threads, CloseAcquire(t) PROVE IInv'
  <1> USE DEF IInv
  <1>0. /\ LocalsOK'
        /\ pc'[t] = "terminate" => loc'[t].call = "close" /\ loc'[t].target = "FAILED"
        /\ \A u \in Threads \ {t} : loc'[u] = loc[u]
    BY CloseCallOK, AssignLocals DEF CloseAcquire, Goto, TypeOK, LocalsOK
  <1>1. FlagsOK'
    BY Zenon DEF FlagsOK, CloseAcquire, Goto, clocks, process, flags, boundary, store,
       history
  <1>2. TypeOK'
    BY ZeroTime DEF TypeOK, CloseAcquire, Goto, clocks, process, flags, boundary,
       store, history
  <1>3. LocalsOK'
    BY <1>0
  <1>4. MutexInv'
    BY <1>0, NoThreadAssumption DEF TypeOK, MutexInv, CloseAcquire, Goto, clocks,
       process, flags, boundary, store, history
  <1>5. CustodyInv'
    BY <1>0, NoThreadAssumption DEF TypeOK, MutexInv, CustodyInv, ActiveInv, up,
       CloseAcquire, Goto, clocks, process, flags, boundary, store, history
  <1>6. ActiveInv'
    BY <1>0, NoThreadAssumption DEF TypeOK, MutexInv, CustodyInv, ActiveInv, up,
       CloseAcquire, Goto, clocks, process, flags, boundary, store, history
  <1>7. JournalInv'
    BY <1>0, NoThreadAssumption DEF TypeOK, MutexInv, CustodyInv, ActiveInv,
       JournalInv, up, CloseAcquire, Goto, clocks, process, flags, boundary, store,
       history
  <1>8. CaseInv'
    BY <1>0, NoThreadAssumption DEF TypeOK, MutexInv, CustodyInv, ActiveInv,
       JournalInv, CaseInv, up, CloseAcquire, Goto, clocks, process, flags, boundary,
       store, history
  <1>9. PassInv'
    BY <1>0, NoThreadAssumption DEF TypeOK, MutexInv, CustodyInv, ActiveInv,
       JournalInv, CaseInv, PassInv, up, CloseAcquire, Goto, clocks, process, flags,
       boundary, store, history
  <1> QED
    BY <1>1, <1>2, <1>3, <1>4, <1>5, <1>6, <1>7, <1>8, <1>9

\* Nobody can hold the mutex here: no session, and none can be opened.
LEMMA ClosingStep == ASSUME IInv, NEW t \in Threads, Closing(t) PROVE IInv'
  <1> USE DEF IInv
  <1>1. FlagsOK'
    BY Zenon DEF FlagsOK, Closing, Goto, CleanupNative, clocks, store, history
  <1>2. TypeOK'
    BY ZeroTime DEF TypeOK, Closing, Goto, CleanupNative, clocks, store, history
  <1>3. LocalsOK'
    BY NoThreadAssumption DEF LocalsOK, Closing, Goto, CleanupNative, clocks, store, history
  <1>4. MutexInv'
    BY NoThreadAssumption DEF TypeOK, MutexInv, Closing, Goto, CleanupNative, clocks,
       store, history
  <1>5. CustodyInv'
    BY NoThreadAssumption DEF TypeOK, MutexInv, CustodyInv, ActiveInv, up, Closing,
       Goto, CleanupNative, clocks, store, history
  <1>6. ActiveInv'
    BY NoThreadAssumption DEF TypeOK, MutexInv, CustodyInv, ActiveInv, up, Closing,
       Goto, CleanupNative, clocks, store, history
  <1>7. JournalInv'
    BY NoThreadAssumption DEF TypeOK, MutexInv, CustodyInv, ActiveInv, JournalInv, up,
       Closing, Goto, CleanupNative, clocks, store, history
  <1>8. CaseInv'
    BY NoThreadAssumption DEF TypeOK, MutexInv, CustodyInv, ActiveInv, JournalInv,
       CaseInv, up, Closing, Goto, CleanupNative, clocks, store, history
  <1>9. PassInv'
    BY NoThreadAssumption DEF TypeOK, MutexInv, CustodyInv, ActiveInv, JournalInv,
       CaseInv, PassInv, up, Closing, Goto, CleanupNative, clocks, store, history
  <1> QED
    BY <1>1, <1>2, <1>3, <1>4, <1>5, <1>6, <1>7, <1>8, <1>9

\* _terminate may only weaken its target, never to COMPLETED.
LEMMA InvalidateStep == ASSUME IInv, NEW t \in Threads, Invalidate(t) PROVE IInv'
  <1> USE DEF IInv
  <1>0. /\ LocalsOK' /\ loc'[t].call = loc[t].call
        /\ loc'[t].target \in {loc[t].target, "EXPIRED", "FAILED"}
        /\ \A u \in Threads \ {t} : loc'[u] = loc[u]
    BY InvalidateLocals
  <1>p. /\ pc[t] = "terminate" /\ pc'[t] = "cleanup" /\ active' = "none"
        /\ \A u \in Threads \ {t} : pc'[u] = pc[u]
        /\ UNCHANGED <<clocks, process, mutex, flags, sess, boundary, store, history>>
    BY DEF Invalidate, Goto, TypeOK
  <1>1. FlagsOK'
    BY Zenon DEF FlagsOK, Invalidate, Goto, clocks, process, flags, boundary, store, history
  <1>2. TypeOK'
    BY ZeroTime DEF TypeOK, Invalidate, Goto, clocks, process, flags, boundary, store,
       history
  <1>3. LocalsOK'
    BY <1>0
  <1>4. MutexInv'
    BY <1>0, NoThreadAssumption DEF TypeOK, MutexInv, Invalidate, Goto, clocks,
       process, flags, boundary, store, history
  <1>5. CustodyInv'
    BY <1>0, <1>p DEF CustodyInv, MutexInv, TypeOK, up, process, flags
  <1>6. ActiveInv'
    BY <1>0, NoThreadAssumption DEF TypeOK, MutexInv, CustodyInv, ActiveInv, up,
       Invalidate, Goto, clocks, process, flags, boundary, store, history
  <1>7. JournalInv'
    BY <1>0, NoThreadAssumption DEF TypeOK, MutexInv, CustodyInv, ActiveInv,
       JournalInv, up, Invalidate, Goto, clocks, process, flags, boundary, store,
       history
  <1>8. CaseInv'
    BY <1>0, NoThreadAssumption DEF TypeOK, MutexInv, CustodyInv, ActiveInv,
       JournalInv, CaseInv, up, Invalidate, Goto, clocks, process, flags, boundary,
       store, history
  <1>9. PassInv'
    BY <1>0, <1>p DEF PassInv, history, store
  <1> QED
    BY <1>1, <1>2, <1>3, <1>4, <1>5, <1>6, <1>7, <1>8, <1>9

\* A cleanup that counts as proven left no tree alive.
LEMMA CleanupStep == ASSUME IInv, NEW t \in Threads, Cleanup(t) PROVE IInv'
  <1> USE DEF IInv
  <1>0. /\ LocalsOK' /\ loc'[t].call = loc[t].call /\ loc'[t].target = loc[t].target
        /\ ~loc'[t].failed => lease' # "owned" /\ (lease = "owned" => child' = "dead")
        /\ lease # "owned" => lease' = lease /\ child' = child
        /\ \A u \in Threads \ {t} : loc'[u] = loc[u]
    BY CleanupLocals
  <1>1. FlagsOK'
    BY Zenon DEF FlagsOK, Cleanup, Goto, clocks, store, history
  <1>2. TypeOK'
    BY ZeroTime DEF TypeOK, Cleanup, Goto, clocks, store, history
  <1>3. LocalsOK'
    BY <1>0
  <1>4. MutexInv'
    BY <1>0, NoThreadAssumption DEF TypeOK, MutexInv, Cleanup, Goto, clocks, store, history
  <1>5. CustodyInv'
    BY <1>0, NoThreadAssumption DEF TypeOK, MutexInv, CustodyInv, ActiveInv, up,
       Cleanup, Goto, clocks, store, history
  <1>6. ActiveInv'
    BY <1>0, NoThreadAssumption DEF TypeOK, MutexInv, CustodyInv, ActiveInv, up,
       Cleanup, Goto, clocks, store, history
  <1>7. JournalInv'
    BY <1>0, NoThreadAssumption DEF TypeOK, MutexInv, CustodyInv, ActiveInv,
       JournalInv, up, Cleanup, Goto, clocks, store, history
  <1>8. CaseInv'
    BY <1>0, NoThreadAssumption DEF TypeOK, MutexInv, CustodyInv, ActiveInv,
       JournalInv, CaseInv, up, Cleanup, Goto, clocks, store, history
  <1>9. PassInv'
    BY <1>0, NoThreadAssumption DEF TypeOK, MutexInv, CustodyInv, ActiveInv,
       JournalInv, CaseInv, PassInv, up, Cleanup, Goto, clocks, store, history
  <1> QED
    BY <1>1, <1>2, <1>3, <1>4, <1>5, <1>6, <1>7, <1>8, <1>9

\* A terminal row is written for a dead tree.
LEMMA RecordTerminalStep == ASSUME IInv, NEW t \in Threads, RecordTerminal(t) PROVE IInv'
  <1> USE DEF IInv
  <1> USE DEF clocks, process, flags, boundary, history
  <1>0. /\ UNCHANGED <<clocks, process, flags, active, sess, boundary, history>>
        /\ pc[t] = "record" /\ active = "none" /\ mutex = t
        /\ \A u \in Threads \ {t} : pc[u] \notin Holding
    BY DEF RecordTerminal, ActiveInv, MutexInv
  <1>1. FlagsOK'
    BY Zenon DEF FlagsOK, RecordTerminal, Recorded, NotRecorded, store
  <1>2. \/ journal' = journal
        \/ /\ ~loc[t].failed
           /\ Recordable(loc[t].target, loc[t].at)
           /\ journal' = [state |-> loc[t].target, at |-> loc[t].at]
    BY DEF RecordTerminal, Recorded, NotRecorded, store
  <1>3. loc[t].target \in TERMINAL /\ loc[t].at \in Times /\ loc[t] \in Locals
    BY DEF LocalsOK, Locals
  <1>4. journal' = journal \/ (journal'.state \in TERMINAL /\ ~loc[t].failed)
    BY <1>2, <1>3
  <1>5. /\ LocalsOK' /\ \A u \in Threads \ {t} : loc'[u] = loc[u]
        /\ loc'[t].call = "close" => closed
    <2>1. CASE loc' = loc
      BY <1>0, <2>1 DEF LocalsOK, CustodyInv
    <2>2. CASE loc' = [loc EXCEPT ![t] = NoCall]
      BY <2>2, NoCallOK, AssignLocals
    <2> QED
      BY <2>1, <2>2 DEF RecordTerminal
  <1>6. /\ pc' \in [Threads -> Positions] /\ \A u \in Threads \ {t} : pc'[u] = pc[u]
        /\ \/ pc'[t] = "abandon" /\ mutex' = t
           \/ pc'[t] \in {"idle", "closing"} /\ mutex' = NoThread
        /\ pc'[t] = "closing" => closed
    BY <1>0 DEF RecordTerminal, Goto, TypeOK, CustodyInv
  <1>7. TypeOK'
    BY <1>0, <1>2, <1>3, <1>6 DEF TypeOK
  <1>8. MutexInv'
    BY <1>0, <1>6, NoThreadAssumption DEF MutexInv
  <1>9. CustodyInv'
    BY <1>0, <1>5, <1>6 DEF CustodyInv, up
  <1>10. ActiveInv'
    BY <1>0, <1>6 DEF ActiveInv
  <1>11. JournalInv'
    BY <1>0, <1>4, <1>5, <1>6 DEF JournalInv, up
  <1>12. CaseInv'
    BY <1>0, <1>4, <1>5, <1>6 DEF CaseInv
  <1>13. PassInv'
    <2>1. journal'.state = "COMPLETED" => passed' = CASES /\ journal'.at < NotAfter
      BY <1>0, <1>2, <1>3 DEF PassInv, Recordable
    <2> QED
      BY <1>0, <1>5, <1>6, <2>1 DEF PassInv
  <1> QED
    BY <1>1, <1>5, <1>7, <1>8, <1>9, <1>10, <1>11, <1>12, <1>13

\* A dead process holds nothing but its tree.
LEMMA CrashStep == ASSUME IInv, Crash PROVE IInv'
  <1> USE DEF IInv
  <1>1. FlagsOK'
    BY Zenon DEF FlagsOK, Crash, clocks, flags, boundary, store, history
  <1>2. TypeOK'
    BY ZeroTime DEF TypeOK, Crash, clocks, flags, boundary, store, history
  <1>3. LocalsOK'
    BY NoCallOK DEF Crash, LocalsOK
  <1>4. MutexInv'
    BY NoThreadAssumption DEF TypeOK, MutexInv, Crash, clocks, flags, boundary, store,
       history
  <1>5. CustodyInv'
    BY NoThreadAssumption DEF TypeOK, MutexInv, CustodyInv, ActiveInv, up, Crash,
       clocks, flags, boundary, store, history
  <1>6. ActiveInv'
    BY NoThreadAssumption DEF TypeOK, MutexInv, CustodyInv, ActiveInv, up, Crash,
       clocks, flags, boundary, store, history
  <1>7. JournalInv'
    BY NoThreadAssumption DEF TypeOK, MutexInv, CustodyInv, ActiveInv, JournalInv, up,
       Crash, clocks, flags, boundary, store, history
  <1>8. CaseInv'
    BY NoThreadAssumption DEF TypeOK, MutexInv, CustodyInv, ActiveInv, JournalInv,
       CaseInv, up, Crash, clocks, flags, boundary, store, history
  <1>9. PassInv'
    BY NoThreadAssumption DEF TypeOK, MutexInv, CustodyInv, ActiveInv, JournalInv,
       CaseInv, PassInv, up, Crash, clocks, flags, boundary, store, history
  <1> QED
    BY <1>1, <1>2, <1>3, <1>4, <1>5, <1>6, <1>7, <1>8, <1>9

\* The tree may die at any time.
LEMMA ChildDiesStep == ASSUME IInv, ChildDies PROVE IInv'
  <1> USE DEF IInv
  <1>1. FlagsOK'
    BY Zenon DEF FlagsOK, ChildDies, clocks, flags, store, history
  <1>2. TypeOK'
    BY ZeroTime DEF TypeOK, ChildDies, clocks, flags, store, history
  <1>3. LocalsOK'
    BY NoThreadAssumption DEF LocalsOK, ChildDies, clocks, flags, store, history
  <1>4. MutexInv'
    BY NoThreadAssumption DEF TypeOK, MutexInv, ChildDies, clocks, flags, store, history
  <1>5. CustodyInv'
    BY NoThreadAssumption DEF TypeOK, MutexInv, CustodyInv, ActiveInv, up, ChildDies,
       clocks, flags, store, history
  <1>6. ActiveInv'
    BY NoThreadAssumption DEF TypeOK, MutexInv, CustodyInv, ActiveInv, up, ChildDies,
       clocks, flags, store, history
  <1>7. JournalInv'
    BY NoThreadAssumption DEF TypeOK, MutexInv, CustodyInv, ActiveInv, JournalInv, up,
       ChildDies, clocks, flags, store, history
  <1>8. CaseInv'
    BY NoThreadAssumption DEF TypeOK, MutexInv, CustodyInv, ActiveInv, JournalInv,
       CaseInv, up, ChildDies, clocks, flags, store, history
  <1>9. PassInv'
    BY NoThreadAssumption DEF TypeOK, MutexInv, CustodyInv, ActiveInv, JournalInv,
       CaseInv, PassInv, up, ChildDies, clocks, flags, store, history
  <1> QED
    BY <1>1, <1>2, <1>3, <1>4, <1>5, <1>6, <1>7, <1>8, <1>9

\* Neither clock is part of the invariant.
LEMMA TickStep == ASSUME IInv, Tick PROVE IInv'
  <1> USE DEF IInv
  <1>1. FlagsOK'
    BY Zenon DEF FlagsOK, Tick, process, flags, boundary, store, history
  <1>2. TypeOK'
    BY TimeAssumption DEF TypeOK, Tick, Times, process, flags, boundary, store, history
  <1>3. LocalsOK'
    BY NoThreadAssumption DEF LocalsOK, Tick, process, flags, boundary, store, history
  <1>4. MutexInv'
    BY NoThreadAssumption DEF TypeOK, MutexInv, Tick, process, flags, boundary, store,
       history
  <1>5. CustodyInv'
    BY NoThreadAssumption DEF TypeOK, MutexInv, CustodyInv, ActiveInv, up, Tick,
       process, flags, boundary, store, history
  <1>6. ActiveInv'
    BY NoThreadAssumption DEF TypeOK, MutexInv, CustodyInv, ActiveInv, up, Tick,
       process, flags, boundary, store, history
  <1>7. JournalInv'
    BY NoThreadAssumption DEF TypeOK, MutexInv, CustodyInv, ActiveInv, JournalInv, up,
       Tick, process, flags, boundary, store, history
  <1>8. CaseInv'
    BY NoThreadAssumption DEF TypeOK, MutexInv, CustodyInv, ActiveInv, JournalInv,
       CaseInv, up, Tick, process, flags, boundary, store, history
  <1>9. PassInv'
    BY NoThreadAssumption DEF TypeOK, MutexInv, CustodyInv, ActiveInv, JournalInv,
       CaseInv, PassInv, up, Tick, process, flags, boundary, store, history
  <1> QED
    BY <1>1, <1>2, <1>3, <1>4, <1>5, <1>6, <1>7, <1>8, <1>9

-----------------------------------------------------------------------------
(* The theorems. *)

\* The first process has not started yet, and the nonce is free.
LEMMA InitIInv == Init => IInv
  <1> SUFFICES ASSUME Init PROVE IInv
    OBVIOUS
  <1> USE DEF Init
  <1>1. FlagsOK
    BY Zenon DEF FlagsOK
  <1>2. TypeOK
    BY ZeroTime DEF TypeOK, NoSession
  <1>3. LocalsOK
    BY NoCallOK DEF LocalsOK
  <1>4. MutexInv /\ CustodyInv /\ ActiveInv /\ JournalInv /\ CaseInv /\ PassInv
    BY NoThreadAssumption DEF MutexInv, CustodyInv, ActiveInv, JournalInv, CaseInv,
       PassInv, up
  <1> QED
    BY <1>1, <1>2, <1>3, <1>4 DEF IInv

\* A step that changes nothing.
LEMMA StutterStep == IInv /\ UNCHANGED vars => IInv'
  <1> SUFFICES ASSUME IInv, UNCHANGED vars PROVE IInv'
    OBVIOUS
  <1> USE DEF IInv, vars, clocks, process, flags, boundary, store, history
  <1>1. FlagsOK'
    BY Zenon DEF FlagsOK
  <1>2. TypeOK' /\ LocalsOK' /\ MutexInv' /\ CustodyInv' /\ ActiveInv'
    BY DEF TypeOK, LocalsOK, MutexInv, CustodyInv, ActiveInv, up
  <1>3. JournalInv' /\ CaseInv' /\ PassInv'
    BY DEF JournalInv, CaseInv, PassInv, up
  <1> QED
    BY <1>1, <1>2, <1>3

\* Every step of the process, the kernel and the clock keeps the invariant.
LEMMA NextIInv == IInv /\ [Next]_vars => IInv'
  <1> SUFFICES ASSUME IInv, [Next]_vars PROVE IInv'
    OBVIOUS
  <1>1. ASSUME NEW t \in Threads, Step(t) PROVE IInv'
    BY <1>1, ReserveStep, EstablishStep, RunningStep, AbandonStep, PrecheckStep, RemoteStep,
       PostcheckStep, InterruptStep, CancelAcquireStep, CloseAcquireStep, ClosingStep,
       InvalidateStep, CleanupStep, RecordTerminalStep DEF Step
  <1>2. ASSUME NEW t \in Threads, NEW c \in CASES, ExecuteFixed(t, c) PROVE IInv'
    BY <1>2, ExecuteFixedStep
  <1>3. ASSUME NEW t \in Threads,
               Start(t) \/ OpenSession(t) \/ OpenRefused(t) \/ Cancel(t) \/ Close(t)
        PROVE  IInv'
    BY <1>3, StartStep, OpenSessionStep, OpenRefusedStep, CancelStep, CloseStep
  <1>4. CASE Crash \/ ChildDies \/ Tick
    BY <1>4, CrashStep, ChildDiesStep, TickStep
  <1>5. CASE UNCHANGED vars
    BY <1>5, StutterStep
  <1> QED
    BY <1>1, <1>2, <1>3, <1>4, <1>5 DEF Next

\* The supervisor satisfies the inductive invariant over all calls, races, crashes
\* and restarts.
THEOREM Invariance == Spec => []IInv
  BY InitIInv, NextIInv, PTL DEF Spec

\* No two threads are ever at a journal row, and none writes one after close() or
\* a refused open_session() gave session.lock back - although close() cleans up
\* outside the mutex.
THEOREM RecordsAreSerial == Spec => []JournalSerial
  <1>1. IInv => JournalSerial
    BY NoThreadAssumption DEF IInv, TypeOK, MutexInv, CustodyInv, JournalSerial, up
  <1> QED
    BY <1>1, Invariance, PTL

\* No confined tree without a durable reservation and no request at the backend
\* unless the nonce is RUNNING.
THEOREM NoWorkWithoutJournal == Spec => []WorkNeedsJournal
  <1>1. IInv => WorkNeedsJournal
    BY DEF IInv, ActiveInv, JournalInv, WorkNeedsJournal
  <1> QED
    BY <1>1, Invariance, PTL

\* _terminate and its journal.terminal call: a terminal row, ambiguous or not,
\* means that no tree, handle or operation of the session is left.
THEOREM TerminalIsQuiet == Spec => []TerminalMeansQuiet
  <1>1. IInv => TerminalMeansQuiet
    BY DEF IInv, TypeOK, ActiveInv, JournalInv, TerminalMeansQuiet
  <1> QED
    BY <1>1, Invariance, PTL

\* execute_fixed never sends a case of a nonce twice, over any number of restarts
\* on the same binding.
THEOREM NoCaseTwice == Spec => []EachCaseOnce
  <1>1. IInv => EachCaseOnce
    BY DEF IInv, CaseInv, EachCaseOnce
  <1> QED
    BY <1>1, Invariance, PTL

\* COMPLETED is recorded only after an accepted PASS for every case, in the window.
THEOREM CompletedIsEarned == Spec => []CompletedMeansAllPassed
  <1>1. IInv => CompletedMeansAllPassed
    BY DEF IInv, PassInv, CompletedMeansAllPassed
  <1> QED
    BY <1>1, Invariance, PTL
============================================================================
