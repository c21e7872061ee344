--------------------------- MODULE ReplayJournal ---------------------------
(***************************************************************************)
(* The append-only replay journal of live_replay_store.py, as a set of     *)
(* processes that share one journal file.  Each process owns one _Journal  *)
(* instance (with its private _poisoned flag) and may die and be restarted *)
(* at any point; the machine may lose power at any point.                  *)
(*                                                                         *)
(* The file is the sequence of complete rows it holds, plus a tail that    *)
(* says whether bytes of an incomplete row follow them.  `synced' counts   *)
(* the rows that an fsync has put on the disk: power loss keeps at least   *)
(* those.  A digest is collision free, so it is the row's own fields.      *)
(***************************************************************************)
EXTENDS Integers, Sequences, ReplayStates

CONSTANTS
  Procs,      \* processes, one _Journal instance each
  Bindings,   \* the session bindings that may be presented
  KeyOf,      \* KeyOf[b]: the replay key (tenantId, nonce) of a binding
  NotBefore,  \* NotBefore[b], NotAfter[b]: the half-open validity window
  NotAfter,
  MaxTime,    \* the clock readings a caller may pass are 0..MaxTime
  MaxRecords, \* MAX_RECORDS
  NoProc      \* "nobody holds the flock"

Times == 0..MaxTime

ASSUME TimeAssumption == MaxTime \in Nat
ASSUME RecordsAssumption == MaxRecords \in Nat
ASSUME WindowAssumption ==
  /\ NotBefore \in [Bindings -> Times]
  /\ NotAfter \in [Bindings -> Times]
ASSUME KeyAssumption == DOMAIN KeyOf = Bindings
ASSUME BindingsAssumption == Bindings # {}
ASSUME NoProcAssumption == NoProc \notin Procs

Keys == {KeyOf[b] : b \in Bindings}

Digests == {<<>>} \cup (Nat \X Bindings \X States \X Times)
ZERO == <<>>

Row == [sequence : Nat, previous : Digests, binding : Bindings,
        state : States, observedAt : Times]

\* canonical_digest of a row; the link to the row before it is left out.
Digest(r) == <<r.sequence, r.binding, r.state, r.observedAt>>

\* The key a row is about: replay_key of its binding.
RowKey(r) == KeyOf[r.binding]

(***************************************************************************)
(* parse_journal: the value of `latest' for key k after n rows, as a       *)
(* relation, and the checks every row has to pass.                         *)
(***************************************************************************)
NoRow(j, n, k) == \A i \in 1..n : RowKey(j[i]) # k

IsLatest(j, n, k, i) ==
  /\ i \in 1..n
  /\ RowKey(j[i]) = k
  /\ \A m \in (i + 1)..n : RowKey(j[m]) # k

PreviousDigest(j, n) == IF n = 0 THEN ZERO ELSE Digest(j[n])

RowAccepted(j, i) ==
  /\ j[i].sequence = i
  /\ j[i].previous = PreviousDigest(j, i - 1)
  /\ \/ /\ NoRow(j, i - 1, RowKey(j[i]))
        /\ j[i].state = "RESERVED"
     \/ \E m \in 1..(i - 1) :
          /\ IsLatest(j, i - 1, RowKey(j[i]), m)
          /\ j[i].state \in EDGES[j[m].state]
          /\ j[i].binding = j[m].binding
          /\ j[i].observedAt >= j[m].observedAt

parse_journal(j, tail) ==
  /\ tail = "clean"
  /\ Len(j) <= MaxRecords
  /\ \A i \in 1..Len(j) : RowAccepted(j, i)

(***************************************************************************)
(* _Journal._record: the conditions on the requested state, given the      *)
(* parsed journal j, the binding b and the caller's clock reading t.       *)
(***************************************************************************)
\* Mutant of MayRecord: a terminal state frees the nonce.
MayRecordFreed(j, b, s, t) ==
  \/ /\ s = "RESERVED"
     /\ \/ NoRow(j, Len(j), KeyOf[b])
        \/ \E m \in 1..Len(j) : /\ IsLatest(j, Len(j), KeyOf[b], m)
                                 /\ j[m].state \in TERMINAL
     /\ NotBefore[b] <= t
     /\ t < NotAfter[b]
  \/ /\ s # "RESERVED"
     /\ \E m \in 1..Len(j) :
          /\ IsLatest(j, Len(j), KeyOf[b], m)
          /\ j[m].binding = b
          /\ s \in EDGES[j[m].state]
          /\ t >= j[m].observedAt
     /\ s = "EXPIRED" => t >= NotAfter[b]
     /\ s \in {"RUNNING", "COMPLETED"} => t < NotAfter[b]

\* Mutant of MayRecord: the window is closed, not half-open.
MayRecordLate(j, b, s, t) ==
  \/ /\ s = "RESERVED"
     /\ NoRow(j, Len(j), KeyOf[b])
     /\ NotBefore[b] <= t
     /\ t < NotAfter[b]
  \/ /\ s # "RESERVED"
     /\ \E m \in 1..Len(j) :
          /\ IsLatest(j, Len(j), KeyOf[b], m)
          /\ j[m].binding = b
          /\ s \in EDGES[j[m].state]
          /\ t >= j[m].observedAt
     /\ s = "EXPIRED" => t >= NotAfter[b]
     /\ s \in {"RUNNING", "COMPLETED"} => t <= NotAfter[b]

MayRecord(j, b, s, t) ==
  \/ /\ s = "RESERVED"
     /\ NoRow(j, Len(j), KeyOf[b])
     /\ NotBefore[b] <= t
     /\ t < NotAfter[b]
  \/ /\ s # "RESERVED"
     /\ \E m \in 1..Len(j) :
          /\ IsLatest(j, Len(j), KeyOf[b], m)
          /\ j[m].binding = b
          /\ s \in EDGES[j[m].state]
          /\ t >= j[m].observedAt
     /\ s = "EXPIRED" => t >= NotAfter[b]
     /\ s \in {"RUNNING", "COMPLETED"} => t < NotAfter[b]

NewRow(j, b, s, t) ==
  [sequence |-> Len(j) + 1, previous |-> PreviousDigest(j, Len(j)),
   binding |-> b, state |-> s, observedAt |-> t]

-----------------------------------------------------------------------------
VARIABLES
  file,      \* the complete rows the file holds now
  tail,      \* "clean"; "cached" / "durable": an incomplete row follows
  synced,    \* how many rows are known to be on the disk
  lock,      \* holder of the flock
  pc,        \* how far each process is in its transaction
  view,      \* raw: the rows a process read in its transaction
  row,       \* the row it is about to append
  poisoned,  \* _poisoned of each _Journal instance
  acked,     \* rows whose _record call returned (history)
  grants     \* how many reserve_nonce calls returned, per key (history)

vars == <<file, tail, synced, lock, pc, view, row, poisoned, acked, grants>>

NullRow == [sequence |-> 0, previous |-> ZERO,
            binding |-> CHOOSE b \in Bindings : TRUE,
            state |-> "RESERVED", observedAt |-> 0]

Init ==
  /\ file = <<>>
  /\ tail = "clean"
  /\ synced = 0
  /\ lock = NoProc
  /\ pc = [p \in Procs |-> "idle"]
  /\ view = [p \in Procs |-> <<>>]
  /\ row = [p \in Procs |-> NullRow]
  /\ poisoned = [p \in Procs |-> FALSE]
  /\ acked = {}
  /\ grants = [k \in Keys |-> 0]

\* The end of a transaction: locals die, the flock is released.
Leave(p) ==
  /\ lock' = IF lock = p THEN NoProc ELSE lock
  /\ pc' = [pc EXCEPT ![p] = "idle"]
  /\ view' = [view EXCEPT ![p] = <<>>]
  /\ row' = [row EXCEPT ![p] = NullRow]

(***************************************************************************)
(* flock(LOCK_EX | LOCK_NB), read, parse, check, build the row.  A poisoned *)
(* instance, a held lock, an unreadable journal or a refused request raise *)
(* before anything is written: the call leaves no trace.                   *)
(***************************************************************************)
\* Mutant of CanLock: no mutual exclusion.
CanAlwaysLock(p) == TRUE

CanLock(p) == lock = NoProc

Transaction(p, b, s, t) ==
  /\ pc[p] = "idle"
  /\ ~poisoned[p]
  /\ CanLock(p)
  /\ parse_journal(file, tail)
  /\ MayRecord(file, b, s, t)
  /\ Len(file) < MaxRecords
  /\ lock' = p
  /\ pc' = [pc EXCEPT ![p] = "append"]
  /\ view' = [view EXCEPT ![p] = file]
  /\ row' = [row EXCEPT ![p] = NewRow(file, b, s, t)]
  /\ UNCHANGED <<file, tail, synced, poisoned, acked, grants>>

\* os.write wrote the whole row.
AppendRow(p) ==
  /\ pc[p] = "append"
  /\ file' = Append(file, row[p])
  /\ pc' = [pc EXCEPT ![p] = "sync"]
  /\ UNCHANGED <<tail, synced, lock, view, row, poisoned, acked, grants>>

\* os.write failed or wrote only part of the row: it is never repaired.
ShortWrite(p) ==
  /\ pc[p] = "append"
  /\ \E written \in BOOLEAN : tail' = IF written THEN "cached" ELSE tail
  /\ poisoned' = [poisoned EXCEPT ![p] = TRUE]
  /\ Leave(p)
  /\ UNCHANGED <<file, synced, acked, grants>>

\* Mutant of SyncRow: no fsync.
SkipSync(p) ==
  /\ pc[p] = "sync"
  /\ pc' = [pc EXCEPT ![p] = "readback"]
  /\ UNCHANGED <<file, tail, synced, lock, view, row, poisoned, acked, grants>>

\* fsync of the file and of its directory.
SyncRow(p) ==
  /\ pc[p] = "sync"
  /\ synced' = Len(file)
  /\ pc' = [pc EXCEPT ![p] = "readback"]
  /\ UNCHANGED <<file, tail, lock, view, row, poisoned, acked, grants>>

\* fsync or the second read raised: the row may or may not be on the disk.
StorageError(p) ==
  /\ pc[p] \in {"sync", "readback"}
  /\ poisoned' = [poisoned EXCEPT ![p] = TRUE]
  /\ Leave(p)
  /\ UNCHANGED <<file, tail, synced, acked, grants>>

\* io.read() == raw + encoded, else the instance is poisoned; then return.
Readback(p) ==
  /\ pc[p] = "readback"
  /\ LET same == file = Append(view[p], row[p]) /\ tail = "clean"
     IN  /\ poisoned' = [poisoned EXCEPT ![p] = ~same]
         /\ acked' = IF same THEN acked \cup {row[p]} ELSE acked
         /\ grants' = IF same /\ row[p].state = "RESERVED"
                      THEN [grants EXCEPT ![RowKey(row[p])] = @ + 1]
                      ELSE grants
  /\ Leave(p)
  /\ UNCHANGED <<file, tail, synced>>

\* The process dies (the kernel drops its flock; a write may be cut short)
\* and is started again with a fresh _Journal.
Crash(p) ==
  /\ \/ tail' = tail
     \/ pc[p] = "append" /\ tail' = "cached"
  /\ poisoned' = [poisoned EXCEPT ![p] = FALSE]
  /\ Leave(p)
  /\ UNCHANGED <<file, synced, acked, grants>>

\* Every process dies; what fsync did not cover may be lost or cut.
PowerLoss ==
  /\ \E n \in synced..Len(file) :
       /\ file' = SubSeq(file, 1, n)
       /\ synced' = n
       /\ \/ tail' = IF tail = "durable" THEN "durable" ELSE "clean"
          \/ (n < Len(file) \/ tail = "cached") /\ tail' = "durable"
  /\ lock' = NoProc
  /\ pc' = [p \in Procs |-> "idle"]
  /\ view' = [p \in Procs |-> <<>>]
  /\ row' = [p \in Procs |-> NullRow]
  /\ poisoned' = [p \in Procs |-> FALSE]
  /\ UNCHANGED <<acked, grants>>

Next ==
  \/ \E p \in Procs :
       \/ \E b \in Bindings, s \in States, t \in Times : Transaction(p, b, s, t)
       \/ AppendRow(p)
       \/ ShortWrite(p)
       \/ SyncRow(p)
       \/ StorageError(p)
       \/ Readback(p)
       \/ Crash(p)
  \/ PowerLoss

Spec == Init /\ [][Next]_vars

-----------------------------------------------------------------------------
\* Every variable holds a value of the kind the code gives it.
TypeOK ==
  /\ file \in Seq(Row)
  /\ tail \in {"clean", "cached", "durable"}
  /\ synced \in Nat
  /\ lock \in Procs \cup {NoProc}
  /\ pc \in [Procs -> {"idle", "append", "sync", "readback"}]
  /\ view \in [Procs -> Seq(Row)]
  /\ row \in [Procs -> Row]
  /\ poisoned \in [Procs -> BOOLEAN]
  /\ acked \subseteq Row
  /\ grants \in [Keys -> Nat]

\* A nonce is granted at most once: over all processes, restarts, torn
\* writes and power losses, at most one reserve_nonce call per replay key
\* ever returns (live_replay_store.py, "no expiry, crash, or terminal state
\* frees a nonce").
GrantedOnce == \A k \in Keys : grants[k] <= 1

\* What _record appends, parse_journal accepts: unless a write was cut
\* short, the journal that any interleaving of writers, crashes and power
\* losses leaves behind can be read again, so no legal history locks every
\* later session out.
WritersNeverCorrupt == tail = "clean" => parse_journal(file, tail)

\* A row whose _record call returned is on the disk, at the position its
\* sequence number names, so a power loss cannot take it back.
AckedIsDurable ==
  \A r \in acked : r.sequence \in 1..synced /\ file[r.sequence] = r

\* A terminal state is final: once the call that records it has returned, no
\* row of the same nonce follows in the file, whoever writes it.
TerminalIsFinal ==
  \A r \in acked : r.state \in TERMINAL =>
    \A i \in 1..Len(file) : i > r.sequence => RowKey(file[i]) # RowKey(r)

\* A returned COMPLETED was observed inside the window of a session that was
\* durably RUNNING, and a returned EXPIRED was not observed inside it.
TerminalIsTimely ==
  \A r \in acked :
    /\ r.state = "COMPLETED" =>
         /\ r.observedAt < NotAfter[r.binding]
         /\ \E i \in 1..synced : /\ file[i].binding = r.binding
                                 /\ file[i].state = "RUNNING"
                                 /\ i < r.sequence
    /\ r.state = "EXPIRED" => r.observedAt >= NotAfter[r.binding]

\* Once an append was cut short nobody writes to the file again: the rows
\* only change by losing unsynced ones in a power loss, until the power loss
\* that also loses the fragment.
NoWriteAfterFragment ==
  [][tail # "clean" => Len(file') <= Len(file)]_vars

\* The durable status of a nonce: what parse_journal makes of the synced rows.
DurableStatus(k) ==
  IF NoRow(file, synced, k) THEN "FREE"
  ELSE file[CHOOSE i \in 1..synced : IsLatest(file, synced, k, i)].state

Registry == INSTANCE NonceRegistry
              WITH status <- [k \in Keys |-> DurableStatus(k)], granted <- grants

\* The journal implements the abstract registry: seen through what is on the
\* disk, a nonce only moves forward along EDGES, whatever crashes or is lost,
\* and is granted once, after it became durable.
ImplementsRegistry == Registry!Spec
============================================================================
