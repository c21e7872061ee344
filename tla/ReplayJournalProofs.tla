------------------------ MODULE ReplayJournalProofs ------------------------
(***************************************************************************)
(* Theorems about ReplayJournal, for every set of processes and bindings,  *)
(* every clock range and every MAX_RECORDS.                                *)
(***************************************************************************)
EXTENDS ReplayJournal, SequenceTheorems, TLAPS

-----------------------------------------------------------------------------
(* The inductive invariant. *)

\* The flock is what makes a transaction exclusive.
LockInv == \A p \in Procs : pc[p] # "idle" <=> lock = p

\* Every row in the file passes parse_journal's checks, torn tail or not.
HistoryInv ==
  /\ Len(file) <= MaxRecords
  /\ \A i \in 1..Len(file) : RowAccepted(file, i)

\* A transaction in flight still sees the file it has read.
PendingInv ==
  \A p \in Procs :
    /\ pc[p] = "append" =>
         /\ view[p] = file
         /\ Len(file) < MaxRecords
         /\ MayRecord(file, row[p].binding, row[p].state, row[p].observedAt)
         /\ row[p] = NewRow(file, row[p].binding, row[p].state, row[p].observedAt)
    /\ pc[p] \in {"sync", "readback"} =>
         /\ file = Append(view[p], row[p])
         /\ row[p].sequence = Len(file)
    /\ pc[p] = "readback" => synced = Len(file)
    /\ pc[p] # "idle" => tail = "clean"
    /\ pc[p] # "idle" /\ row[p].state = "RESERVED" => grants[RowKey(row[p])] = 0

SyncedInv == synced <= Len(file)

\* What may stand anywhere after a state in the history of one nonce.
After(s) == IF s = "RESERVED" THEN {"RUNNING"} \cup TERMINAL
            ELSE IF s = "RUNNING" THEN TERMINAL
            ELSE {}

\* The edges compose: any later row of a nonce is after any earlier one.
OrderInv ==
  \A i, m \in 1..Len(file) :
    i < m /\ RowKey(file[i]) = RowKey(file[m]) => file[m].state \in After(file[i].state)

\* What the clock guards of _record leave in the file.
RowTimely(j, i) ==
  /\ j[i].state = "COMPLETED" =>
       /\ j[i].observedAt < NotAfter[j[i].binding]
       /\ \E m \in 1..(i - 1) : j[m].binding = j[i].binding /\ j[m].state = "RUNNING"
  /\ j[i].state = "EXPIRED" => j[i].observedAt >= NotAfter[j[i].binding]

TimelyInv == \A i \in 1..Len(file) : RowTimely(file, i)

\* `latest' is defined for every nonce that a prefix of the file mentions.
LatestInv ==
  \A n \in 0..Len(file), k \in Keys :
    NoRow(file, n, k) \/ \E i \in 1..n : IsLatest(file, n, k, i)

\* A granted nonce has a durable row.
GrantInv ==
  \A k \in Keys :
    /\ grants[k] <= 1
    /\ grants[k] = 1 => \E i \in 1..synced : RowKey(file[i]) = k

IInv ==
  /\ TypeOK
  /\ LockInv
  /\ HistoryInv
  /\ PendingInv
  /\ SyncedInv
  /\ OrderInv
  /\ TimelyInv
  /\ LatestInv
  /\ GrantInv
  /\ AckedIsDurable

-----------------------------------------------------------------------------
\* parse_journal's verdict on a row depends only on the rows up to it.
LEMMA AcceptedByPrefix ==
  ASSUME NEW j, NEW k, NEW i \in Nat \ {0},
         \A m \in 1..i : j[m] = k[m],
         RowAccepted(j, i)
  PROVE  RowAccepted(k, i)
<1>1. j[i] = k[i] /\ \A m \in 1..(i - 1) : j[m] = k[m]
  OBVIOUS
<1>2. PreviousDigest(j, i - 1) = PreviousDigest(k, i - 1)
  BY <1>1 DEF PreviousDigest
<1>3. NoRow(j, i - 1, RowKey(j[i])) => NoRow(k, i - 1, RowKey(k[i]))
  BY <1>1 DEF NoRow
<1>4. \A m \in 1..(i - 1) : IsLatest(j, i - 1, RowKey(j[i]), m)
                              => IsLatest(k, i - 1, RowKey(k[i]), m)
  BY <1>1 DEF IsLatest
<1> QED  BY <1>1, <1>2, <1>3, <1>4 DEF RowAccepted

\* The row a transaction builds is one parse_journal accepts.
LEMMA NewRowAccepted ==
  ASSUME NEW j \in Seq(Row), NEW b \in Bindings, NEW s \in States, NEW t \in Times,
         MayRecord(j, b, s, t)
  PROVE  /\ NewRow(j, b, s, t) \in Row
         /\ RowAccepted(Append(j, NewRow(j, b, s, t)), Len(j) + 1)
<1> DEFINE r == NewRow(j, b, s, t)
<1> DEFINE e == Append(j, r)
<1>1. Len(j) \in Nat
  OBVIOUS
<1>2. PreviousDigest(j, Len(j)) \in Digests
  <2>1. CASE Len(j) = 0
    BY <2>1 DEF PreviousDigest, Digests, ZERO
  <2>2. CASE Len(j) # 0
    <3>1. j[Len(j)] \in Row
      BY <1>1, <2>2
    <3>2. Digest(j[Len(j)]) \in Nat \X Bindings \X States \X Times
      BY <3>1 DEF Digest, Row
    <3> QED  BY <2>2, <3>2 DEF PreviousDigest, Digests
  <2> QED  BY <2>1, <2>2
<1>3. r \in Row
  BY <1>1, <1>2 DEF NewRow, Row
<1>4. \A m \in 1..Len(j) : e[m] = j[m]
  BY <1>3
<1>5. e[Len(j) + 1] = r
  BY <1>3
<1>6. RowKey(r) = KeyOf[b] /\ r.sequence = Len(j) + 1 /\ r.binding = b /\ r.state = s
      /\ r.observedAt = t /\ r.previous = PreviousDigest(j, Len(j))
  BY DEF NewRow, RowKey
<1>7. PreviousDigest(e, Len(j)) = PreviousDigest(j, Len(j))
  BY <1>1, <1>4 DEF PreviousDigest
<1>8. NoRow(j, Len(j), KeyOf[b]) => NoRow(e, Len(j), KeyOf[b])
  BY <1>4 DEF NoRow
<1>9. \A m \in 1..Len(j) : IsLatest(j, Len(j), KeyOf[b], m) => IsLatest(e, Len(j), KeyOf[b], m)
  BY <1>1, <1>4 DEF IsLatest
<1>10. (Len(j) + 1) - 1 = Len(j)
  BY <1>1
<1> HIDE DEF r, e
<1>11. RowAccepted(e, Len(j) + 1)
  BY <1>1, <1>4, <1>5, <1>6, <1>7, <1>8, <1>9, <1>10 DEF MayRecord, RowAccepted
<1> QED  BY <1>3, <1>11 DEF r, e

\* The row of a process outside a transaction is a row.
LEMMA NullRowType == NullRow \in Row
BY BindingsAssumption, TimeAssumption DEF NullRow, Row, Digests, ZERO, States, Times

\* The empty journal satisfies the inductive invariant.
LEMMA InitIInv == Init => IInv
<1> SUFFICES ASSUME Init PROVE IInv
  OBVIOUS
<1>1. TypeOK
  BY NullRowType DEF Init, TypeOK
<1>2. Len(file) = 0
  BY DEF Init
<1> QED
  BY <1>1, <1>2, NoProcAssumption, RecordsAssumption
  DEF Init, IInv, LockInv, HistoryInv, PendingInv, SyncedInv, OrderInv, TimelyInv,
      LatestInv, NoRow, GrantInv, AckedIsDurable

-----------------------------------------------------------------------------
\* Locking, reading, parsing and building the row keep it (_record up to the
\* append).
LEMMA TransactionKeeps ==
  ASSUME IInv, NEW p \in Procs, NEW b \in Bindings, NEW s \in States, NEW t \in Times,
         Transaction(p, b, s, t)
  PROVE  IInv'
<1> USE DEF IInv
<1>1. /\ NewRow(file, b, s, t) \in Row
      /\ RowAccepted(Append(file, NewRow(file, b, s, t)), Len(file) + 1)
  BY NewRowAccepted DEF Transaction, TypeOK
<1>2. TypeOK'
  BY <1>1 DEF Transaction, TypeOK
<1>3. LockInv'
  BY NoProcAssumption DEF Transaction, LockInv, CanLock, TypeOK
<1>4. HistoryInv' /\ SyncedInv' /\ GrantInv' /\ AckedIsDurable'
  BY DEF Transaction, HistoryInv, SyncedInv, GrantInv, AckedIsDurable
<1>4a. OrderInv' /\ TimelyInv' /\ LatestInv'
  BY DEF Transaction, OrderInv, TimelyInv, LatestInv
<1>5. \A q \in Procs : q # p => pc[q] = "idle" /\ pc'[q] = "idle"
  BY NoProcAssumption DEF Transaction, LockInv, CanLock, TypeOK
<1>6. row'[p].state = "RESERVED" => grants'[RowKey(row'[p])] = 0
  <2>1. row'[p] = NewRow(file, b, s, t)
    BY DEF Transaction, TypeOK
  <2>2. RowKey(row'[p]) = KeyOf[b] /\ row'[p].state = s
    BY <2>1 DEF NewRow, RowKey
  <2>3. KeyOf[b] \in Keys
    BY DEF Keys
  <2>4. s = "RESERVED" => NoRow(file, Len(file), KeyOf[b])
    BY DEF Transaction, MayRecord
  <2>5. s = "RESERVED" => grants[KeyOf[b]] = 0
    <3>1. /\ grants[KeyOf[b]] <= 1 /\ grants[KeyOf[b]] \in Nat
          /\ grants[KeyOf[b]] = 1 => \E i \in 1..synced : RowKey(file[i]) = KeyOf[b]
      BY <2>3 DEF GrantInv, TypeOK
    <3>2. synced \in Nat /\ Len(file) \in Nat /\ synced <= Len(file)
      BY DEF SyncedInv, TypeOK
    <3> QED  BY <2>4, <3>1, <3>2 DEF NoRow
  <2> QED  BY <2>2, <2>5 DEF Transaction
<1>7. PendingInv'
  <2>1. row'[p] = NewRow(file, b, s, t) /\ view'[p] = file /\ pc'[p] = "append"
    BY DEF Transaction, TypeOK
  <2>2. row'[p].binding = b /\ row'[p].state = s /\ row'[p].observedAt = t
    BY <2>1 DEF NewRow
  <2>3. file' = file /\ MayRecord(file, b, s, t) /\ Len(file) < MaxRecords /\ tail' = "clean"
    BY DEF Transaction, parse_journal
  <2> QED  BY <1>5, <1>6, <2>1, <2>2, <2>3 DEF PendingInv
<1> QED  BY <1>2, <1>3, <1>4, <1>4a, <1>7

\* The new row stands after every earlier row of its nonce, is timely, and
\* is the latest of its nonce.
LEMMA AppendHistory ==
  ASSUME IInv, NEW p \in Procs, AppendRow(p)
  PROVE  HistoryInv' /\ OrderInv' /\ TimelyInv' /\ LatestInv'
<1> DEFINE n == Len(file)
<1> DEFINE b == row[p].binding
<1> DEFINE s == row[p].state
<1> DEFINE t == row[p].observedAt
<1>1. /\ row[p] \in Row /\ file \in Seq(Row) /\ n \in Nat
      /\ b \in Bindings /\ s \in States /\ t \in Times
  BY DEF IInv, TypeOK, Row
<1>2. /\ file' = Append(file, row[p])
      /\ Len(file') = n + 1
      /\ \A m \in 1..n : file'[m] = file[m]
      /\ file'[n + 1] = row[p]
  BY <1>1 DEF AppendRow
<1>3. n < MaxRecords /\ MayRecord(file, b, s, t) /\ row[p] = NewRow(file, b, s, t)
  BY DEF IInv, AppendRow, PendingInv
<1>4. RowKey(row[p]) = KeyOf[b] /\ KeyOf[b] \in Keys
  BY <1>1 DEF RowKey, Keys
<1>5. HistoryInv'
  <2>1. RowAccepted(file', n + 1)
    BY <1>1, <1>2, <1>3, NewRowAccepted
  <2>2. ASSUME NEW i \in 1..n PROVE RowAccepted(file', i)
    <3>1. RowAccepted(file, i)
      BY DEF IInv, HistoryInv
    <3>2. i \in Nat \ {0} /\ \A m \in 1..i : file[m] = file'[m]
      BY <1>1, <1>2
    <3> QED  BY ONLY <3>1, <3>2, AcceptedByPrefix
  <2> QED  BY <1>1, <1>2, <1>3, <2>1, <2>2, RecordsAssumption DEF HistoryInv
<1>6. ASSUME NEW i \in 1..n, RowKey(file[i]) = KeyOf[b]
      PROVE  s \in After(file[i].state)
  <2>1. PICK m \in 1..n : /\ IsLatest(file, n, KeyOf[b], m)
                          /\ file[m].binding = b
                          /\ s \in EDGES[file[m].state]
    BY <1>3, <1>6 DEF MayRecord, NoRow
  <2>2. file[m] \in Row /\ file[m].state \in States /\ file[i] \in Row /\ file[i].state \in States
    <3>1. file[m] \in Row /\ file[i] \in Row
      BY <1>1
    <3> QED  BY <3>1 DEF Row
  <2>3. s \in After(file[m].state)
    BY <2>1, <2>2 DEF EDGES, After, States, TERMINAL
  <2>4. RowKey(file[m]) = KeyOf[b] /\ i <= m
    BY <1>1, <1>6, <2>1 DEF IsLatest
  <2>5. i # m => file[m].state \in After(file[i].state)
    BY <1>1, <1>6, <2>4 DEF IInv, OrderInv
  <2> QED  BY <2>2, <2>3, <2>5 DEF After, States, TERMINAL
<1>7. OrderInv'
  <2> SUFFICES ASSUME NEW i \in 1..(n + 1), NEW m \in 1..(n + 1), i < m,
                      RowKey(file'[i]) = RowKey(file'[m])
               PROVE  file'[m].state \in After(file'[i].state)
    BY <1>2 DEF OrderInv
  <2>1. CASE m = n + 1
    BY <1>1, <1>2, <1>4, <1>6, <2>1
  <2>2. CASE m # n + 1
    BY <1>1, <1>2, <2>2 DEF IInv, OrderInv
  <2> QED  BY <2>1, <2>2
<1>8. TimelyInv'
  <2>1. RowTimely(file', n + 1)
    <3>1. s = "EXPIRED" => t >= NotAfter[b]
      BY <1>3 DEF MayRecord
    <3>2. ASSUME s = "COMPLETED"
          PROVE  t < NotAfter[b] /\ \E m \in 1..n : file[m].binding = b /\ file[m].state = "RUNNING"
      <4>1. t < NotAfter[b]
        BY <1>3, <3>2 DEF MayRecord
      <4>2. PICK m \in 1..n : file[m].binding = b /\ s \in EDGES[file[m].state]
        BY <1>3, <3>2 DEF MayRecord
      <4>3. file[m].state \in States
        <5>1. file[m] \in Row
          BY <1>1
        <5> QED  BY <5>1 DEF Row
      <4>4. file[m].state = "RUNNING"
        BY <3>2, <4>2, <4>3 DEF EDGES, States, TERMINAL
      <4> QED  BY <4>1, <4>2, <4>4
    <3> QED  BY <1>1, <1>2, <3>1, <3>2 DEF RowTimely
  <2>2. ASSUME NEW i \in 1..n PROVE RowTimely(file', i)
    <3>1. RowTimely(file, i)
      BY DEF IInv, TimelyInv
    <3>2. i \in 1..n /\ \A m \in 1..(i - 1) : file'[m] = file[m]
      BY <1>1, <1>2
    <3> QED  BY <1>2, <3>1, <3>2 DEF RowTimely
  <2> QED  BY <1>1, <1>2, <2>1, <2>2 DEF TimelyInv
<1>9. LatestInv'
  <2> SUFFICES ASSUME NEW l \in 0..(n + 1), NEW k \in Keys
               PROVE  NoRow(file', l, k) \/ \E i \in 1..l : IsLatest(file', l, k, i)
    BY <1>2 DEF LatestInv
  <2>1. ASSUME NEW h \in 0..n
        PROVE  NoRow(file', h, k) \/ \E i \in 1..h : IsLatest(file', h, k, i)
    <3>1. NoRow(file, h, k) \/ \E i \in 1..h : IsLatest(file, h, k, i)
      BY DEF IInv, LatestInv
    <3>2. h \in Nat /\ \A m \in 1..h : file'[m] = file[m]
      BY <1>1, <1>2
    <3> QED  BY <3>1, <3>2 DEF NoRow, IsLatest
  <2>2. CASE l = n + 1 /\ RowKey(row[p]) = k
    BY <1>1, <1>2, <2>2 DEF IsLatest
  <2>3. CASE l = n + 1 /\ RowKey(row[p]) # k
    <3>1. NoRow(file', n, k) => NoRow(file', n + 1, k)
      BY <1>1, <1>2, <2>3 DEF NoRow
    <3>2. \A i \in 1..n : IsLatest(file', n, k, i) => IsLatest(file', n + 1, k, i)
      BY <1>1, <1>2, <2>3 DEF IsLatest
    <3>3. n \in 0..n
      BY <1>1
    <3> QED  BY <1>1, <2>1, <2>3, <3>1, <3>2, <3>3
  <2> QED  BY <1>1, <2>1, <2>2, <2>3
<1> QED  BY <1>5, <1>7, <1>8, <1>9

\* So does the whole append of the row.
LEMMA AppendKeeps ==
  ASSUME IInv, NEW p \in Procs, AppendRow(p)
  PROVE  IInv'
<1>1. row[p] \in Row /\ file \in Seq(Row) /\ Len(file) \in Nat /\ synced \in Nat
  BY DEF IInv, TypeOK
<1>2. /\ file' = Append(file, row[p])
      /\ Len(file') = Len(file) + 1
      /\ \A m \in 1..Len(file) : file'[m] = file[m]
  BY <1>1 DEF AppendRow
<1>3. TypeOK'
  BY <1>1 DEF IInv, AppendRow, TypeOK
<1>4. LockInv'
  BY DEF IInv, AppendRow, LockInv, TypeOK
<1>5. row[p].sequence = Len(file) + 1 /\ view[p] = file /\ tail = "clean"
  <2>1. /\ row[p] = NewRow(file, row[p].binding, row[p].state, row[p].observedAt)
        /\ view[p] = file /\ tail = "clean"
    BY DEF IInv, AppendRow, PendingInv
  <2>2. NewRow(file, row[p].binding, row[p].state, row[p].observedAt).sequence = Len(file) + 1
    BY DEF NewRow
  <2> QED  BY <2>1, <2>2
<1>6. \A q \in Procs : q # p => pc[q] = "idle" /\ pc'[q] = "idle"
  BY DEF IInv, AppendRow, LockInv, TypeOK
<1>7. PendingInv'
  BY <1>1, <1>2, <1>5, <1>6 DEF IInv, AppendRow, PendingInv, TypeOK
<1>8. SyncedInv' /\ GrantInv' /\ AckedIsDurable'
  BY <1>1, <1>2 DEF IInv, AppendRow, SyncedInv, GrantInv, AckedIsDurable
<1> QED  BY <1>3, <1>4, <1>7, <1>8, AppendHistory DEF IInv

\* The fsync only moves the durable prefix up to the whole file.
LEMMA SyncKeeps ==
  ASSUME IInv, NEW p \in Procs, SyncRow(p)
  PROVE  IInv'
<1>1. synced \in Nat /\ Len(file) \in Nat /\ synced <= Len(file)
  BY DEF IInv, TypeOK, SyncedInv
<1>2. TypeOK' /\ LockInv' /\ SyncedInv'
  BY <1>1 DEF IInv, SyncRow, TypeOK, LockInv, SyncedInv
<1>3. HistoryInv' /\ OrderInv' /\ TimelyInv' /\ LatestInv'
  BY DEF IInv, SyncRow, HistoryInv, OrderInv, TimelyInv, LatestInv
<1>4. \A q \in Procs : q # p => pc[q] = "idle" /\ pc'[q] = "idle"
  BY DEF IInv, SyncRow, LockInv, TypeOK
<1>5. PendingInv'
  BY <1>4 DEF IInv, SyncRow, PendingInv, TypeOK
<1>6. GrantInv' /\ AckedIsDurable'
  BY <1>1 DEF IInv, SyncRow, GrantInv, AckedIsDurable
<1> QED  BY <1>2, <1>3, <1>5, <1>6 DEF IInv

\* A transaction that ends without a return value and leaves rows alone.
LEMMA LeaveKeeps ==
  ASSUME IInv, NEW p \in Procs, Leave(p),
         tail' \in {"clean", "cached", "durable"},
         lock # p => tail' = tail,
         poisoned' \in [Procs -> BOOLEAN],
         UNCHANGED <<file, synced, acked, grants>>
  PROVE  IInv'
<1>1. TypeOK'
  <2>1. lock' \in Procs \cup {NoProc} /\ pc' \in [Procs -> {"idle", "append", "sync", "readback"}]
    BY DEF IInv, TypeOK, Leave
  <2>2. view' \in [Procs -> Seq(Row)]
    BY DEF IInv, TypeOK, Leave
  <2>3. row' \in [Procs -> Row]
    BY NullRowType DEF IInv, TypeOK, Leave
  <2> QED  BY <2>1, <2>2, <2>3 DEF IInv, TypeOK
<1>2. LockInv'
  BY NoProcAssumption DEF IInv, TypeOK, Leave, LockInv
<1>3. HistoryInv' /\ OrderInv' /\ TimelyInv' /\ LatestInv' /\ SyncedInv' /\ GrantInv' /\ AckedIsDurable'
  BY DEF IInv, HistoryInv, OrderInv, TimelyInv, LatestInv, SyncedInv, GrantInv, AckedIsDurable
<1>4. ASSUME NEW q \in Procs, pc'[q] # "idle"
      PROVE  pc'[q] = pc[q] /\ row'[q] = row[q] /\ view'[q] = view[q] /\ tail' = tail
  BY <1>4 DEF IInv, TypeOK, Leave, LockInv
<1>5. PendingInv'
  BY <1>4 DEF IInv, PendingInv
<1> QED  BY <1>1, <1>2, <1>3, <1>5 DEF IInv

\* A short write, a storage error and the death of a process end a
\* transaction that returns nothing.
LEMMA FailureKeeps ==
  ASSUME IInv, NEW p \in Procs, ShortWrite(p) \/ StorageError(p) \/ Crash(p)
  PROVE  IInv'
<1>1. Leave(p) /\ UNCHANGED <<file, synced, acked, grants>>
  BY DEF ShortWrite, StorageError, Crash
<1>2. tail' \in {"clean", "cached", "durable"} /\ poisoned' \in [Procs -> BOOLEAN]
  BY DEF IInv, TypeOK, ShortWrite, StorageError, Crash
<1>3. lock # p => tail' = tail
  BY DEF IInv, LockInv, ShortWrite, StorageError, Crash
<1> QED  BY <1>1, <1>2, <1>3, LeaveKeeps

\* The read back returns the row it found on the disk, or poisons.
LEMMA ReadbackKeeps ==
  ASSUME IInv, NEW p \in Procs, Readback(p)
  PROVE  IInv'
<1>1. /\ pc[p] = "readback" /\ tail = "clean" /\ tail' = tail
      /\ file = Append(view[p], row[p]) /\ synced = Len(file)
      /\ row[p].sequence = Len(file)
      /\ row[p] \in Row /\ view[p] \in Seq(Row) /\ file \in Seq(Row)
      /\ row[p].state = "RESERVED" => grants[RowKey(row[p])] = 0
  BY DEF IInv, TypeOK, PendingInv, Readback
<1>2. /\ acked' = acked \cup {row[p]}
      /\ grants' = IF row[p].state = "RESERVED"
                   THEN [grants EXCEPT ![RowKey(row[p])] = @ + 1] ELSE grants
      /\ poisoned' \in [Procs -> BOOLEAN]
      /\ UNCHANGED <<file, synced, tail>>
  BY <1>1 DEF IInv, TypeOK, Readback
<1>3. Len(file) \in Nat \ {0} /\ file[Len(file)] = row[p]
  BY <1>1
<1>4. RowKey(row[p]) \in Keys
  BY <1>1 DEF RowKey, Keys, Row
<1>5. TypeOK'
  BY <1>1, <1>2, <1>4, NullRowType DEF IInv, TypeOK, Readback, Leave
<1>6. LockInv'
  BY NoProcAssumption DEF IInv, TypeOK, Readback, Leave, LockInv
<1>7. HistoryInv' /\ OrderInv' /\ TimelyInv' /\ LatestInv' /\ SyncedInv'
  BY <1>2 DEF IInv, HistoryInv, OrderInv, TimelyInv, LatestInv, SyncedInv
<1>8. AckedIsDurable'
  BY <1>1, <1>2, <1>3 DEF IInv, AckedIsDurable
<1>9. GrantInv'
  <2> SUFFICES ASSUME NEW k \in Keys
               PROVE  /\ grants'[k] <= 1
                      /\ grants'[k] = 1 => \E i \in 1..synced' : RowKey(file'[i]) = k
    BY DEF GrantInv
  <2>1. /\ grants[k] <= 1 /\ grants \in [Keys -> Nat]
        /\ grants[k] = 1 => \E i \in 1..synced : RowKey(file[i]) = k
    BY DEF IInv, TypeOK, GrantInv
  <2>2. CASE row[p].state = "RESERVED" /\ k = RowKey(row[p])
    <3>1. grants'[k] = 1
      BY <1>1, <1>2, <2>1, <2>2
    <3>2. Len(file) \in 1..synced' /\ RowKey(file'[Len(file)]) = k
      BY <1>1, <1>2, <1>3, <2>2
    <3> QED  BY <3>1, <3>2
  <2>3. CASE ~(row[p].state = "RESERVED" /\ k = RowKey(row[p]))
    <3>1. grants'[k] = grants[k]
      BY <1>2, <1>4, <2>1, <2>3
    <3> QED  BY <1>2, <2>1, <3>1
  <2> QED  BY <2>2, <2>3
<1>10. PendingInv'
  <2>1. \A q \in Procs : pc'[q] = "idle"
    BY <1>1 DEF IInv, TypeOK, Readback, Leave, LockInv
  <2> QED  BY <2>1 DEF PendingInv
<1> QED  BY <1>5, <1>6, <1>7, <1>8, <1>9, <1>10 DEF IInv

\* A power loss keeps the durable prefix, and with it every returned row.
LEMMA PowerLossKeeps ==
  ASSUME IInv, PowerLoss
  PROVE  IInv'
<1>0. file \in Seq(Row) /\ Len(file) \in Nat /\ synced \in Nat /\ synced <= Len(file)
  BY DEF IInv, TypeOK, SyncedInv
<1>1. PICK n \in synced..Len(file) : file' = SubSeq(file, 1, n) /\ synced' = n
  BY DEF PowerLoss
<1>2. /\ n \in Nat /\ n <= Len(file) /\ synced <= n
      /\ file' \in Seq(Row)
      /\ Len(file') = n
      /\ \A m \in 1..n : file'[m] = file[m]
  BY <1>0, <1>1
<1>3. TypeOK'
  BY <1>1, <1>2, NullRowType DEF IInv, TypeOK, PowerLoss
<1>4. LockInv' /\ PendingInv'
  BY NoProcAssumption DEF PowerLoss, LockInv, PendingInv
<1>5. HistoryInv'
  <2>1. ASSUME NEW i \in 1..n PROVE RowAccepted(file', i)
    <3>1. RowAccepted(file, i)
      BY <1>0, <1>2 DEF IInv, HistoryInv
    <3>2. i \in Nat \ {0} /\ \A m \in 1..i : file[m] = file'[m]
      BY <1>2
    <3> QED  BY ONLY <3>1, <3>2, AcceptedByPrefix
  <2> QED  BY <1>0, <1>2, <2>1, RecordsAssumption DEF IInv, HistoryInv
<1>6. OrderInv'
  BY <1>0, <1>2 DEF IInv, OrderInv
<1>7. TimelyInv'
  <2>1. ASSUME NEW i \in 1..n PROVE RowTimely(file', i)
    <3>1. RowTimely(file, i)
      BY <1>0, <1>2 DEF IInv, TimelyInv
    <3>2. \A m \in 1..i : file'[m] = file[m]
      BY <1>2
    <3>3. i \in Nat \ {0}
      BY <1>2
    <3> QED  BY <3>1, <3>2, <3>3 DEF RowTimely
  <2> QED  BY <1>2, <2>1 DEF TimelyInv
<1>8. LatestInv'
  <2> SUFFICES ASSUME NEW l \in 0..n, NEW k \in Keys
               PROVE  NoRow(file', l, k) \/ \E i \in 1..l : IsLatest(file', l, k, i)
    BY <1>2 DEF LatestInv
  <2>1. NoRow(file, l, k) \/ \E i \in 1..l : IsLatest(file, l, k, i)
    BY <1>0, <1>2 DEF IInv, LatestInv
  <2>2. l \in Nat /\ \A m \in 1..l : file'[m] = file[m]
    BY <1>2
  <2> QED  BY <2>1, <2>2 DEF NoRow, IsLatest
<1>9. SyncedInv' /\ GrantInv' /\ AckedIsDurable'
  BY <1>0, <1>1, <1>2 DEF IInv, PowerLoss, SyncedInv, GrantInv, AckedIsDurable
<1> QED  BY <1>3, <1>4, <1>5, <1>6, <1>7, <1>8, <1>9 DEF IInv

\* Every step keeps the inductive invariant.
LEMMA NextKeeps == IInv /\ [Next]_vars => IInv'
<1> SUFFICES ASSUME IInv, [Next]_vars PROVE IInv'
  OBVIOUS
<1>1. CASE UNCHANGED vars
  BY <1>1 DEF vars, IInv, TypeOK, LockInv, HistoryInv, PendingInv, SyncedInv, OrderInv,
     TimelyInv, LatestInv, GrantInv, AckedIsDurable
<1>2. CASE Next
  BY <1>2, TransactionKeeps, AppendKeeps, SyncKeeps, FailureKeeps, ReadbackKeeps,
     PowerLossKeeps DEF Next
<1> QED  BY <1>1, <1>2

\* Every reachable state satisfies the inductive invariant.
THEOREM Invariance == Spec => []IInv
BY InitIInv, NextKeeps, PTL DEF Spec

-----------------------------------------------------------------------------
(* What the invariant gives a caller of the journal. *)

\* Every variable keeps its type.
THEOREM TypeCorrect == Spec => []TypeOK
BY Invariance, PTL DEF IInv

\* At most one reserve_nonce call per replay key ever returns.
THEOREM NonceGrantedOnce == Spec => []GrantedOnce
<1>1. IInv => GrantedOnce
  BY DEF IInv, GrantInv, GrantedOnce
<1> QED  BY <1>1, Invariance, PTL

\* Whatever _record appends, parse_journal accepts.
THEOREM JournalStaysReadable == Spec => []WritersNeverCorrupt
<1>1. IInv => WritersNeverCorrupt
  BY DEF IInv, HistoryInv, WritersNeverCorrupt, parse_journal
<1> QED  BY <1>1, Invariance, PTL

\* A returned row is never taken back, by a crash or by a power loss.
THEOREM ReturnedRowsAreDurable == Spec => []AckedIsDurable
BY Invariance, PTL DEF IInv

\* No row of a nonce follows its returned terminal row.
THEOREM TerminalRowsAreFinal == Spec => []TerminalIsFinal
<1>1. ASSUME IInv, NEW r \in acked, r.state \in TERMINAL, NEW i \in 1..Len(file), i > r.sequence
      PROVE  RowKey(file[i]) # RowKey(r)
  <2>1. r.sequence \in 1..synced /\ file[r.sequence] = r /\ synced <= Len(file)
    BY <1>1 DEF IInv, AckedIsDurable, SyncedInv
  <2>2. synced \in Nat /\ Len(file) \in Nat
    BY <1>1 DEF IInv, TypeOK
  <2>3. r.sequence \in 1..Len(file) /\ r.sequence < i
    BY <1>1, <2>1, <2>2
  <2>4. RowKey(file[i]) = RowKey(r) => file[i].state \in After(r.state)
    BY <1>1, <2>1, <2>3 DEF IInv, OrderInv
  <2> QED  BY <1>1, <2>4 DEF After, TERMINAL
<1>2. IInv => TerminalIsFinal
  BY <1>1 DEF TerminalIsFinal
<1> QED  BY <1>2, Invariance, PTL

\* A returned COMPLETED lies inside the window and after a durable RUNNING
\* row of the same session; a returned EXPIRED lies after the window.
THEOREM TerminalRowsAreTimely == Spec => []TerminalIsTimely
<1>1. ASSUME IInv, NEW r \in acked
      PROVE  /\ r.state = "COMPLETED" =>
                  /\ r.observedAt < NotAfter[r.binding]
                  /\ \E i \in 1..synced : /\ file[i].binding = r.binding
                                          /\ file[i].state = "RUNNING"
                                          /\ i < r.sequence
             /\ r.state = "EXPIRED" => r.observedAt >= NotAfter[r.binding]
  <2>1. r.sequence \in 1..synced /\ file[r.sequence] = r /\ synced <= Len(file)
    BY <1>1 DEF IInv, AckedIsDurable, SyncedInv
  <2>2. synced \in Nat /\ Len(file) \in Nat
    BY <1>1 DEF IInv, TypeOK
  <2>3. RowTimely(file, r.sequence)
    BY <1>1, <2>1, <2>2 DEF IInv, TimelyInv
  <2> QED  BY <2>1, <2>2, <2>3 DEF RowTimely
<1>2. IInv => TerminalIsTimely
  BY <1>1 DEF TerminalIsTimely
<1> QED  BY <1>2, Invariance, PTL

\* Nobody appends behind a fragment.
THEOREM FragmentStopsWriters == Spec => NoWriteAfterFragment
<1>1. IInv /\ [Next]_vars => [tail # "clean" => Len(file') <= Len(file)]_vars
  <2> SUFFICES ASSUME IInv, Next, tail # "clean" PROVE Len(file') <= Len(file)
    OBVIOUS
  <2>0. file \in Seq(Row) /\ Len(file) \in Nat /\ synced \in Nat
    BY DEF IInv, TypeOK
  <2>1. CASE PowerLoss
    <3>1. PICK n \in synced..Len(file) : file' = SubSeq(file, 1, n)
      BY <2>1 DEF PowerLoss
    <3> QED  BY <2>0, <3>1
  <2>2. ASSUME NEW p \in Procs, AppendRow(p) PROVE FALSE
    BY <2>2 DEF IInv, PendingInv, AppendRow
  <2>3. CASE file' = file
    BY <2>0, <2>3
  <2> QED
    BY <2>1, <2>2, <2>3
    DEF Next, Transaction, ShortWrite, SyncRow, StorageError, Readback, Crash
<1> QED  BY <1>1, Invariance, PTL DEF Spec, NoWriteAfterFragment

-----------------------------------------------------------------------------
(* The journal implements NonceRegistry. *)

\* The durable status of a nonce is FREE, or the state of its latest row.
LEMMA StatusCases ==
  ASSUME IInv, NEW k \in Keys
  PROVE  \/ NoRow(file, synced, k) /\ DurableStatus(k) = "FREE"
         \/ \E i \in 1..synced : /\ IsLatest(file, synced, k, i)
                                 /\ DurableStatus(k) = file[i].state
                                 /\ file[i].state \in States
<1>1. file \in Seq(Row) /\ synced \in 0..Len(file) /\ Len(file) \in Nat
  BY DEF IInv, TypeOK, SyncedInv
<1>2. CASE NoRow(file, synced, k)
  BY <1>2 DEF DurableStatus
<1>3. CASE ~NoRow(file, synced, k)
  <2>1. \E i \in 1..synced : IsLatest(file, synced, k, i)
    BY <1>1, <1>3 DEF IInv, LatestInv
  <2> DEFINE c == CHOOSE i \in 1..synced : IsLatest(file, synced, k, i)
  <2>2. c \in 1..synced /\ IsLatest(file, synced, k, c)
    BY <2>1
  <2>3. DurableStatus(k) = file[c].state
    BY <1>3 DEF DurableStatus
  <2>4. file[c] \in Row
    BY <1>1, <2>2
  <2>5. file[c].state \in States
    BY <2>4 DEF Row
  <2> QED  BY <2>2, <2>3, <2>5
<1> QED  BY <1>2, <1>3

\* When the durable rows only gain successors, every status moves forward.
LEMMA StatusMovesForward ==
  ASSUME IInv, IInv', NEW k \in Keys, synced <= synced',
         \A m \in 1..synced : file'[m] = file[m]
  PROVE  /\ DurableStatus(k)' \in {"FREE"} \cup States
         /\ \/ DurableStatus(k)' = DurableStatus(k)
            \/ DurableStatus(k)' \in Registry!Later(DurableStatus(k))
<1> DEFINE old == DurableStatus(k)
<1> DEFINE new == DurableStatus(k)'
<1>0. synced \in Nat /\ synced' \in Nat /\ synced' <= Len(file') /\ Len(file') \in Nat
  BY DEF IInv, TypeOK, SyncedInv
<1>1. \/ NoRow(file, synced, k) /\ old = "FREE"
      \/ \E i \in 1..synced : IsLatest(file, synced, k, i) /\ old = file[i].state /\ file[i].state \in States
  BY StatusCases
<1>2. \/ NoRow(file', synced', k) /\ new = "FREE"
      \/ \E i \in 1..synced' : /\ IsLatest(file', synced', k, i)
                               /\ new = file'[i].state /\ file'[i].state \in States
  <2>1. IInv => ( \/ NoRow(file, synced, k) /\ DurableStatus(k) = "FREE"
                  \/ \E i \in 1..synced : /\ IsLatest(file, synced, k, i)
                                          /\ DurableStatus(k) = file[i].state
                                          /\ file[i].state \in States )
    BY StatusCases
  <2>2. (IInv => ( \/ NoRow(file, synced, k) /\ DurableStatus(k) = "FREE"
                  \/ \E i \in 1..synced : /\ IsLatest(file, synced, k, i)
                                          /\ DurableStatus(k) = file[i].state
                                          /\ file[i].state \in States ))'
    BY StatusCases, PTL
  <2> QED  BY <2>2
<1> HIDE DEF old, new
<1>3. new \in {"FREE"} \cup States
  BY <1>2
<1>4. old = "FREE" => new = old \/ new \in Registry!Later(old)
  BY <1>3 DEF Registry!Later, States
<1>5. ASSUME NEW i \in 1..synced, IsLatest(file, synced, k, i), old = file[i].state,
             file[i].state \in States
      PROVE  new = old \/ new \in Registry!Later(old)
  <2>1. file'[i] = file[i] /\ RowKey(file'[i]) = k /\ i \in 1..synced'
    BY <1>0, <1>5 DEF IsLatest
  <2>2. PICK m \in 1..synced' : IsLatest(file', synced', k, m) /\ new = file'[m].state
    BY <1>2, <2>1 DEF NoRow
  <2>3. RowKey(file'[m]) = k /\ i <= m
    BY <1>0, <2>1, <2>2 DEF IsLatest
  <2>4. CASE i = m
    BY <1>5, <2>1, <2>2, <2>4
  <2>5. CASE i # m
    <3>1. i \in 1..Len(file') /\ m \in 1..Len(file') /\ i < m
      BY <1>0, <2>1, <2>3, <2>5
    <3>2. new \in After(old)
      BY <1>5, <2>1, <2>2, <2>3, <3>1 DEF IInv, OrderInv
    <3> QED  BY <1>5, <3>2 DEF After, Registry!Later, States, TERMINAL
  <2> QED  BY <2>4, <2>5
<1> QED  BY <1>1, <1>3, <1>4, <1>5 DEF old, new

\* The journal refines the registry of one-shot nonces.
THEOREM JournalImplementsRegistry == Spec => ImplementsRegistry
<1>1. Init => Registry!Init
  BY DEF Init, Registry!Init, DurableStatus, NoRow
<1>2. ASSUME IInv, IInv', [Next]_vars
      PROVE  [Registry!Next]_(Registry!vars)
  <2>0. file \in Seq(Row) /\ Len(file) \in Nat /\ synced \in Nat /\ synced <= Len(file)
    BY <1>2 DEF IInv, TypeOK, SyncedInv
  <2>1. ASSUME synced <= synced', \A m \in 1..synced : file'[m] = file[m], grants' = grants
        PROVE  Registry!Persist
    <3>1. \A k \in Keys : /\ DurableStatus(k)' \in {"FREE"} \cup States
                          /\ \/ DurableStatus(k)' = DurableStatus(k)
                             \/ DurableStatus(k)' \in Registry!Later(DurableStatus(k))
      BY <1>2, <2>1, StatusMovesForward
    <3> QED  BY <2>1, <3>1 DEF Registry!Persist, States
  <2>2. CASE UNCHANGED vars
    BY <2>2 DEF vars, Registry!vars, DurableStatus, NoRow, IsLatest
  <2>3. CASE PowerLoss
    <3>1. PICK n \in synced..Len(file) : file' = SubSeq(file, 1, n) /\ synced' = n
      BY <2>3 DEF PowerLoss
    <3>2. synced <= synced' /\ \A m \in 1..synced : file'[m] = file[m]
      BY <2>0, <3>1
    <3> QED  BY <2>1, <2>3, <3>2 DEF PowerLoss, Registry!Next
  <2>4. ASSUME NEW p \in Procs, AppendRow(p)
        PROVE  Registry!Next
    <3>1. row[p] \in Row
      BY <1>2 DEF IInv, TypeOK
    <3>2. synced <= synced' /\ \A m \in 1..synced : file'[m] = file[m]
      BY <2>0, <2>4, <3>1 DEF AppendRow
    <3> QED  BY <2>1, <2>4, <3>2 DEF AppendRow, Registry!Next
  <2>5. ASSUME NEW p \in Procs,
               \/ \E b \in Bindings, s \in States, t \in Times : Transaction(p, b, s, t)
               \/ ShortWrite(p) \/ SyncRow(p) \/ StorageError(p) \/ Crash(p)
        PROVE  Registry!Next
    <3>1. synced <= synced' /\ file' = file /\ grants' = grants
      BY <2>0, <2>5 DEF Transaction, ShortWrite, SyncRow, StorageError, Crash
    <3> QED  BY <2>1, <3>1 DEF Registry!Next
  <2>6. ASSUME NEW p \in Procs, Readback(p)
        PROVE  [Registry!Next]_(Registry!vars)
    <3>1. /\ file = Append(view[p], row[p]) /\ synced = Len(file)
          /\ row[p] \in Row /\ view[p] \in Seq(Row) /\ tail = "clean"
          /\ row[p].state = "RESERVED" => grants[RowKey(row[p])] = 0
      BY <1>2, <2>6 DEF IInv, TypeOK, PendingInv, Readback
    <3>2. /\ file' = file /\ synced' = synced
          /\ grants' = IF row[p].state = "RESERVED"
                       THEN [grants EXCEPT ![RowKey(row[p])] = @ + 1] ELSE grants
      BY <2>6, <3>1 DEF Readback
    <3>3. \A k \in Keys : DurableStatus(k)' = DurableStatus(k)
      BY <3>2 DEF DurableStatus, NoRow, IsLatest
    <3>4. CASE row[p].state # "RESERVED"
      BY <3>2, <3>3, <3>4 DEF Registry!vars
    <3>5. CASE row[p].state = "RESERVED"
      <4> DEFINE k == RowKey(row[p])
      <4>1. k \in Keys
        BY <3>1 DEF RowKey, Keys, Row
      <4>2. grants[k] = 0 /\ grants' = [grants EXCEPT ![k] = 1]
        <5>1. grants[k] = 0 /\ grants \in [Keys -> Nat]
          BY <1>2, <3>1, <3>5 DEF IInv, TypeOK
        <5> QED  BY <3>2, <3>5, <5>1
      <4>3. DurableStatus(k) # "FREE"
        <5>1. Len(file) \in 1..synced /\ file[Len(file)] = row[p]
          BY <3>1
        <5>2. ~NoRow(file, synced, k)
          BY <5>1 DEF NoRow
        <5>3. \E i \in 1..synced : DurableStatus(k) = file[i].state /\ file[i].state \in States
          BY <1>2, <4>1, <5>2, StatusCases
        <5> QED  BY <5>3 DEF States, TERMINAL
      <4>4. Registry!Grant(k)
        BY <3>3, <4>1, <4>2, <4>3 DEF Registry!Grant
      <4> QED  BY <4>1, <4>4 DEF Registry!Next
    <3> QED  BY <3>4, <3>5
  <2> QED  BY <1>2, <2>2, <2>3, <2>4, <2>5, <2>6 DEF Next
<1> QED  BY <1>1, <1>2, Invariance, PTL DEF Spec, ImplementsRegistry, Registry!Spec
============================================================================
