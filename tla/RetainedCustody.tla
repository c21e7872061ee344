-------------------------- MODULE RetainedCustody ---------------------------
(***************************************************************************)
(* _RetainedCustody of live_linux_boundary.py: the one owner of every      *)
(* authority file and directory a session was opened from.  Files are      *)
(* opened below retained directories, read in chunks, and the whole set is *)
(* compared with what the paths name now, row after row, before and after  *)
(* each use; seal freezes it and close gives everything back.              *)
(*                                                                         *)
(* The host may rewrite a file in place, put another in its place, or add  *)
(* and remove kit files, between any two system calls.  An identity is a   *)
(* number that each change increases: it includes the change time, so a    *)
(* path that is exchanged and exchanged back does not look untouched.  The *)
(* contents of a file are named by the identity they had when read.        *)
(***************************************************************************)
EXTENDS Integers, Sequences, FiniteSets, SequencesExt

CONSTANTS
  Files,       \* authority files
  Kit,         \* names that may exist in the conformance kit
  Base,        \* the directory of the authority files
  KitDir,      \* the root of the kit
  Chunks,      \* reads per file, the last of which finds the end
  MaxChanges   \* bound: how often the host changes something

ASSUME PathAssumption == Cardinality(Files \cup Kit \cup {Base, KitDir})
                           = Cardinality(Files) + Cardinality(Kit) + 2
ASSUME ChunkAssumption == Chunks \in Nat \ {0}
ASSUME ChangeAssumption == MaxChanges \in Nat

Paths == Files \cup Kit \cup {Base, KitDir}
Dir(p) == IF p \in Kit THEN KitDir ELSE Base

VARIABLES
  ident,     \* the identity each path has now
  present,   \* kit files that exist now
  changes,   \* changes made by the host (bound)
  rows,      \* the row of each path: identity behind its fd, identity expected
  order,     \* handles, in order of acquisition
  files,     \* the bytes read, by path
  kit,       \* names in kit_sources, or NotRead
  sealed, closed,
  pc,        \* where the owner thread is
  then,      \* where it goes when the check it is in has passed
  todo,      \* comparisons left in that check
  cur, got,  \* the file being read and the chunks so far
  back,      \* who called read: "idle" or "kitfile"
  names, listed, info,   \* read_kit: names left, names found, identity seen
  failure,   \* close raised or will raise
  stolen,    \* rows whose descriptor number has come to name something else
  tried,     \* rows on which os.close was called (history)
  snap       \* identities and kit names when seal began (history)

world == <<ident, present, changes>>
walk == <<names, listed, info>>
call == <<then, todo, cur, got, back, walk>>
store == <<files, kit>>
end == <<failure, tried>>
vars == <<world, rows, order, store, sealed, closed, pc, call, end, stolen, snap>>

None == 0
Foreign == -1
NoRow == [fd |-> None, id |-> None]
NotRead == {"unread"}

Init ==
  /\ ident = [p \in Paths |-> 1]
  /\ present \in SUBSET Kit
  /\ changes = 0
  /\ rows = [p \in Paths |-> NoRow]
  /\ order = <<>>
  /\ files = [p \in Files \cup Kit |-> <<>>]
  /\ kit = NotRead
  /\ sealed = FALSE /\ closed = FALSE
  /\ pc = "idle" /\ then = "idle" /\ todo = <<>>
  /\ cur = Base /\ got = <<>> /\ back = "idle"
  /\ names = {} /\ listed = {} /\ info = None
  /\ failure = FALSE /\ stolen = {} /\ tried = {}
  /\ snap = [ident |-> ident, present |-> present]

Held(p) == rows[p] # NoRow

\* The comparisons of check over some rows: descriptor first, then path.
Comparisons(paths) ==
  [i \in 1..(2 * Len(paths)) |->
     <<paths[(i + 1) \div 2], IF i % 2 = 1 THEN "fd" ELSE "path">>]

\* Go on at `next' after the rows in `paths' have passed.
Check(paths, next) ==
  /\ pc' = IF paths = <<>> THEN next ELSE "check"
  /\ then' = next
  /\ todo' = Comparisons(paths)

\* Mutant of RowOK: the descriptor alone is compared.
DescriptorOK(p, kind) == rows[p].id # None /\ rows[p].fd = rows[p].id

\* check_row: what the descriptor and the path stand for is what was accepted.
RowOK(p, kind) ==
  /\ rows[p].id # None
  /\ (IF kind = "fd" THEN rows[p].fd ELSE ident[p]) = rows[p].id

\* Every exception leads to close: in read and read_kit at once, elsewhere in
\* the handler of the caller.
Fail ==
  /\ pc' = "closing"
  /\ closed' = TRUE
  /\ files' = [p \in Files \cup Kit |-> <<>>]
  /\ failure' \in BOOLEAN   \* late resources are closed first
  /\ UNCHANGED <<world, rows, order, kit, sealed, call, stolen, tried, snap>>

CheckStep ==
  /\ pc = "check"
  /\ LET p == Head(todo)[1]
         kind == Head(todo)[2]
     IN  \/ /\ RowOK(p, kind)
            /\ todo' = Tail(todo)
            /\ pc' = IF Len(todo) = 1 THEN then ELSE "check"
            /\ UNCHANGED <<world, rows, order, store, sealed, closed, then, cur, got, back,
                           walk, end, stolen, snap>>
         \/ ~RowOK(p, kind) /\ Fail

-----------------------------------------------------------------------------
(* read, by the session's factory or by the walk over the kit *)

Read(f) ==
  /\ pc = "idle" /\ ~closed
  /\ Check(order, "lookup")
  /\ cur' = f /\ got' = <<>> /\ back' = "idle"
  /\ UNCHANGED <<world, rows, order, store, sealed, closed, walk, end, stolen, snap>>

\* Bytes are read once; a file is not added to a sealed set, and size, mode or
\* digest may refuse either way.  The directory is acquired, or its row
\* compared again.
Lookup ==
  /\ pc = "lookup"
  /\ \/ /\ files[cur] # <<>>
        /\ pc' = back
        /\ UNCHANGED <<world, rows, order, store, sealed, closed, call, end, stolen, snap>>
     \/ /\ files[cur] = <<>> /\ ~sealed
        /\ IF Held(Dir(cur)) THEN Check(<<Dir(cur)>>, "open")
                             ELSE pc' = "opendir" /\ UNCHANGED <<then, todo>>
        /\ UNCHANGED <<world, rows, order, store, sealed, closed, cur, got, back, walk, end,
                       stolen, snap>>
     \/ Fail

\* acquire: the row is registered before anything is asked of the descriptor.
Acquire(from, p, next) ==
  /\ pc = from
  /\ \/ /\ p \in Kit => p \in present
        /\ rows' = [rows EXCEPT ![p] = [fd |-> ident[p], id |-> None]]
        /\ order' = Append(order, p)
        /\ pc' = next
        /\ UNCHANGED <<world, store, sealed, closed, call, end, stolen, snap>>
     \/ Fail

\* ... then fstat, the demands on owner and mode, and the first comparison.
Fstat(from, p, next) ==
  /\ pc = from
  /\ \/ /\ rows' = [rows EXCEPT ![p].id = rows[p].fd]
        /\ Check(<<p>>, next)
        /\ UNCHANGED <<world, order, store, sealed, closed, cur, got, back, walk, end, stolen, snap>>
     \/ Fail

OpenDir == Acquire("opendir", Dir(cur), "fstatdir")
FstatDir == Fstat("fstatdir", Dir(cur), "open")
Open == ~Held(cur) /\ Acquire("open", cur, "fstat")
FstatFile == Fstat("fstat", cur, "chunk")

\* os.read, and the whole set is compared.
ReadChunk ==
  /\ pc = "chunk"
  /\ got' = Append(got, rows[cur].fd)
  /\ Check(order, IF Len(got) + 1 = Chunks THEN "store" ELSE "chunk")
  /\ UNCHANGED <<world, rows, order, store, sealed, closed, cur, back, walk, end, stolen, snap>>

\* Size, mode and digest may refuse.
Store ==
  /\ pc = "store"
  /\ \/ /\ files' = [files EXCEPT ![cur] = got]
        /\ pc' = back
        /\ UNCHANGED <<world, rows, order, kit, sealed, closed, call, end, stolen, snap>>
     \/ Fail

-----------------------------------------------------------------------------
(* read_kit: a walk over the kit's directory *)

ReadKit ==
  /\ pc = "idle" /\ ~closed
  /\ ~sealed /\ kit = NotRead
  /\ Check(order, "kitdir")
  /\ UNCHANGED <<world, rows, order, store, sealed, closed, cur, got, back, walk, end, stolen, snap>>

KitRoot ==
  /\ pc = "kitdir"
  /\ IF Held(KitDir) THEN Check(<<KitDir>>, "list") ELSE pc' = "openkit" /\ UNCHANGED <<then, todo>>
  /\ UNCHANGED <<world, rows, order, store, sealed, closed, cur, got, back, walk, end, stolen, snap>>

OpenKit == Acquire("openkit", KitDir, "fstatkit")
FstatKit == Fstat("fstatkit", KitDir, "list")

\* listdir, and the whole set is compared.
List ==
  /\ pc = "list"
  /\ names' = present /\ listed' = present
  /\ Check(order, "kitnext")
  /\ UNCHANGED <<world, rows, order, store, sealed, closed, cur, got, back, info, end, stolen, snap>>

\* stat of the next name, then read.
KitNext ==
  /\ pc = "kitnext"
  /\ \/ \E k \in names :
          \/ /\ k \in present
             /\ info' = ident[k]
             /\ names' = names \ {k}
             /\ cur' = k /\ got' = <<>> /\ back' = "kitfile"
             /\ Check(order, "lookup")
             /\ UNCHANGED <<world, rows, order, store, sealed, closed, listed, end, stolen, snap>>
          \/ k \notin present /\ Fail
     \/ /\ names = {}
        /\ Check(order, "kitdone")
        /\ UNCHANGED <<world, rows, order, store, sealed, closed, cur, got, back, walk, end,
                       stolen, snap>>

\* The file read is the one that was looked at.
KitFile ==
  /\ pc = "kitfile"
  /\ \/ /\ rows[cur].id = info
        /\ pc' = "kitnext"
        /\ UNCHANGED <<world, rows, order, store, sealed, closed, call, end, stolen, snap>>
     \/ rows[cur].id # info /\ Fail

KitDone ==
  /\ pc = "kitdone"
  /\ \/ /\ kit' = listed
        /\ pc' = "idle"
        /\ UNCHANGED <<world, rows, order, files, sealed, closed, call, end, stolen, snap>>
     \/ Fail

-----------------------------------------------------------------------------
(* seal, later checks, close *)

\* seal begins with require_bytes, which compares the whole set.
Seal ==
  /\ pc = "idle" /\ ~closed /\ ~sealed
  /\ snap' = [ident |-> ident, present |-> present]
  /\ Check(order, "seal")
  /\ UNCHANGED <<world, rows, order, store, sealed, closed, cur, got, back, walk, end, stolen>>

SealDone ==
  /\ pc = "seal"
  /\ LET complete == kit # NotRead /\ kit # {} /\ \A f \in Files : files[f] # <<>>
     IN  \/ /\ complete
            /\ sealed' = TRUE
            /\ pc' = "idle"
            /\ UNCHANGED <<world, rows, order, store, closed, call, end, stolen, snap>>
         \/ ~complete /\ Fail

\* check_peer, check_ambient and every other re-check of a session.
Recheck ==
  /\ pc = "idle" /\ ~closed /\ sealed
  /\ Check(order, "idle")
  /\ UNCHANGED <<world, rows, order, store, sealed, closed, cur, got, back, walk, end, stolen, snap>>

Close ==
  /\ pc = "idle" /\ ~closed
  /\ Fail

\* The descriptor is known to name something else than the row was made for.
Reused(p) == rows[p].id # None /\ (rows[p].fd = Foreign) # (rows[p].id = Foreign)

\* Mutant of CloseRow: the first failure ends the loop.
CloseRowStops ==
  /\ pc = "closing"
  /\ IF order = <<>>
     THEN pc' = "closed" /\ UNCHANGED <<order, end>>
     ELSE LET p == Last(order)
          IN  /\ order' = Front(order)
              /\ \/ /\ ~Reused(p)
                    /\ tried' = tried \cup {p}
                    /\ UNCHANGED <<failure, pc>>
                 \/ failure' = TRUE /\ pc' = "closed" /\ UNCHANGED tried
  /\ UNCHANGED <<world, rows, store, sealed, closed, call, stolen, snap>>

\* Rows in reverse order, each tried once: a descriptor that is known to name
\* something else is left alone, any failure is raised at the end.
CloseRow ==
  /\ pc = "closing"
  /\ IF order = <<>>
     THEN pc' = "closed" /\ UNCHANGED <<order, end>>
     ELSE LET p == Last(order)
          IN  /\ order' = Front(order)
              /\ tried' = IF Reused(p) THEN tried ELSE tried \cup {p}
              /\ failure' \in IF Reused(p) THEN {TRUE} ELSE {failure, TRUE}
              /\ UNCHANGED pc
  /\ UNCHANGED <<world, rows, store, sealed, closed, call, stolen, snap>>

-----------------------------------------------------------------------------
(* The host *)

HostActs ==
  /\ changes < MaxChanges
  /\ ~closed
  /\ changes' = changes + 1
  /\ UNCHANGED <<order, store, sealed, closed, pc, call, end, snap>>

\* Written in place: what is open on it sees the change.
Rewrite(p) ==
  /\ HostActs
  /\ ident' = [ident EXCEPT ![p] = @ + 1]
  /\ rows' = [rows EXCEPT ![p].fd = IF @ = ident[p] THEN @ + 1 ELSE @]
  /\ UNCHANGED <<present, stolen>>

\* Another file takes its place: what is open stays as it was.
Replace(p) ==
  /\ HostActs
  /\ ident' = [ident EXCEPT ![p] = @ + 1]
  /\ UNCHANGED <<present, rows, stolen>>

\* A kit file comes or goes, which changes its directory too.
AddOrRemove(k) ==
  /\ HostActs
  /\ present' = IF k \in present THEN present \ {k} ELSE present \cup {k}
  /\ ident' = [ident EXCEPT ![k] = @ + 1, ![KitDir] = @ + 1]
  /\ rows' = [rows EXCEPT ![KitDir].fd = IF @ = ident[KitDir] THEN @ + 1 ELSE @]
  /\ UNCHANGED stolen

\* Other code of the process closes the number and opens something with it.
Steal(p) ==
  /\ HostActs
  /\ Held(p)
  /\ rows' = [rows EXCEPT ![p].fd = Foreign]
  /\ stolen' = stolen \cup {p}
  /\ UNCHANGED <<ident, present>>

Next ==
  \/ CheckStep
  \/ \E f \in Files : Read(f)
  \/ Lookup \/ OpenDir \/ FstatDir \/ Open \/ FstatFile \/ ReadChunk \/ Store
  \/ ReadKit \/ KitRoot \/ OpenKit \/ FstatKit \/ List \/ KitNext \/ KitFile \/ KitDone
  \/ Seal \/ SealDone \/ Recheck \/ Close \/ CloseRow
  \/ \E p \in Paths : Rewrite(p) \/ Replace(p) \/ Steal(p)
  \/ \E k \in Kit : AddOrRemove(k)

Spec == Init /\ [][Next]_vars

-----------------------------------------------------------------------------
\* What was sealed existed, all of it, at one moment: every chunk of every
\* file is of the version its path named when seal began, and the kit has
\* exactly the names its directory had then, although files were opened,
\* listed, read and compared one system call after another.
SealIsSnapshot ==
  sealed /\ ~closed =>
    /\ kit = snap.present
    /\ \A f \in Files \cup kit : files[f] # <<>> /\ \A i \in DOMAIN files[f] : files[f][i] = snap.ident[f]

\* close leaves nothing behind and takes nothing that is not its own: every
\* descriptor that was opened, however little was known of it, was closed or
\* the caller is told, and none that is known to be somebody else's was closed.
CloseIsTotal ==
  pc = "closed" =>
    \A p \in Paths : Held(p) =>
      /\ p \in tried \/ (p \in stolen /\ failure)
      /\ p \in tried \cap stolen => rows[p].id \in {None, Foreign}
=============================================================================
