------------------------ MODULE RetainedCustodyProofs -------------------------
(***************************************************************************)
(* Proofs about RetainedCustody, for any set of files, any kit, any number *)
(* of reads per file and any number of changes by the host.                *)
(*                                                                         *)
(* Identities only grow, so what was accepted of a path is not newer than  *)
(* its descriptor, and that is not newer than the path.  A comparison with *)
(* the path that passes after seal began therefore pins the accepted       *)
(* identity to that moment, although the host may have gone on since: it   *)
(* lies between the two.  A chunk is of the accepted identity once the     *)
(* comparison of its descriptor has passed; until then it is "due".  The   *)
(* names of the kit follow the identity of the kit's directory.  Close     *)
(* moves every row from the order to the ones tried or reported.           *)
(***************************************************************************)
EXTENDS RetainedCustody, TLAPS

\* What the variables hold.
Texts == Files \cup Kit
RowStates == [fd : Int, id : Int]
Tests == Paths \X {"fd", "path"}
Steps == {"idle", "lookup", "opendir", "fstatdir", "open", "fstat", "chunk", "store", "kitdir",
          "openkit", "fstatkit", "list", "kitnext", "kitfile", "kitdone", "seal"}

TypeOK ==
  /\ ident \in [Paths -> Nat] /\ present \in SUBSET Kit
  /\ rows \in [Paths -> RowStates] /\ order \in Seq(Paths)
  /\ files \in [Texts -> Seq(Int)] /\ got \in Seq(Int)
  /\ pc \in Steps \cup {"check", "closing", "closed"} /\ then \in Steps
  /\ todo \in Seq(Tests)
  /\ back \in {"idle", "kitfile"}
  /\ names \in SUBSET Kit /\ listed \in SUBSET Kit
  /\ stolen \in SUBSET Paths /\ tried \in SUBSET Paths
  /\ snap \in [ident : [Paths -> Nat], present : SUBSET Kit]

FlagsOK == sealed \in BOOLEAN /\ closed \in BOOLEAN /\ failure \in BOOLEAN

\* Where the owner is, or will be when the check it is in has passed.
At == IF pc = "check" THEN then ELSE pc

\* A comparison the check in progress has still to make.
Has(s, x) == \E i \in 1..Len(s) : s[i] = x
Due(p, kind) == pc = "check" /\ Has(todo, <<p, kind>>)

\* Identities only grow: what was accepted of a path is not newer than its
\* descriptor, and that is not newer than the path, unless it was stolen.
RowInv ==
  \A p \in Paths :
    /\ ident[p] >= 1
    /\ rows[p].fd = None => rows[p].id = None
    /\ rows[p].fd = Foreign <=> p \in stolen
    /\ rows[p].fd # Foreign => 0 <= rows[p].fd /\ rows[p].fd <= ident[p]
    /\ rows[p].id = Foreign => rows[p].fd = Foreign
    /\ rows[p].id # Foreign => 0 <= rows[p].id
    /\ rows[p].id # None /\ rows[p].fd # Foreign => rows[p].id <= rows[p].fd
    /\ rows[p].id <= ident[p]

\* Every row is in the order, and known but for the one being acquired.
OrderInv ==
  ~closed => \A p \in Paths : Held(p) =>
    /\ Has(order, p)
    /\ rows[p].id = None => \/ pc = "fstatdir" /\ p = Dir(cur)
                            \/ pc = "fstat" /\ p = cur
                            \/ pc = "fstatkit" /\ p = KitDir

\* Where the control is.
ControlInv ==
  /\ closed <=> pc \in {"closing", "closed"}
  /\ pc = "check" =>
       todo # <<>> /\ then \notin {"opendir", "openkit", "fstatdir", "fstat", "fstatkit"}
  /\ At \in {"lookup", "opendir", "fstatdir", "open", "fstat", "chunk", "store", "kitfile"} =>
       cur \in Texts
  /\ At \in {"lookup", "opendir", "fstatdir", "open", "fstat"} => got = <<>>
  /\ pc = "opendir" => ~Held(Dir(cur))
  /\ pc = "openkit" => ~Held(KitDir)
  /\ At \in {"list", "fstatkit"} => Held(KitDir)
  /\ At \in {"fstat", "chunk", "store"} => Held(cur)
  /\ pc = "fstatdir" => Held(Dir(cur)) /\ rows[Dir(cur)].id = None
  /\ pc = "fstatkit" => rows[KitDir].id = None
  /\ pc = "fstat" => rows[cur].id = None
  /\ At = "store" => got # <<>>
  /\ sealed /\ ~closed => At \in {"idle", "lookup"} /\ (At = "lookup" => back = "idle")

\* The chunks of the file being read are of the accepted identity, but for the last
\* one as long as its descriptor has not been compared.
GotInv ==
  At \in {"chunk", "store"} =>
    \A i \in 1..Len(got) :
      \/ got[i] = rows[cur].id
      \/ /\ Due(cur, "fd")
         /\ got[i] = Foreign => rows[cur].fd = Foreign
         /\ rows[cur].id = Foreign => got[i] = Foreign
         /\ got[i] # Foreign => /\ rows[cur].id <= got[i]
                                /\ rows[cur].fd # Foreign => got[i] <= rows[cur].fd

\* What was stored is of the identity in the row.
FileInv ==
  ~closed => \A f \in Texts : files[f] # <<>> =>
    /\ rows[f].id # None
    /\ \A i \in 1..Len(files[f]) : files[f][i] = rows[f].id

\* The walk over the kit: as long as the directory is the one that was accepted it has
\* the names that were listed, and what is no longer to come was read.
Reading == At \in {"lookup", "opendir", "fstatdir", "open", "fstat", "chunk", "store"}
Walking == At \in {"kitnext", "kitfile", "kitdone"} \/ (Reading /\ back = "kitfile")
WalkInv ==
  /\ Walking =>
       /\ rows[KitDir].id # None
       /\ ident[KitDir] = rows[KitDir].id => present = listed
       /\ \A k \in listed \ names : files[k] # <<>> \/ (Reading /\ k = cur)
  /\ At = "kitdone" => names = {}

KitInv ==
  kit # NotRead /\ ~closed =>
    /\ rows[KitDir].id # None
    /\ ident[KitDir] = rows[KitDir].id => present = kit
    /\ \A k \in kit : k \in Kit /\ files[k] # <<>>

\* Between the begin of seal and its end: the accepted identities are of that moment,
\* as far as the paths have been compared.
SealInv ==
  At = "seal" =>
    /\ \A p \in Paths :
         /\ snap.ident[p] <= ident[p] /\ rows[p].id <= snap.ident[p]
         /\ Held(p) => Due(p, "path") \/ snap.ident[p] = rows[p].id
    /\ kit # NotRead /\ snap.ident[KitDir] = rows[KitDir].id => snap.present = kit

\* close takes one row after another.
CloseInv ==
  /\ ~closed => tried = {}
  /\ closed => \A p \in Paths :
       /\ Held(p) => \/ Has(order, p)
                     \/ p \in tried
                     \/ Reused(p) /\ failure
       /\ p \in tried => ~Reused(p)
  /\ pc = "closed" => order = <<>>

\* The inductive invariant.
IInv == TypeOK /\ FlagsOK /\ RowInv /\ OrderInv /\ ControlInv /\ GotInv /\ FileInv /\ WalkInv
        /\ KitInv /\ SealInv /\ SealIsSnapshot /\ CloseInv

-----------------------------------------------------------------------------

\* The comparisons of a check: for every row its descriptor, then its path.
LEMMA ComparisonFacts ==
    ASSUME NEW s \in Seq(Paths), NEW c, c = Comparisons(s)
    PROVE  /\ c \in Seq(Tests) /\ (s # <<>> => c # <<>>)
           /\ \A p : Has(s, p) => Has(c, <<p, "fd">>) /\ Has(c, <<p, "path">>)
  <1>1. PICK n \in Nat : n = Len(s)
    OBVIOUS
  <1>2. c = [i \in 1..(2 * n) |-> <<s[(i + 1) \div 2], IF i % 2 = 1 THEN "fd" ELSE "path">>]
    BY <1>1 DEF Comparisons
  <1>3. ASSUME NEW i \in 1..(2 * n) PROVE (i + 1) \div 2 \in 1..n
    BY <1>1
  <1>4. c \in Seq(Tests) /\ Len(c) = 2 * n
    <2>1. \A i \in 1..(2 * n) : c[i] \in Tests
      BY <1>1, <1>2, <1>3 DEF Tests
    <2>2. PICK m \in Nat : m = 2 * n
      OBVIOUS
    <2>3. c = [i \in 1..m |-> c[i]] /\ \A i \in 1..m : c[i] \in Tests
      BY <1>2, <2>1, <2>2
    <2>4. c \in [1..m -> Tests]
      BY <2>3
    <2> QED
      BY <2>2, <2>4
  <1>5. ASSUME NEW i \in 1..n
        PROVE  /\ 2 * i - 1 \in 1..(2 * n) /\ c[2 * i - 1] = <<s[i], "fd">>
               /\ 2 * i \in 1..(2 * n) /\ c[2 * i] = <<s[i], "path">>
    <2>1. /\ 2 * i - 1 \in 1..(2 * n) /\ ((2 * i - 1) + 1) \div 2 = i /\ (2 * i - 1) % 2 = 1
          /\ 2 * i \in 1..(2 * n) /\ (2 * i + 1) \div 2 = i /\ (2 * i) % 2 = 0
      BY <1>1
    <2>2. PICK j \in 1..(2 * n), k \in 1..(2 * n) : j = 2 * i - 1 /\ k = 2 * i
      BY <2>1
    <2>3. (j + 1) \div 2 = i /\ j % 2 = 1 /\ (k + 1) \div 2 = i /\ k % 2 # 1
      BY <2>1, <2>2
    <2>4. c[j] = <<s[i], "fd">> /\ c[k] = <<s[i], "path">>
      BY <1>2, <2>3
    <2> QED
      BY <2>1, <2>2, <2>4
  <1>6. s # <<>> => c # <<>>
    BY <1>1, <1>4
  <1>7. ASSUME NEW p, Has(s, p) PROVE Has(c, <<p, "fd">>) /\ Has(c, <<p, "path">>)
    <2>1. PICK i \in 1..n : s[i] = p
      BY <1>1, <1>7 DEF Has
    <2> QED
      BY <1>4, <1>5, <2>1 DEF Has
  <1> QED
    BY <1>4, <1>6, <1>7

\* A check begins, and goes on at `next' when it has passed.
LEMMA CheckFacts ==
    ASSUME NEW s \in Seq(Paths), NEW next \in Steps, Check(s, next)
    PROVE  /\ then' = next /\ todo' \in Seq(Tests) /\ pc' \in {next, "check"}
           /\ At' = next
           /\ pc' = "check" => todo' # <<>>
           /\ \A p : Has(s, p) => Due(p, "fd")' /\ Due(p, "path")'
  <1>1. next # "check"
    BY DEF Steps
  <1>2. then' = next /\ todo' = Comparisons(s) /\ pc' = IF s = <<>> THEN next ELSE "check"
    BY DEF Check
  <1>3. PICK c : c = Comparisons(s)
    OBVIOUS
  <1>4. /\ c \in Seq(Tests) /\ (s # <<>> => c # <<>>)
        /\ \A p : Has(s, p) => Has(c, <<p, "fd">>) /\ Has(c, <<p, "path">>)
    BY <1>3, ComparisonFacts
  <1>5. \A p : Has(s, p) => s # <<>>
    BY DEF Has
  <1>6. todo' = c
    BY <1>2, <1>3
  <1>7. At' = next
    BY <1>1, <1>2 DEF At
  <1>8. pc' = "check" => todo' # <<>>
    BY <1>1, <1>2, <1>4, <1>6
  <1>9. ASSUME NEW p, Has(s, p) PROVE Due(p, "fd")' /\ Due(p, "path")'
    <2>1. pc' = "check" /\ Has(c, <<p, "fd">>) /\ Has(c, <<p, "path">>)
      BY <1>2, <1>4, <1>5, <1>9
    <2>2. Has(todo, <<p, "fd">>)' /\ Has(todo, <<p, "path">>)'
      BY <1>6, <2>1 DEF Has
    <2> QED
      BY <2>1, <2>2 DEF Due
  <1> QED
    BY <1>2, <1>4, <1>6, <1>7, <1>8, <1>9

\* An exception: what is known of the files is dropped, and only close is left.
LEMMA FailStep == ASSUME IInv, ~closed, Fail PROVE IInv'
  <1> USE DEF IInv
  <1>1. /\ pc' = "closing" /\ closed' = TRUE /\ files' = [p \in Files \cup Kit |-> <<>>]
        /\ failure' \in BOOLEAN
        /\ UNCHANGED <<ident, present, rows, order, kit, sealed, then, todo, cur, got, back, names,
                       listed, stolen, tried, snap>>
    BY DEF Fail, world, call, walk
  <1>2. closed'
    BY <1>1
  <1>3. At' = "closing"
    BY <1>1 DEF At
  <1>4. TypeOK'
    <2>1. files' \in [Texts -> Seq(Int)]
      BY <1>1 DEF Texts
    <2>2. pc' \in Steps \cup {"check", "closing", "closed"}
      BY <1>1
    <2> QED
      BY <1>1, <2>1, <2>2 DEF TypeOK
  <1>5. FlagsOK'
    <2>1. TRUE \in BOOLEAN
      BY Zenon
    <2> QED
      BY <1>1, <2>1 DEF FlagsOK
  <1>6. RowInv' /\ OrderInv' /\ FileInv' /\ KitInv' /\ SealIsSnapshot'
    BY <1>1, <1>2 DEF RowInv, OrderInv, FileInv, KitInv, SealIsSnapshot
  <1>7. ControlInv' /\ GotInv' /\ WalkInv' /\ SealInv'
    BY <1>1, <1>2, <1>3 DEF ControlInv, GotInv, WalkInv, Walking, Reading, SealInv
  <1>8. CloseInv'
    BY <1>1, <1>2 DEF CloseInv, OrderInv, Held
  <1> QED
    BY <1>4, <1>5, <1>6, <1>7, <1>8

-----------------------------------------------------------------------------

\* A step of the owner that moves control only.
LEMMA MoveStep ==
    ASSUME IInv, pc \notin {"fstatdir", "fstat", "fstatkit", "closing", "closed"},
           UNCHANGED <<ident, present, rows, order, files, kit, sealed, closed, failure, stolen,
                       tried, snap>>,
           pc' \in Steps \cup {"check"}, then' \in Steps, todo' \in Seq(Tests), got' \in Seq(Int),
           back' \in {"idle", "kitfile"}, names' \in SUBSET Kit, listed' \in SUBSET Kit,
           ControlInv', GotInv', WalkInv', SealInv'
    PROVE  IInv'
  <1> USE DEF IInv
  <1>1. TypeOK'
    BY DEF TypeOK
  <1>2. FlagsOK' /\ SealIsSnapshot'
    BY DEF FlagsOK, SealIsSnapshot
  <1>3. RowInv' /\ FileInv' /\ KitInv'
    BY DEF RowInv, FileInv, KitInv
  <1>4. OrderInv'
    BY DEF OrderInv, Held, Has
  <1>5. ~closed
    BY DEF ControlInv
  <1>6. pc' # "closed"
    BY DEF Steps
  <1>7. CloseInv'
    BY <1>5, <1>6 DEF CloseInv
  <1> QED
    BY <1>1, <1>2, <1>3, <1>4, <1>7

\* The sets the lemmas below quote.
LEMMA StepsFacts ==
    /\ \A x \in Steps : x \notin {"check", "closing", "closed"}
    /\ {"idle", "lookup", "opendir", "fstatdir", "open", "fstat", "chunk", "store", "kitdir",
        "openkit", "fstatkit", "list", "kitnext", "kitfile", "kitdone", "seal"} = Steps
  BY DEF Steps

\* read begins with a check of the whole set.
LEMMA ReadStep == ASSUME IInv, NEW f \in Files, Read(f) PROVE IInv'
  <1> USE DEF IInv
  <1>1. /\ pc = "idle" /\ ~closed /\ Check(order, "lookup")
        /\ cur' = f /\ got' = <<>> /\ back' = "idle"
        /\ UNCHANGED <<ident, present, rows, order, files, kit, sealed, closed, failure, stolen,
                       tried, snap, names, listed>>
    BY DEF Read, world, store, walk, end
  <1>2. /\ then' = "lookup" /\ todo' \in Seq(Tests) /\ pc' \in {"lookup", "check"}
        /\ At' = "lookup" /\ (pc' = "check" => todo' # <<>>)
    BY <1>1, CheckFacts, StepsFacts DEF TypeOK
  <1>3. ControlInv'
    BY <1>1, <1>2 DEF ControlInv, Texts
  <1>4. GotInv' /\ SealInv'
    BY <1>2 DEF GotInv, SealInv
  <1>5. WalkInv'
    BY <1>1, <1>2 DEF WalkInv, Walking
  <1>6. pc' \in Steps \cup {"check"} /\ then' \in Steps /\ got' \in Seq(Int)
    BY <1>1, <1>2 DEF Steps
  <1> QED
    BY <1>1, <1>2, <1>3, <1>4, <1>5, <1>6, MoveStep DEF TypeOK

\* read_kit begins with a check of the whole set, and so do the later re-checks.
LEMMA ReadKitStep == ASSUME IInv, ReadKit \/ Recheck PROVE IInv'
  <1> USE DEF IInv
  <1>1. PICK a \in {"kitdir", "idle"} :
        /\ pc = "idle" /\ ~closed /\ Check(order, a) /\ (sealed => a = "idle")
        /\ UNCHANGED <<ident, present, rows, order, files, kit, sealed, closed, failure, stolen,
                       tried, snap, cur, got, back, names, listed>>
    BY DEF ReadKit, Recheck, world, store, walk, end
  <1>2. /\ then' = a /\ todo' \in Seq(Tests) /\ pc' \in {a, "check"}
        /\ At' = a /\ (pc' = "check" => todo' # <<>>)
    BY <1>1, CheckFacts, StepsFacts DEF TypeOK
  <1>3. ControlInv'
    BY <1>1, <1>2 DEF ControlInv
  <1>4. GotInv' /\ SealInv'
    BY <1>2 DEF GotInv, SealInv
  <1>5. WalkInv'
    BY <1>1, <1>2 DEF WalkInv, Walking, Reading
  <1>6. pc' \in Steps \cup {"check"} /\ then' \in Steps
    BY <1>1, <1>2 DEF Steps
  <1> QED
    BY <1>1, <1>2, <1>3, <1>4, <1>5, <1>6, MoveStep DEF TypeOK

\* seal takes its snapshot and checks the whole set: all paths are still to be compared.
LEMMA SealStep == ASSUME IInv, Seal PROVE IInv'
  <1> USE DEF IInv
  <1>1. /\ pc = "idle" /\ ~closed /\ ~sealed /\ Check(order, "seal")
        /\ snap' = [ident |-> ident, present |-> present]
        /\ UNCHANGED <<ident, present, rows, order, files, kit, sealed, closed, failure, stolen,
                       tried, cur, got, back, names, listed>>
    BY DEF Seal, world, store, walk, end
  <1>2. /\ then' = "seal" /\ todo' \in Seq(Tests) /\ pc' \in {"seal", "check"}
        /\ At' = "seal" /\ (pc' = "check" => todo' # <<>>)
        /\ \A p : Has(order, p) => Due(p, "path")'
    BY <1>1, CheckFacts, StepsFacts DEF TypeOK
  <1>3. ControlInv'
    BY <1>1, <1>2 DEF ControlInv
  <1>4. GotInv'
    BY <1>2 DEF GotInv
  <1>5. SealInv'
    <2>1. snap'.ident = ident /\ snap'.present = present
      BY <1>1
    <2>2. ASSUME NEW p \in Paths
          PROVE  /\ snap'.ident[p] <= ident'[p] /\ rows'[p].id <= snap'.ident[p]
                 /\ Held(p)' => Due(p, "path")'
      <3>1. ident[p] <= ident[p]
        BY DEF TypeOK
      <3>2. Held(p)' => Held(p)
        BY <1>1 DEF Held
      <3> QED
        BY <1>1, <1>2, <2>1, <3>1, <3>2 DEF RowInv, OrderInv
    <2>3. kit' # NotRead /\ snap'.ident[KitDir] = rows'[KitDir].id => snap'.present = kit'
      BY <1>1, <2>1 DEF KitInv
    <2> QED
      BY <2>2, <2>3 DEF SealInv
  <1>6. WalkInv'
    BY <1>1, <1>2 DEF WalkInv, Walking, Reading
  <1>7. TypeOK'
    <2>1. pc' \in Steps \cup {"check", "closing", "closed"} /\ then' \in Steps
      BY <1>1, <1>2 DEF Steps
    <2>2. snap' \in [ident : [Paths -> Nat], present : SUBSET Kit]
      BY <1>1 DEF TypeOK
    <2> QED
      BY <1>1, <1>2, <2>1, <2>2 DEF TypeOK
  <1>8. FlagsOK' /\ SealIsSnapshot'
    BY <1>1 DEF FlagsOK, SealIsSnapshot
  <1>9. RowInv' /\ FileInv' /\ KitInv'
    BY <1>1 DEF RowInv, FileInv, KitInv
  <1>10. OrderInv'
    BY <1>1 DEF OrderInv, Held, Has
  <1>11. CloseInv'
    BY <1>1, <1>2 DEF CloseInv
  <1> QED
    BY <1>3, <1>4, <1>5, <1>6, <1>7, <1>8, <1>9, <1>10, <1>11

-----------------------------------------------------------------------------

\* The directory of a file is a path.
LEMMA DirFacts == \A p : Dir(p) \in Paths
  BY DEF Dir, Paths

\* read looks for the bytes it has, then for the directory's row.
LEMMA LookupStep == ASSUME IInv, Lookup PROVE IInv'
  <1> USE DEF IInv
  <1>1. pc = "lookup" /\ At = "lookup" /\ ~closed /\ cur \in Texts /\ got = <<>>
    BY DEF Lookup, At, ControlInv
  <1>2. CASE Fail
    BY <1>1, <1>2, FailStep
  <1>3. CASE files[cur] # <<>> /\ pc' = back
             /\ UNCHANGED <<world, rows, order, store, sealed, closed, call, end, stolen, snap>>
    <2>1. UNCHANGED <<ident, present, rows, order, files, kit, sealed, closed, failure, stolen,
                      tried, snap, then, todo, cur, got, back, names, listed>>
      BY <1>3 DEF world, store, call, walk, end
    <2>2. back \in {"idle", "kitfile"} /\ pc' = back /\ At' = back
      BY <1>3, <2>1 DEF TypeOK, At
    <2>3. ControlInv'
      BY <1>1, <2>1, <2>2 DEF ControlInv
    <2>4. GotInv' /\ SealInv'
      BY <2>2 DEF GotInv, SealInv
    <2>5. WalkInv'
      BY <1>1, <1>3, <2>1, <2>2 DEF WalkInv, Walking, Reading
    <2>6. pc' \in Steps \cup {"check"}
      BY <2>2 DEF Steps
    <2> QED
      BY <1>1, <2>1, <2>3, <2>4, <2>5, <2>6, MoveStep DEF TypeOK
  <1>4. CASE /\ files[cur] = <<>> /\ ~sealed
             /\ IF Held(Dir(cur)) THEN Check(<<Dir(cur)>>, "open")
                                  ELSE pc' = "opendir" /\ UNCHANGED <<then, todo>>
             /\ UNCHANGED <<world, rows, order, store, sealed, closed, cur, got, back, walk, end,
                            stolen, snap>>
    <2>1. UNCHANGED <<ident, present, rows, order, files, kit, sealed, closed, failure, stolen,
                      tried, snap, cur, got, back, names, listed>>
      BY <1>4 DEF world, store, walk, end
    <2>2. /\ then' \in Steps /\ todo' \in Seq(Tests) /\ pc' \in Steps \cup {"check"}
          /\ At' \in {"open", "opendir"} /\ (pc' = "check" => todo' # <<>>)
          /\ pc' = "opendir" => ~Held(Dir(cur))
          /\ pc' \in {"open", "opendir", "check"} /\ (pc' = "check" => then' = "open")
      <3>1. CASE Held(Dir(cur))
        <4>1. <<Dir(cur)>> \in Seq(Paths)
          BY DirFacts
        <4>2. Check(<<Dir(cur)>>, "open")
          BY <1>4, <3>1
        <4> QED
          BY <3>1, <4>1, <4>2, CheckFacts, StepsFacts
      <3>2. CASE ~Held(Dir(cur))
        BY <1>4, <3>2 DEF TypeOK, Steps, At
      <3> QED
        BY <3>1, <3>2
    <2>3. ControlInv'
      BY <1>1, <1>4, <2>1, <2>2 DEF ControlInv, Held
    <2>4. GotInv' /\ SealInv'
      BY <2>2 DEF GotInv, SealInv
    <2>5. WalkInv'
      BY <1>1, <2>1, <2>2 DEF WalkInv, Walking, Reading
    <2> QED
      BY <1>1, <2>1, <2>2, <2>3, <2>4, <2>5, MoveStep DEF TypeOK
  <1> QED
    BY <1>2, <1>3, <1>4 DEF Lookup

\* acquire: the row of path p is new, registered, and not yet known.
LEMMA AcquireStep ==
    ASSUME IInv, NEW from, NEW p \in Paths, NEW next, Acquire(from, p, next), ~Held(p),
           \/ from = "opendir" /\ p = Dir(cur) /\ next = "fstatdir"
           \/ from = "open" /\ p = cur /\ next = "fstat"
           \/ from = "openkit" /\ p = KitDir /\ next = "fstatkit"
    PROVE  IInv'
  <1> USE DEF IInv
  <1>1. pc = from /\ At = from /\ ~closed /\ ~sealed
    BY DEF Acquire, At, ControlInv, FlagsOK
  <1>2. CASE Fail
    BY <1>1, <1>2, FailStep
  <1>3. CASE /\ rows' = [rows EXCEPT ![p] = [fd |-> ident[p], id |-> None]]
             /\ order' = Append(order, p) /\ pc' = next
             /\ UNCHANGED <<world, store, sealed, closed, call, end, stolen, snap>>
    <2>1. UNCHANGED <<ident, present, files, kit, sealed, closed, failure, stolen,
                      tried, snap, then, todo, cur, got, back, names, listed>>
      BY <1>3 DEF world, store, call, walk, end
    <2>2. At' = next /\ pc' = next /\ next \in {"fstatdir", "fstat", "fstatkit"}
      BY <1>3 DEF At
    <2>3. ident[p] \in Nat /\ ident[p] >= 1 /\ rows \in [Paths -> RowStates] /\ order \in Seq(Paths)
      BY DEF TypeOK, RowInv
    <2>4. /\ rows' \in [Paths -> RowStates]
          /\ rows'[p].fd = ident[p] /\ rows'[p].id = None
          /\ \A q \in Paths : q # p => rows'[q] = rows[q]
      BY <1>3, <2>3 DEF RowStates, None
    <2>5. rows[p].fd = None /\ rows[p].id = None
      BY DEF Held, NoRow
    <2>6. TypeOK'
      <3>1. order' \in Seq(Paths)
        BY <1>3, <2>3
      <3>2. pc' \in Steps \cup {"check", "closing", "closed"}
        BY <2>2 DEF Steps
      <3> QED
        BY <2>1, <2>4, <3>1, <3>2 DEF TypeOK
    <2>7. RowInv'
      <3> SUFFICES ASSUME NEW q \in Paths PROVE RowInv!(q)'
        BY DEF RowInv
      <3>1. CASE q = p
        BY <2>1, <2>3, <2>4, <2>5, <3>1 DEF RowInv, None, Foreign
      <3>2. CASE q # p
        BY <2>1, <2>4, <3>2 DEF RowInv
      <3> QED
        BY <3>1, <3>2
    <2>8. Held(p)' /\ \A q \in Paths : q # p => (Held(q)' <=> Held(q))
      BY <2>3, <2>4 DEF Held, NoRow, None
    <2>9. OrderInv'
      <3> SUFFICES ASSUME NEW q \in Paths, Held(q)'
                   PROVE  /\ Has(order, q)'
                          /\ rows'[q].id = None => q = p
        BY <2>1, <2>2 DEF OrderInv
      <3>1. Has(order, p)'
        BY <1>3, <2>3 DEF Has
      <3>2. CASE q # p
        <4>1. Has(order, q) /\ rows[q].id # None
          BY <1>1, <2>8, <3>2 DEF OrderInv
        <4>2. Has(order, q)'
          BY <1>3, <2>3, <4>1 DEF Has
        <4> QED
          BY <2>4, <3>2, <4>1, <4>2
      <3> QED
        BY <3>1, <3>2
    <2>10. ControlInv'
      BY <1>1, <2>1, <2>2, <2>4, <2>8 DEF ControlInv
    <2>11. GotInv' /\ SealInv'
      BY <2>2 DEF GotInv, SealInv
    <2>12. FlagsOK' /\ SealIsSnapshot'
      BY <1>1, <2>1 DEF FlagsOK, SealIsSnapshot
    <2>13. FileInv'
      <3> SUFFICES ASSUME NEW f \in Texts, files'[f] # <<>>
                   PROVE  /\ rows'[f].id # None
                          /\ \A i \in 1..Len(files'[f]) : files'[f][i] = rows'[f].id
        BY DEF FileInv
      <3>1. f \in Paths /\ rows[f].id # None
        BY <1>1, <2>1 DEF FileInv, Texts, Paths
      <3>2. rows'[f] = rows[f]
        BY <2>4, <2>5, <3>1
      <3> QED
        BY <1>1, <2>1, <3>2 DEF FileInv
    <2>14. KitDir \in Paths /\ (rows[KitDir].id # None => rows'[KitDir] = rows[KitDir])
      BY <2>4, <2>5 DEF Paths
    <2>15. KitInv'
      BY <1>1, <2>1, <2>14 DEF KitInv
    <2>16. WalkInv'
      BY <1>1, <2>1, <2>2, <2>14 DEF WalkInv, Walking, Reading
    <2>17. CloseInv'
      BY <1>1, <2>1, <2>2 DEF CloseInv
    <2> QED
      BY <2>6, <2>7, <2>9, <2>10, <2>11, <2>12, <2>13, <2>15, <2>16, <2>17
  <1> QED
    BY <1>2, <1>3 DEF Acquire

\* acquire goes on: fstat makes the row known, and the row is compared.
LEMMA FstatStep ==
    ASSUME IInv, NEW from, NEW p \in Paths, NEW next, Fstat(from, p, next),
           \/ from = "fstatdir" /\ p = Dir(cur) /\ next = "open"
           \/ from = "fstat" /\ p = cur /\ next = "chunk"
           \/ from = "fstatkit" /\ p = KitDir /\ next = "list"
    PROVE  IInv'
  <1> USE DEF IInv
  <1>1. pc = from /\ At = from /\ ~closed /\ ~sealed /\ Held(p) /\ rows[p].id = None
    BY DEF Fstat, At, ControlInv, FlagsOK
  <1>2. CASE Fail
    BY <1>1, <1>2, FailStep
  <1>3. CASE /\ rows' = [rows EXCEPT ![p].id = rows[p].fd] /\ Check(<<p>>, next)
             /\ UNCHANGED <<world, order, store, sealed, closed, cur, got, back, walk, end,
                            stolen, snap>>
    <2>1. UNCHANGED <<ident, present, order, files, kit, sealed, closed, failure, stolen,
                      tried, snap, cur, got, back, names, listed>>
      BY <1>3 DEF world, store, walk, end
    <2>2. next \in {"open", "chunk", "list"} /\ next \in Steps
      BY DEF Steps
    <2>3. /\ then' = next /\ todo' \in Seq(Tests) /\ pc' \in {next, "check"}
          /\ At' = next /\ (pc' = "check" => todo' # <<>>)
      <3>1. <<p>> \in Seq(Paths)
        OBVIOUS
      <3> QED
        BY <1>3, <2>2, <3>1, CheckFacts
    <2>4. rows \in [Paths -> RowStates] /\ rows[p] \in RowStates
      BY DEF TypeOK
    <2>5. /\ rows' \in [Paths -> RowStates]
          /\ rows'[p].fd = rows[p].fd /\ rows'[p].id = rows[p].fd
          /\ \A q \in Paths : q # p => rows'[q] = rows[q]
      BY <1>3, <2>4 DEF RowStates
    <2>6. rows[p].fd # None
      BY <1>1, <2>4 DEF Held, NoRow, RowStates
    <2>7. TypeOK'
      <3>1. pc' \in Steps \cup {"check", "closing", "closed"} /\ then' \in Steps
        BY <2>2, <2>3
      <3> QED
        BY <2>1, <2>3, <2>5, <3>1 DEF TypeOK
    <2>8. RowInv'
      <3> SUFFICES ASSUME NEW q \in Paths PROVE RowInv!(q)'
        BY DEF RowInv
      <3>1. CASE q = p
        BY <2>1, <2>4, <2>5, <2>6, <3>1 DEF RowInv, None, Foreign, RowStates, TypeOK
      <3>2. CASE q # p
        BY <2>1, <2>5, <3>2 DEF RowInv
      <3> QED
        BY <3>1, <3>2
    <2>9. Held(p)' /\ \A q \in Paths : q # p => (Held(q)' <=> Held(q))
      BY <2>5, <2>6 DEF Held, NoRow
    <2>10. OrderInv'
      <3> SUFFICES ASSUME NEW q \in Paths, Held(q)' PROVE Has(order, q)' /\ rows'[q].id # None
        BY DEF OrderInv
      <3>1. Held(q)
        BY <1>1, <2>9
      <3>2. Has(order, q)'
        BY <1>1, <2>1, <3>1 DEF OrderInv, Has
      <3>3. q # p => rows[q].id # None
        BY <1>1, <3>1 DEF OrderInv
      <3> QED
        BY <2>5, <2>6, <3>2, <3>3
    <2>11. ControlInv'
      BY <1>1, <2>1, <2>3, <2>9 DEF ControlInv
    <2>12. got = <<>> \/ next = "list"
      BY <1>1 DEF ControlInv
    <2>13. GotInv' /\ SealInv'
      BY <2>1, <2>2, <2>3, <2>12 DEF GotInv, SealInv
    <2>14. FlagsOK' /\ SealIsSnapshot'
      BY <1>1, <2>1 DEF FlagsOK, SealIsSnapshot
    <2>15. FileInv'
      <3> SUFFICES ASSUME NEW f \in Texts, files'[f] # <<>>
                   PROVE  /\ rows'[f].id # None
                          /\ \A i \in 1..Len(files'[f]) : files'[f][i] = rows'[f].id
        BY DEF FileInv
      <3>1. f \in Paths /\ rows[f].id # None
        BY <1>1, <2>1 DEF FileInv, Texts, Paths
      <3>2. rows'[f] = rows[f]
        BY <1>1, <2>5, <3>1
      <3> QED
        BY <1>1, <2>1, <3>2 DEF FileInv
    <2>16. KitDir \in Paths /\ (rows[KitDir].id # None => rows'[KitDir] = rows[KitDir])
      BY <1>1, <2>5 DEF Paths
    <2>17. KitInv'
      BY <1>1, <2>1, <2>16 DEF KitInv
    <2>18. WalkInv'
      BY <1>1, <2>1, <2>2, <2>3, <2>16 DEF WalkInv, Walking, Reading
    <2>19. CloseInv'
      BY <1>1, <2>1, <2>2, <2>3 DEF CloseInv
    <2> QED
      BY <2>7, <2>8, <2>10, <2>11, <2>13, <2>14, <2>15, <2>17, <2>18, <2>19
  <1> QED
    BY <1>2, <1>3 DEF Fstat

-----------------------------------------------------------------------------

\* os.read: the chunk is of what the descriptor stands for, and that is compared next.
LEMMA ReadChunkStep == ASSUME IInv, ReadChunk PROVE IInv'
  <1> USE DEF IInv
  <1>1. pc = "chunk" /\ At = "chunk" /\ ~closed /\ ~sealed /\ cur \in Texts /\ Held(cur)
    BY DEF ReadChunk, At, ControlInv, FlagsOK
  <1>2. PICK a \in {"store", "chunk"} : Check(order, a)
    BY DEF ReadChunk
  <1>3. /\ got' = Append(got, rows[cur].fd)
        /\ UNCHANGED <<ident, present, rows, order, files, kit, sealed, closed, failure, stolen,
                       tried, snap, cur, back, names, listed>>
    BY DEF ReadChunk, world, store, walk, end
  <1>4. cur \in Paths /\ rows[cur] \in RowStates /\ got \in Seq(Int) /\ order \in Seq(Paths)
    BY <1>1 DEF TypeOK, Texts, Paths
  <1>5. Has(order, cur) /\ rows[cur].id # None
    BY <1>1, <1>4 DEF OrderInv
  <1>6. /\ then' = a /\ todo' \in Seq(Tests) /\ pc' \in {a, "check"}
        /\ At' = a /\ (pc' = "check" => todo' # <<>>) /\ Due(cur, "fd")'
    <2>1. a \in Steps
      BY DEF Steps
    <2>2. /\ then' = a /\ todo' \in Seq(Tests) /\ pc' \in {a, "check"}
          /\ At' = a /\ (pc' = "check" => todo' # <<>>)
          /\ \A p : Has(order, p) => Due(p, "fd")'
      BY <1>2, <1>4, <2>1, CheckFacts
    <2>3. Due(cur, "fd")'
      <3>1. PICK p : p = cur
        OBVIOUS
      <3>2. Due(p, "fd")'
        BY <1>5, <2>2, <3>1
      <3> QED
        BY <1>3, <3>1, <3>2 DEF Due
    <2> QED
      BY <2>2, <2>3
  <1>7. got' \in Seq(Int) /\ got' # <<>> /\ Len(got') = Len(got) + 1
        /\ got'[Len(got) + 1] = rows[cur].fd /\ \A i \in 1..Len(got) : got'[i] = got[i]
    BY <1>3, <1>4 DEF RowStates
  <1>8. ControlInv'
    BY <1>1, <1>3, <1>6, <1>7 DEF ControlInv, Held
  <1>9. GotInv'
    <2> SUFFICES ASSUME NEW i \in 1..Len(got')
                 PROVE  \/ got'[i] = rows'[cur'].id
                        \/ /\ got'[i] = Foreign => rows'[cur'].fd = Foreign
                           /\ rows'[cur'].id = Foreign => got'[i] = Foreign
                           /\ got'[i] # Foreign =>
                                /\ rows'[cur'].id <= got'[i]
                                /\ rows'[cur'].fd # Foreign => got'[i] <= rows'[cur'].fd
      BY <1>3, <1>6 DEF GotInv
    <2>1. CASE i = Len(got) + 1
      <3>1. got'[i] = rows[cur].fd /\ rows[cur].fd \in Int
        BY <1>4, <1>7, <2>1 DEF RowStates
      <3>2. /\ rows[cur].fd # Foreign => rows[cur].id <= rows[cur].fd
            /\ rows[cur].id = Foreign => rows[cur].fd = Foreign
        BY <1>4, <1>5 DEF RowInv
      <3> QED
        BY <1>3, <3>1, <3>2
    <2>2. CASE i # Len(got) + 1
      <3>1. i \in 1..Len(got)
        BY <1>4, <1>7, <2>2
      <3>2. got[i] = rows[cur].id
        BY <1>1, <3>1 DEF GotInv, Due
      <3> QED
        BY <1>3, <1>7, <3>1, <3>2
    <2> QED
      BY <2>1, <2>2
  <1>10. SealInv'
    BY <1>6 DEF SealInv
  <1>11. WalkInv'
    BY <1>1, <1>3, <1>6 DEF WalkInv, Walking, Reading
  <1>12. pc' \in Steps \cup {"check"} /\ then' \in Steps
    BY <1>6 DEF Steps
  <1> QED
    BY <1>1, <1>3, <1>6, <1>7, <1>8, <1>9, <1>10, <1>11, <1>12, MoveStep DEF TypeOK

\* The bytes are stored: every chunk is of the identity in the row.
LEMMA StoreStep == ASSUME IInv, Store PROVE IInv'
  <1> USE DEF IInv
  <1>1. /\ pc = "store" /\ At = "store" /\ ~closed /\ ~sealed /\ cur \in Texts /\ Held(cur)
        /\ got # <<>>
    BY DEF Store, At, ControlInv, FlagsOK
  <1>2. CASE Fail
    BY <1>1, <1>2, FailStep
  <1>3. CASE files' = [files EXCEPT ![cur] = got] /\ pc' = back
             /\ UNCHANGED <<world, rows, order, kit, sealed, closed, call, end, stolen, snap>>
    <2>1. UNCHANGED <<ident, present, rows, order, kit, sealed, closed, failure, stolen,
                      tried, snap, then, todo, cur, got, back, names, listed>>
      BY <1>3 DEF world, call, walk, end
    <2>2. back \in {"idle", "kitfile"} /\ pc' = back /\ At' = back
      BY <1>3, <2>1 DEF TypeOK, At
    <2>3. got \in Seq(Int) /\ files \in [Texts -> Seq(Int)] /\ cur \in Paths
      BY <1>1 DEF TypeOK, Texts, Paths
    <2>4. /\ files' \in [Texts -> Seq(Int)] /\ files'[cur] = got
          /\ \A f \in Texts : f # cur => files'[f] = files[f]
      BY <1>1, <1>3, <2>3
    <2>5. \A f \in Texts : files[f] # <<>> => files'[f] # <<>>
      BY <1>1, <2>4
    <2>6. TypeOK'
      <3>1. pc' \in Steps \cup {"check", "closing", "closed"}
        BY <2>2 DEF Steps
      <3> QED
        BY <2>1, <2>4, <3>1 DEF TypeOK
    <2>7. FlagsOK' /\ SealIsSnapshot'
      BY <1>1, <2>1 DEF FlagsOK, SealIsSnapshot
    <2>8. RowInv'
      BY <2>1 DEF RowInv
    <2>9. OrderInv'
      BY <1>1, <2>1 DEF OrderInv, Held, Has
    <2>10. ControlInv'
      BY <1>1, <2>1, <2>2 DEF ControlInv
    <2>11. GotInv' /\ SealInv'
      BY <2>2 DEF GotInv, SealInv
    <2>12. FileInv'
      <3> SUFFICES ASSUME NEW f \in Texts, files'[f] # <<>>
                   PROVE  /\ rows'[f].id # None
                          /\ \A i \in 1..Len(files'[f]) : files'[f][i] = rows'[f].id
        BY DEF FileInv
      <3>1. CASE f = cur
        <4>1. rows[cur].id # None
          BY <1>1, <2>3 DEF OrderInv
        <4>2. \A i \in 1..Len(got) : got[i] = rows[cur].id
          BY <1>1 DEF GotInv, Due
        <4> QED
          BY <2>1, <2>4, <3>1, <4>1, <4>2
      <3>2. CASE f # cur
        BY <1>1, <2>1, <2>4, <3>2 DEF FileInv
      <3> QED
        BY <3>1, <3>2
    <2>13. KitInv'
      <3>1. kit # NotRead => \A k \in kit : k \in Kit /\ files'[k] # <<>>
        BY <1>1, <2>5 DEF KitInv, Texts
      <3> QED
        BY <1>1, <2>1, <3>1 DEF KitInv
    <2>14. WalkInv'
      <3>1. listed \subseteq Texts
        BY DEF TypeOK, Texts
      <3>2. Walking => \A k \in listed \ names : files'[k] # <<>>
        BY <1>1, <2>4, <2>5, <3>1 DEF WalkInv
      <3> QED
        BY <1>1, <2>1, <2>2, <3>2 DEF WalkInv, Walking, Reading
    <2>15. CloseInv'
      BY <1>1, <2>1, <2>2 DEF CloseInv
    <2> QED
      BY <2>6, <2>7, <2>8, <2>9, <2>10, <2>11, <2>12, <2>13, <2>14, <2>15
  <1> QED
    BY <1>2, <1>3 DEF Store

\* read_kit: the root of the kit, acquired or compared again.
LEMMA KitRootStep == ASSUME IInv, KitRoot PROVE IInv'
  <1> USE DEF IInv
  <1>1. pc = "kitdir" /\ At = "kitdir" /\ ~closed /\ ~sealed
    BY DEF KitRoot, At, ControlInv, FlagsOK
  <1>2. UNCHANGED <<ident, present, rows, order, files, kit, sealed, closed, failure, stolen,
                    tried, snap, cur, got, back, names, listed>>
    BY DEF KitRoot, world, store, walk, end
  <1>3. /\ then' \in Steps /\ todo' \in Seq(Tests) /\ pc' \in Steps \cup {"check"}
        /\ At' \in {"list", "openkit"} /\ (pc' = "check" => todo' # <<>>)
        /\ pc' = "openkit" => ~Held(KitDir)
        /\ At' = "list" => Held(KitDir)
        /\ pc' \in {"list", "openkit", "check"} /\ (pc' = "check" => then' = "list")
    <2>1. CASE Held(KitDir)
      <3>1. <<KitDir>> \in Seq(Paths)
        BY DEF Paths
      <3>2. Check(<<KitDir>>, "list")
        BY <2>1 DEF KitRoot
      <3> QED
        BY <2>1, <3>1, <3>2, CheckFacts, StepsFacts
    <2>2. CASE ~Held(KitDir)
      BY <2>2 DEF KitRoot, TypeOK, Steps, At
    <2> QED
      BY <2>1, <2>2
  <1>4. ControlInv'
    BY <1>1, <1>2, <1>3 DEF ControlInv, Held
  <1>5. GotInv' /\ SealInv'
    BY <1>3 DEF GotInv, SealInv
  <1>6. WalkInv'
    BY <1>3 DEF WalkInv, Walking, Reading
  <1> QED
    BY <1>1, <1>2, <1>3, <1>4, <1>5, <1>6, MoveStep DEF TypeOK

\* listdir: the names are those of the directory of this moment.
LEMMA ListStep == ASSUME IInv, List PROVE IInv'
  <1> USE DEF IInv
  <1>1. pc = "list" /\ At = "list" /\ ~closed /\ ~sealed /\ Held(KitDir) /\ KitDir \in Paths
    BY DEF List, At, ControlInv, FlagsOK, Paths
  <1>2. /\ names' = present /\ listed' = present
        /\ UNCHANGED <<ident, present, rows, order, files, kit, sealed, closed, failure, stolen,
                       tried, snap, cur, got, back>>
    BY DEF List, world, store, end
  <1>3. /\ then' = "kitnext" /\ todo' \in Seq(Tests) /\ pc' \in {"kitnext", "check"}
        /\ At' = "kitnext" /\ (pc' = "check" => todo' # <<>>)
    <2>1. Check(order, "kitnext")
      BY DEF List
    <2> QED
      BY <2>1, CheckFacts, StepsFacts DEF TypeOK
  <1>4. ControlInv'
    BY <1>1, <1>2, <1>3 DEF ControlInv
  <1>5. GotInv' /\ SealInv'
    BY <1>3 DEF GotInv, SealInv
  <1>6. WalkInv'
    <2>1. rows[KitDir].id # None
      BY <1>1 DEF OrderInv
    <2> QED
      BY <1>2, <1>3, <2>1 DEF WalkInv
  <1>7. pc' \in Steps \cup {"check"} /\ then' \in Steps
    BY <1>3 DEF Steps
  <1> QED
    BY <1>1, <1>2, <1>3, <1>4, <1>5, <1>6, <1>7, MoveStep DEF TypeOK

\* The next name of the kit is looked at and read, or all were.
LEMMA KitNextStep == ASSUME IInv, KitNext PROVE IInv'
  <1> USE DEF IInv
  <1>1. pc = "kitnext" /\ At = "kitnext" /\ ~closed /\ ~sealed /\ Walking /\ ~Reading
    BY DEF KitNext, At, ControlInv, FlagsOK, Walking, Reading
  <1>2. CASE Fail
    BY <1>1, <1>2, FailStep
  <1>3. ASSUME NEW k \in names, names' = names \ {k}, cur' = k, got' = <<>>, back' = "kitfile",
               Check(order, "lookup"),
               UNCHANGED <<world, rows, order, store, sealed, closed, listed, end, stolen, snap>>
        PROVE  IInv'
    <2>1. UNCHANGED <<ident, present, rows, order, files, kit, sealed, closed, failure, stolen,
                      tried, snap, listed>>
      BY <1>3 DEF world, store, end
    <2>2. /\ then' = "lookup" /\ todo' \in Seq(Tests) /\ pc' \in {"lookup", "check"}
          /\ At' = "lookup" /\ (pc' = "check" => todo' # <<>>)
      BY <1>3, CheckFacts, StepsFacts DEF TypeOK
    <2>3. k \in Texts
      BY DEF TypeOK, Texts
    <2>4. ControlInv'
      BY <1>1, <1>3, <2>1, <2>2, <2>3 DEF ControlInv
    <2>5. GotInv' /\ SealInv'
      BY <2>2 DEF GotInv, SealInv
    <2>6. Reading' /\ Walking'
      BY <1>3, <2>2 DEF Walking, Reading
    <2>7. WalkInv'
      <3>1. \A x \in listed' \ names' : x \in listed \ names \/ x = k
        BY <1>3, <2>1
      <3>2. \A x \in listed \ names : files[x] # <<>>
        BY <1>1 DEF WalkInv
      <3> QED
        BY <1>1, <1>3, <2>1, <2>2, <2>6, <3>1, <3>2 DEF WalkInv
    <2>8. pc' \in Steps \cup {"check"} /\ then' \in Steps /\ got' \in Seq(Int)
      BY <1>3, <2>2 DEF Steps
    <2>9. names' \in SUBSET Kit
      BY <1>3 DEF TypeOK
    <2> QED
      BY <1>1, <1>3, <2>1, <2>2, <2>4, <2>5, <2>7, <2>8, <2>9, MoveStep DEF TypeOK
  <1>4. CASE /\ names = {} /\ Check(order, "kitdone")
             /\ UNCHANGED <<world, rows, order, store, sealed, closed, cur, got, back, walk, end,
                            stolen, snap>>
    <2>1. UNCHANGED <<ident, present, rows, order, files, kit, sealed, closed, failure, stolen,
                      tried, snap, listed, names, cur, got, back>>
      BY <1>4 DEF world, store, walk, end
    <2>2. /\ then' = "kitdone" /\ todo' \in Seq(Tests) /\ pc' \in {"kitdone", "check"}
          /\ At' = "kitdone" /\ (pc' = "check" => todo' # <<>>)
      BY <1>4, CheckFacts, StepsFacts DEF TypeOK
    <2>3. ControlInv'
      BY <1>1, <2>1, <2>2 DEF ControlInv
    <2>4. GotInv' /\ SealInv'
      BY <2>2 DEF GotInv, SealInv
    <2>5. WalkInv'
      BY <1>1, <1>4, <2>1, <2>2 DEF WalkInv
    <2>6. pc' \in Steps \cup {"check"} /\ then' \in Steps
      BY <2>2 DEF Steps
    <2> QED
      BY <1>1, <2>1, <2>2, <2>3, <2>4, <2>5, <2>6, MoveStep DEF TypeOK
  <1> QED
    BY <1>2, <1>3, <1>4 DEF KitNext

-----------------------------------------------------------------------------

\* The file read is the one that was looked at.
LEMMA KitFileStep == ASSUME IInv, KitFile PROVE IInv'
  <1> USE DEF IInv
  <1>1. pc = "kitfile" /\ At = "kitfile" /\ ~closed /\ ~sealed /\ Walking /\ ~Reading
    BY DEF KitFile, At, ControlInv, FlagsOK, Walking, Reading
  <1>2. CASE Fail
    BY <1>1, <1>2, FailStep
  <1>3. CASE pc' = "kitnext"
             /\ UNCHANGED <<world, rows, order, store, sealed, closed, call, end, stolen, snap>>
    <2>1. UNCHANGED <<ident, present, rows, order, files, kit, sealed, closed, failure, stolen,
                      tried, snap, then, todo, cur, got, back, names, listed>>
      BY <1>3 DEF world, store, call, walk, end
    <2>2. At' = "kitnext"
      BY <1>3 DEF At
    <2>3. ControlInv'
      BY <1>1, <1>3, <2>1, <2>2 DEF ControlInv
    <2>4. GotInv' /\ SealInv'
      BY <2>2 DEF GotInv, SealInv
    <2>5. WalkInv'
      BY <1>1, <2>1, <2>2 DEF WalkInv
    <2>6. pc' \in Steps \cup {"check"}
      BY <1>3 DEF Steps
    <2> QED
      BY <1>1, <2>1, <2>3, <2>4, <2>5, <2>6, MoveStep DEF TypeOK
  <1> QED
    BY <1>2, <1>3 DEF KitFile

\* The walk is over: the names are the listed ones and every file was read.
LEMMA KitDoneStep == ASSUME IInv, KitDone PROVE IInv'
  <1> USE DEF IInv
  <1>1. pc = "kitdone" /\ At = "kitdone" /\ ~closed /\ ~sealed /\ Walking /\ ~Reading
    BY DEF KitDone, At, ControlInv, FlagsOK, Walking, Reading
  <1>2. CASE Fail
    BY <1>1, <1>2, FailStep
  <1>3. CASE kit' = listed /\ pc' = "idle"
             /\ UNCHANGED <<world, rows, order, files, sealed, closed, call, end, stolen, snap>>
    <2>1. UNCHANGED <<ident, present, rows, order, files, sealed, closed, failure, stolen,
                      tried, snap, then, todo, cur, got, back, names, listed>>
      BY <1>3 DEF world, call, walk, end
    <2>2. At' = "idle"
      BY <1>3 DEF At
    <2>3. ControlInv'
      BY <1>1, <1>3, <2>1, <2>2 DEF ControlInv
    <2>4. GotInv' /\ SealInv'
      BY <2>2 DEF GotInv, SealInv
    <2>5. WalkInv'
      BY <2>2 DEF WalkInv, Walking, Reading
    <2>6. KitInv'
      <3>1. names = {} /\ \A k \in listed : k \in Kit /\ files[k] # <<>>
        BY <1>1 DEF WalkInv, TypeOK
      <3> QED
        BY <1>1, <1>3, <2>1, <3>1 DEF KitInv, WalkInv
    <2>7. TypeOK'
      BY <1>3, <2>1 DEF TypeOK, Steps
    <2>8. FlagsOK' /\ SealIsSnapshot'
      BY <1>1, <2>1 DEF FlagsOK, SealIsSnapshot
    <2>9. RowInv' /\ FileInv'
      BY <2>1 DEF RowInv, FileInv
    <2>10. OrderInv'
      BY <1>1, <2>1 DEF OrderInv, Held, Has
    <2>11. CloseInv'
      BY <1>1, <1>3, <2>1 DEF CloseInv
    <2> QED
      BY <2>3, <2>4, <2>5, <2>6, <2>7, <2>8, <2>9, <2>10, <2>11
  <1> QED
    BY <1>2, <1>3 DEF KitDone

\* seal ends: everything known was compared after the snapshot.
LEMMA SealDoneStep == ASSUME IInv, SealDone PROVE IInv'
  <1> USE DEF IInv
  <1>1. pc = "seal" /\ At = "seal" /\ ~closed /\ ~sealed
    BY DEF SealDone, At, ControlInv, FlagsOK
  <1>2. CASE Fail
    BY <1>1, <1>2, FailStep
  <1>3. CASE /\ kit # NotRead /\ (\A f \in Files : files[f] # <<>>)
             /\ sealed' = TRUE /\ pc' = "idle"
             /\ UNCHANGED <<world, rows, order, store, closed, call, end, stolen, snap>>
    <2>1. UNCHANGED <<ident, present, rows, order, files, kit, closed, failure, stolen,
                      tried, snap, then, todo, cur, got, back, names, listed>>
      BY <1>3 DEF world, store, call, walk, end
    <2>2. At' = "idle"
      BY <1>3 DEF At
    <2>3. ControlInv'
      BY <1>1, <1>3, <2>1, <2>2 DEF ControlInv
    <2>4. GotInv' /\ SealInv'
      BY <2>2 DEF GotInv, SealInv
    <2>5. WalkInv'
      BY <2>2 DEF WalkInv, Walking, Reading
    <2>6. TypeOK'
      BY <1>3, <2>1 DEF TypeOK, Steps
    <2>7. FlagsOK'
      <3>1. TRUE \in BOOLEAN
        BY Zenon
      <3> QED
        BY <1>3, <2>1, <3>1 DEF FlagsOK
    <2>8. RowInv' /\ FileInv' /\ KitInv'
      BY <2>1 DEF RowInv, FileInv, KitInv
    <2>9. OrderInv'
      BY <1>1, <2>1 DEF OrderInv, Held, Has
    <2>10. CloseInv'
      BY <1>1, <1>3, <2>1 DEF CloseInv
    <2>11. SealIsSnapshot'
      <3>1. ASSUME NEW p \in Paths, rows[p].id # None PROVE snap.ident[p] = rows[p].id
        <4>1. Held(p)
          BY <3>1 DEF Held, NoRow
        <4> QED
          BY <1>1, <4>1 DEF SealInv, Due
      <3>2. KitDir \in Paths
        BY DEF Paths
      <3>3. kit = snap.present
        BY <1>1, <1>3, <3>1, <3>2 DEF SealInv, KitInv
      <3>4. ASSUME NEW f \in Files \cup kit
            PROVE  files[f] # <<>> /\ \A i \in DOMAIN files[f] : files[f][i] = snap.ident[f]
        <4>1. f \in Texts /\ f \in Paths /\ files[f] # <<>>
          BY <1>1, <1>3 DEF KitInv, Texts, Paths
        <4>2. files[f] \in Seq(Int)
          BY <4>1 DEF TypeOK
        <4>3. rows[f].id # None /\ \A i \in 1..Len(files[f]) : files[f][i] = rows[f].id
          BY <1>1, <4>1 DEF FileInv
        <4> QED
          BY <3>1, <4>1, <4>2, <4>3
      <3> QED
        BY <2>1, <3>3, <3>4 DEF SealIsSnapshot
    <2> QED
      BY <2>3, <2>4, <2>5, <2>6, <2>7, <2>8, <2>9, <2>10, <2>11
  <1> QED
    BY <1>2, <1>3 DEF SealDone

\* What is left of a check after its first comparison.
LEMMA TailFacts ==
    ASSUME NEW S, NEW s \in Seq(S), s # <<>>
    PROVE  /\ Head(s) \in S /\ Tail(s) \in Seq(S) /\ Len(s) \in Nat \ {0}
           /\ Len(s) # 1 => Tail(s) # <<>>
           /\ \A x : Has(s, x) => x = Head(s) \/ (Len(s) # 1 /\ Has(Tail(s), x))
  <1>1. PICK n \in Nat \ {0} : n = Len(s)
    OBVIOUS
  <1>2. /\ Head(s) \in S /\ Tail(s) \in Seq(S) /\ Len(Tail(s)) = n - 1 /\ Head(s) = s[1]
        /\ \A i \in 1..(n - 1) : Tail(s)[i] = s[i + 1]
    BY <1>1
  <1>3. n # 1 => Tail(s) # <<>>
    <2>1. Len(<<>>) = 0
      OBVIOUS
    <2>2. n # 1 => n - 1 # 0
      BY <1>1
    <2> QED
      BY <1>2, <2>1, <2>2
  <1>4. ASSUME NEW x, Has(s, x), x # Head(s) PROVE n # 1 /\ Has(Tail(s), x)
    <2>1. PICK i \in 1..n : s[i] = x
      BY <1>1, <1>4 DEF Has
    <2>2. i # 1
      BY <1>2, <1>4, <2>1
    <2>3. PICK j \in 1..(n - 1) : j + 1 = i
      BY <1>1, <2>2
    <2>4. Tail(s)[j] = x
      BY <1>2, <2>1, <2>3
    <2> QED
      BY <1>2, <2>3, <2>4 DEF Has
  <1> QED
    BY <1>1, <1>2, <1>3, <1>4

\* One comparison: what it passes is of the accepted identity at this moment.
LEMMA CheckStepStep == ASSUME IInv, CheckStep PROVE IInv'
  <1> USE DEF IInv
  <1>1. pc = "check" /\ At = then /\ ~closed /\ todo \in Seq(Tests) /\ todo # <<>> /\ then \in Steps
        /\ then \notin {"opendir", "openkit", "fstatdir", "fstat", "fstatkit"}
    BY DEF CheckStep, At, ControlInv, TypeOK
  <1>2. PICK p \in Paths, kind \in {"fd", "path"} : Head(todo) = <<p, kind>>
    <2>1. Head(todo) \in Tests
      BY <1>1, TailFacts
    <2> QED
      BY <2>1 DEF Tests
  <1>3. Head(todo)[1] = p /\ Head(todo)[2] = kind
    BY <1>2
  <1>4. CASE Fail
    BY <1>1, <1>4, FailStep
  <1>5. CASE /\ RowOK(p, kind) /\ todo' = Tail(todo)
             /\ pc' = IF Len(todo) = 1 THEN then ELSE "check"
             /\ UNCHANGED <<world, rows, order, store, sealed, closed, then, cur, got, back,
                            walk, end, stolen, snap>>
    <2>1. UNCHANGED <<ident, present, rows, order, files, kit, sealed, closed, failure, stolen,
                      tried, snap, then, cur, got, back, names, listed>>
      BY <1>5 DEF world, store, walk, end
    <2>2. /\ todo' \in Seq(Tests) /\ pc' \in {then, "check"} /\ At' = then
          /\ (pc' = "check" => todo' # <<>>)
      <3>1. then # "check"
        BY <1>1, StepsFacts
      <3> QED
        BY <1>1, <1>5, <2>1, <3>1, TailFacts DEF At
    <2>3. ASSUME NEW q, NEW k, Due(q, k) PROVE Due(q, k)' \/ (q = p /\ k = kind)
      <3>1. CASE <<q, k>> = Head(todo)
        BY <1>2, <3>1
      <3>2. CASE <<q, k>> # Head(todo)
        <4>1. Len(todo) # 1 /\ Has(Tail(todo), <<q, k>>)
          BY <1>1, <2>3, <3>2, TailFacts DEF Due
        <4>2. Has(todo, <<q, k>>)'
          BY <1>5, <4>1 DEF Has
        <4> QED
          BY <1>5, <4>1, <4>2 DEF Due
      <3> QED
        BY <3>1, <3>2
    <2>4. rows[p] \in RowStates /\ rows[p].fd \in Int /\ rows[p].id \in Int /\ ident[p] \in Nat
      BY DEF TypeOK, RowStates
    <2>5. /\ kind = "fd" => rows[p].fd = rows[p].id
          /\ kind = "path" => ident[p] = rows[p].id
      BY <1>5 DEF RowOK
    <2>6. ControlInv'
      <3>1. \A q : Held(q)' <=> Held(q)
        BY <2>1 DEF Held
      <3>2. pc' \notin {"opendir", "openkit", "fstatdir", "fstat", "fstatkit", "closing", "closed"}
        BY <1>1, <2>2 DEF Steps
      <3> QED
        BY <1>1, <2>1, <2>2, <3>1, <3>2 DEF ControlInv
    <2>7. GotInv'
      <3> SUFFICES ASSUME then \in {"chunk", "store"}, NEW i \in 1..Len(got), got[i] # rows[cur].id
                   PROVE  /\ Due(cur, "fd")'
                          /\ got[i] = Foreign => rows[cur].fd = Foreign
                          /\ rows[cur].id = Foreign => got[i] = Foreign
                          /\ got[i] # Foreign => /\ rows[cur].id <= got[i]
                                                 /\ rows[cur].fd # Foreign => got[i] <= rows[cur].fd
        BY <2>1, <2>2 DEF GotInv
      <3>1. /\ Due(cur, "fd")
            /\ got[i] = Foreign => rows[cur].fd = Foreign
            /\ rows[cur].id = Foreign => got[i] = Foreign
            /\ got[i] # Foreign => /\ rows[cur].id <= got[i]
                                   /\ rows[cur].fd # Foreign => got[i] <= rows[cur].fd
        BY <1>1 DEF GotInv
      <3>2. got[i] \in Int
        BY DEF TypeOK
      <3>3. ~(cur = p /\ kind = "fd")
        BY <2>4, <2>5, <3>1, <3>2
      <3>4. PICK q : q = cur
        OBVIOUS
      <3>5. Due(q, "fd")'
        BY <2>3, <3>1, <3>3, <3>4
      <3>6. Due(cur, "fd")'
        BY <2>1, <3>4, <3>5 DEF Due
      <3> QED
        BY <3>1, <3>6
    <2>8. SealInv'
      <3> SUFFICES ASSUME then = "seal", NEW q \in Paths
                   PROVE  Held(q) => Due(q, "path")' \/ snap.ident[q] = rows[q].id
        BY <1>1, <2>1, <2>2 DEF SealInv, Held
      <3>1. /\ snap.ident[q] <= ident[q] /\ rows[q].id <= snap.ident[q]
            /\ Held(q) => Due(q, "path") \/ snap.ident[q] = rows[q].id
        BY <1>1 DEF SealInv
      <3>2. snap.ident[q] \in Nat
        BY DEF TypeOK
      <3>3. q = p /\ kind = "path" => snap.ident[q] = rows[q].id
        BY <2>4, <2>5, <3>1, <3>2
      <3> QED
        BY <2>3, <3>1, <3>3
    <2>9. WalkInv'
      BY <1>1, <2>1, <2>2 DEF WalkInv, Walking, Reading
    <2>10. pc' \in Steps \cup {"check"}
      BY <1>1, <2>2
    <2> QED
      BY <1>1, <2>1, <2>2, <2>6, <2>7, <2>8, <2>9, <2>10, MoveStep DEF TypeOK
  <1> QED
    BY <1>3, <1>4, <1>5 DEF CheckStep

\* The last row of a sequence and the others.
LEMMA LastFacts ==
    ASSUME NEW S, NEW s \in Seq(S), s # <<>>
    PROVE  Last(s) \in S /\ Front(s) \in Seq(S) /\ \A x : Has(s, x) => x = Last(s) \/ Has(Front(s), x)
  <1>1. PICK n \in Nat \ {0} : n = Len(s)
    OBVIOUS
  <1>2. /\ Last(s) = s[n] /\ Last(s) \in S /\ Front(s) \in Seq(S) /\ Len(Front(s)) = n - 1
        /\ \A i \in 1..(n - 1) : Front(s)[i] = s[i]
    BY <1>1 DEF Last, Front
  <1>3. ASSUME NEW x, Has(s, x), x # Last(s) PROVE Has(Front(s), x)
    <2>1. PICK i \in 1..n : s[i] = x
      BY <1>1, <1>3 DEF Has
    <2>2. i \in 1..(n - 1)
      BY <1>1, <1>2, <1>3, <2>1
    <2> QED
      BY <1>2, <2>1, <2>2 DEF Has
  <1> QED
    BY <1>2, <1>3

\* close takes the last row: closed, or left alone and reported.
LEMMA CloseRowStep == ASSUME IInv, CloseRow PROVE IInv'
  <1> USE DEF IInv
  <1>1. /\ pc = "closing" /\ closed /\ order \in Seq(Paths)
        /\ UNCHANGED <<ident, present, rows, files, kit, sealed, closed, stolen,
                       snap, then, todo, cur, got, back, names, listed>>
    BY DEF CloseRow, ControlInv, TypeOK, world, store, call, walk
  <1>2. /\ pc' \in {"closing", "closed"} /\ order' \in Seq(Paths) /\ tried' \in SUBSET Paths
        /\ failure' \in BOOLEAN
    <2>1. CASE order = <<>>
      <3>1. pc' = "closed" /\ UNCHANGED <<order, failure, tried>>
        BY <2>1 DEF CloseRow, end
      <3> QED
        BY <3>1 DEF TypeOK, FlagsOK
    <2>2. CASE order # <<>>
      <3>1. Last(order) \in Paths /\ Front(order) \in Seq(Paths)
        BY <1>1, <2>2, LastFacts
      <3>2. order' = Front(order) /\ tried' \in {tried, tried \cup {Last(order)}} /\ pc' = pc
        BY <2>2 DEF CloseRow
      <3>3. failure' \in {failure, TRUE}
        BY <2>2 DEF CloseRow
      <3>4. failure' \in BOOLEAN
        BY <3>3, Zenon DEF FlagsOK, IInv
      <3> QED
        BY <1>1, <3>1, <3>2, <3>4 DEF TypeOK
    <2> QED
      BY <2>1, <2>2
  <1>3. TypeOK' /\ FlagsOK'
    BY <1>1, <1>2 DEF TypeOK, FlagsOK
  <1>4. At' \in {"closing", "closed"}
    BY <1>2 DEF At
  <1>5. RowInv' /\ OrderInv' /\ FileInv' /\ KitInv' /\ SealIsSnapshot'
    BY <1>1 DEF RowInv, OrderInv, FileInv, KitInv, SealIsSnapshot
  <1>6. ControlInv' /\ GotInv' /\ WalkInv' /\ SealInv'
    BY <1>1, <1>2, <1>4 DEF ControlInv, GotInv, WalkInv, Walking, Reading, SealInv
  <1>7. CloseInv'
    <2>1. \A q \in Paths : (Held(q)' <=> Held(q)) /\ (Reused(q)' <=> Reused(q))
      BY <1>1 DEF Held, Reused
    <2>2. CASE order = <<>>
      <3>1. pc' = "closed" /\ UNCHANGED <<order, failure, tried>>
        BY <2>2 DEF CloseRow, end
      <3> QED
        BY <1>1, <2>1, <2>2, <3>1 DEF CloseInv, Has
    <2>3. CASE order # <<>>
      <3>1. PICK p \in Paths : p = Last(order)
        BY <1>1, <2>3, LastFacts
      <3>2. /\ order' = Front(order) /\ pc' = pc
            /\ tried' = IF Reused(p) THEN tried ELSE tried \cup {p}
        BY <2>3, <3>1 DEF CloseRow
      <3>3. (failure => failure') /\ (Reused(p) => failure')
        BY <2>3, <3>1 DEF CloseRow
      <3>4. ASSUME NEW q \in Paths, Held(q)
            PROVE  Has(order, q)' \/ q \in tried' \/ (Reused(q) /\ failure')
        <4>1. Has(order, q) \/ q \in tried \/ (Reused(q) /\ failure)
          BY <1>1, <3>4 DEF CloseInv
        <4>2. Has(order, q) /\ q # p => Has(order, q)'
          <5>1. Has(order, q) /\ q # p => Has(Front(order), q)
            BY <1>1, <2>3, <3>1, LastFacts
          <5> QED
            BY <3>2, <5>1 DEF Has
        <4>3. p \in tried' \/ (Reused(p) /\ failure')
          BY <3>2, <3>3
        <4>4. q \in tried => q \in tried'
          BY <3>2
        <4> QED
          BY <3>3, <4>1, <4>2, <4>3, <4>4
      <3>5. ASSUME NEW q \in Paths, q \in tried' PROVE ~Reused(q)
        BY <1>1, <3>2, <3>5 DEF CloseInv
      <3>6. pc' # "closed" /\ closed'
        BY <1>1, <3>2
      <3> QED
        BY <2>1, <3>4, <3>5, <3>6 DEF CloseInv
    <2> QED
      BY <2>2, <2>3
  <1> QED
    BY <1>3, <1>5, <1>6, <1>7

-----------------------------------------------------------------------------

\* A step of the host: identities only grow, descriptors follow them or are stolen,
\* and a kit whose names change has a new directory identity.
LEMMA HostStep ==
    ASSUME IInv, HostActs, ident' \in [Paths -> Nat], present' \in SUBSET Kit,
           rows' \in [Paths -> RowStates], stolen' \in SUBSET Paths, RowInv',
           \A p \in Paths :
             /\ ident[p] <= ident'[p] /\ rows'[p].id = rows[p].id
             /\ rows'[p].fd = None <=> rows[p].fd = None
             /\ rows[p].fd = Foreign => rows'[p].fd = Foreign
             /\ rows'[p].fd # Foreign => rows[p].fd <= rows'[p].fd,
           present' # present => ident[KitDir] # ident'[KitDir]
    PROVE  IInv'
  <1> USE DEF IInv
  <1>1. /\ ~closed
        /\ UNCHANGED <<order, files, kit, sealed, closed, pc, then, todo, cur, got, back, names,
                       listed, failure, tried, snap>>
    BY DEF HostActs, store, call, walk, end
  <1>2. At' = At /\ \A p, k : Due(p, k)' <=> Due(p, k)
    BY <1>1 DEF At, Due, Has
  <1>3. ident \in [Paths -> Nat] /\ rows \in [Paths -> RowStates]
    BY DEF TypeOK
  <1>4. \A p \in Paths : Held(p)' <=> Held(p)
    <2> SUFFICES ASSUME NEW p \in Paths PROVE Held(p)' <=> Held(p)
      OBVIOUS
    <2>1. rows[p] \in RowStates /\ rows'[p] \in RowStates
      BY <1>3
    <2>2. \A x \in RowStates : x = NoRow <=> x.fd = None /\ x.id = None
      BY DEF RowStates, NoRow
    <2> QED
      BY <2>1, <2>2 DEF Held
  <1>5. TypeOK' /\ FlagsOK'
    BY <1>1 DEF TypeOK, FlagsOK
  <1>6. OrderInv'
    BY <1>1, <1>4 DEF OrderInv, Has
  <1>7. KitDir \in Paths /\ \A p : Dir(p) \in Paths
    BY DirFacts DEF Paths
  <1>8. At \in {"fstat", "chunk", "store"} => cur \in Paths
    BY DEF ControlInv, Texts, Paths
  <1>9. ControlInv'
    BY <1>1, <1>2, <1>4, <1>7, <1>8 DEF ControlInv, At
  <1>10. GotInv'
    <2> SUFFICES ASSUME At \in {"chunk", "store"}, NEW i \in 1..Len(got), got[i] # rows'[cur].id
                 PROVE  /\ Due(cur, "fd")
                        /\ got[i] = Foreign => rows'[cur].fd = Foreign
                        /\ rows'[cur].id = Foreign => got[i] = Foreign
                        /\ got[i] # Foreign => /\ rows'[cur].id <= got[i]
                                               /\ rows'[cur].fd # Foreign => got[i] <= rows'[cur].fd
      BY <1>1, <1>2 DEF GotInv, Due
    <2>1. cur \in Paths
      BY <1>8
    <2>2. /\ Due(cur, "fd")
          /\ got[i] = Foreign => rows[cur].fd = Foreign
          /\ rows[cur].id = Foreign => got[i] = Foreign
          /\ got[i] # Foreign => /\ rows[cur].id <= got[i]
                                 /\ rows[cur].fd # Foreign => got[i] <= rows[cur].fd
      BY <2>1 DEF GotInv
    <2>3. got[i] \in Int /\ rows[cur].fd \in Int /\ rows'[cur].fd \in Int
      BY <1>3, <2>1 DEF TypeOK, RowStates
    <2> QED
      BY <2>1, <2>2, <2>3
  <1>11. \A f \in Texts : f \in Paths
    BY DEF Texts, Paths
  <1>12. FileInv'
    BY <1>1, <1>11 DEF FileInv
  <1>13. rows[KitDir].id # None /\ ident'[KitDir] = rows'[KitDir].id =>
           ident[KitDir] = rows[KitDir].id /\ present' = present
    <2>1. rows[KitDir].id <= ident[KitDir] /\ rows[KitDir].id \in Int /\ ident[KitDir] \in Int
          /\ ident'[KitDir] \in Int
      BY <1>3, <1>7 DEF RowInv, RowStates
    <2> QED
      BY <1>7, <2>1
  <1>14. KitInv'
    BY <1>1, <1>7, <1>13 DEF KitInv
  <1>15. WalkInv'
    BY <1>1, <1>2, <1>7, <1>13 DEF WalkInv, Walking, Reading
  <1>16. SealInv'
    <2>1. At = "seal" => \A p \in Paths : snap.ident[p] <= ident'[p]
      <3> SUFFICES ASSUME At = "seal", NEW p \in Paths PROVE snap.ident[p] <= ident'[p]
        OBVIOUS
      <3>1. snap.ident[p] <= ident[p] /\ snap.ident[p] \in Nat /\ ident[p] \in Nat /\ ident'[p] \in Nat
        BY <1>3 DEF SealInv, TypeOK
      <3> QED
        BY <3>1
    <2> QED
      BY <1>1, <1>2, <1>4, <1>7, <2>1 DEF SealInv
  <1>17. SealIsSnapshot'
    BY <1>1 DEF SealIsSnapshot
  <1>18. CloseInv'
    BY <1>1 DEF CloseInv, ControlInv
  <1> QED
    BY <1>5, <1>6, <1>9, <1>10, <1>12, <1>14, <1>15, <1>16, <1>17, <1>18

\* A file is rewritten in place, or another takes its place.
LEMMA RewriteStep == ASSUME IInv, NEW p \in Paths, Rewrite(p) \/ Replace(p) PROVE IInv'
  <1> USE DEF IInv
  <1>1. ident \in [Paths -> Nat] /\ rows \in [Paths -> RowStates]
        /\ \A q \in Paths : rows[q] \in RowStates /\ rows[q].fd \in Int /\ rows[q].id \in Int
                            /\ ident[q] \in Nat
    BY DEF TypeOK, RowStates
  <1>2. HostActs /\ ident' = [ident EXCEPT ![p] = @ + 1] /\ UNCHANGED <<present, stolen>>
    BY DEF Rewrite, Replace
  <1>3. /\ ident' \in [Paths -> Nat] /\ ident'[p] = ident[p] + 1
        /\ \A q \in Paths : q # p => ident'[q] = ident[q]
    BY <1>1, <1>2
  <1>4. /\ rows' \in [Paths -> RowStates]
        /\ rows'[p].id = rows[p].id
        /\ rows'[p].fd = rows[p].fd \/ (rows[p].fd = ident[p] /\ rows'[p].fd = rows[p].fd + 1)
        /\ \A q \in Paths : q # p => rows'[q] = rows[q]
    <2>1. CASE rows' = rows
      BY <1>1, <2>1
    <2>2. CASE rows' = [rows EXCEPT ![p].fd = IF @ = ident[p] THEN @ + 1 ELSE @]
      <3>1. PICK x \in Int : x = IF rows[p].fd = ident[p] THEN rows[p].fd + 1 ELSE rows[p].fd
        BY <1>1
      <3>2. rows' = [rows EXCEPT ![p].fd = x]
        BY <2>2, <3>1
      <3>3. rows' \in [Paths -> RowStates] /\ rows'[p].id = rows[p].id /\ rows'[p].fd = x
            /\ \A q \in Paths : q # p => rows'[q] = rows[q]
        BY <1>1, <3>2 DEF RowStates
      <3> QED
        BY <3>1, <3>3
    <2> QED
      BY <2>1, <2>2 DEF Rewrite, Replace
  <1>5. ASSUME NEW q \in Paths
        PROVE  /\ ident[q] <= ident'[q] /\ rows'[q].id = rows[q].id
               /\ rows'[q].fd = None <=> rows[q].fd = None
               /\ rows[q].fd = Foreign => rows'[q].fd = Foreign
               /\ rows'[q].fd # Foreign => rows[q].fd <= rows'[q].fd
               /\ RowInv!(q)'
    <2>1. CASE q = p
      BY <1>1, <1>2, <1>3, <1>4, <2>1 DEF RowInv, None, Foreign
    <2>2. CASE q # p
      BY <1>1, <1>2, <1>3, <1>4, <2>2 DEF RowInv
    <2> QED
      BY <2>1, <2>2
  <1>6. RowInv'
    BY <1>5 DEF RowInv
  <1> QED
    BY <1>2, <1>3, <1>4, <1>5, <1>6, HostStep DEF TypeOK

\* A kit file comes or goes: the directory gets a new identity.
LEMMA AddOrRemoveStep == ASSUME IInv, NEW k \in Kit, AddOrRemove(k) PROVE IInv'
  <1> USE DEF IInv
  <1>1. ident \in [Paths -> Nat] /\ rows \in [Paths -> RowStates]
        /\ \A q \in Paths : rows[q] \in RowStates /\ rows[q].fd \in Int /\ rows[q].id \in Int
                            /\ ident[q] \in Nat
    BY DEF TypeOK, RowStates
  <1>2. /\ HostActs /\ ident' = [ident EXCEPT ![k] = @ + 1, ![KitDir] = @ + 1] /\ UNCHANGED stolen
        /\ present' \in SUBSET Kit
    BY DEF AddOrRemove, TypeOK
  <1>3. k \in Paths /\ KitDir \in Paths
    BY DEF Paths
  <1>4. /\ ident' \in [Paths -> Nat] /\ ident'[KitDir] > ident[KitDir]
        /\ \A q \in Paths : ident[q] <= ident'[q]
    BY <1>1, <1>2, <1>3
  <1>5. PICK x \in Int : x = IF rows[KitDir].fd = ident[KitDir] THEN rows[KitDir].fd + 1
                                                                ELSE rows[KitDir].fd
    BY <1>1, <1>3
  <1>6. rows' = [rows EXCEPT ![KitDir].fd = x]
    BY <1>5 DEF AddOrRemove
  <1>7. rows' \in [Paths -> RowStates] /\ rows'[KitDir].id = rows[KitDir].id /\ rows'[KitDir].fd = x
        /\ \A q \in Paths : q # KitDir => rows'[q] = rows[q]
    BY <1>1, <1>3, <1>6 DEF RowStates
  <1>8. ASSUME NEW q \in Paths
        PROVE  /\ rows'[q].id = rows[q].id
               /\ rows'[q].fd = None <=> rows[q].fd = None
               /\ rows[q].fd = Foreign => rows'[q].fd = Foreign
               /\ rows'[q].fd # Foreign => rows[q].fd <= rows'[q].fd
               /\ RowInv!(q)'
    <2>1. ident'[q] \in Nat /\ ident[q] <= ident'[q]
      BY <1>4
    <2>2. CASE q = KitDir
      BY <1>1, <1>2, <1>4, <1>5, <1>7, <2>1, <2>2 DEF RowInv, None, Foreign
    <2>3. CASE q # KitDir
      BY <1>1, <1>2, <1>7, <2>1, <2>3 DEF RowInv
    <2> QED
      BY <2>2, <2>3
  <1>9. RowInv'
    BY <1>8 DEF RowInv
  <1>10. ident[KitDir] # ident'[KitDir]
    BY <1>1, <1>3, <1>4
  <1> QED
    BY <1>2, <1>4, <1>7, <1>8, <1>9, <1>10, HostStep DEF TypeOK

\* A descriptor number comes to name something else.
LEMMA StealStep == ASSUME IInv, NEW p \in Paths, Steal(p) PROVE IInv'
  <1> USE DEF IInv
  <1>1. ident \in [Paths -> Nat] /\ rows \in [Paths -> RowStates]
        /\ \A q \in Paths : rows[q] \in RowStates /\ rows[q].fd \in Int /\ rows[q].id \in Int
                            /\ ident[q] \in Nat
    BY DEF TypeOK, RowStates
  <1>2. /\ HostActs /\ Held(p) /\ UNCHANGED <<ident, present>>
        /\ rows' = [rows EXCEPT ![p].fd = Foreign] /\ stolen' = stolen \cup {p}
    BY DEF Steal
  <1>3. Foreign \in Int /\ Foreign # None /\ Foreign = -1 /\ None = 0
    BY DEF Foreign, None
  <1>4. /\ rows' \in [Paths -> RowStates] /\ rows'[p].id = rows[p].id /\ rows'[p].fd = Foreign
        /\ \A q \in Paths : q # p => rows'[q] = rows[q]
    BY <1>1, <1>2, <1>3 DEF RowStates
  <1>5. rows[p].fd # None
    <2>1. rows[p].fd = None => rows[p].id = None
      BY DEF RowInv
    <2> QED
      BY <1>1, <1>2, <2>1 DEF Held, NoRow, RowStates
  <1>6. ASSUME NEW q \in Paths
        PROVE  /\ ident[q] <= ident'[q] /\ rows'[q].id = rows[q].id
               /\ rows'[q].fd = None <=> rows[q].fd = None
               /\ rows[q].fd = Foreign => rows'[q].fd = Foreign
               /\ rows'[q].fd # Foreign => rows[q].fd <= rows'[q].fd
               /\ RowInv!(q)'
    <2>1. CASE q = p
      BY <1>1, <1>2, <1>3, <1>4, <1>5, <2>1 DEF RowInv
    <2>2. CASE q # p
      BY <1>1, <1>2, <1>4, <2>2 DEF RowInv
    <2> QED
      BY <2>1, <2>2
  <1>7. RowInv'
    BY <1>6 DEF RowInv
  <1>8. ident' \in [Paths -> Nat] /\ present' \in SUBSET Kit /\ stolen' \in SUBSET Paths
    BY <1>2 DEF TypeOK
  <1> QED
    BY <1>2, <1>4, <1>6, <1>7, <1>8, HostStep

-----------------------------------------------------------------------------

\* A custody that was just made holds nothing.
LEMMA InitInv == ASSUME Init PROVE IInv
  <1>1. /\ ident = [p \in Paths |-> 1] /\ present \in SUBSET Kit
        /\ rows = [p \in Paths |-> NoRow] /\ order = <<>>
        /\ files = [p \in Texts |-> <<>>] /\ kit = NotRead
        /\ sealed = FALSE /\ closed = FALSE
        /\ pc = "idle" /\ then = "idle" /\ todo = <<>>
        /\ cur = Base /\ got = <<>> /\ back = "idle" /\ names = {} /\ listed = {}
        /\ failure = FALSE /\ stolen = {} /\ tried = {}
        /\ snap = [ident |-> ident, present |-> present]
    BY DEF Init, Texts
  <1>2. \A p \in Paths : rows[p].fd = 0 /\ rows[p].id = 0 /\ ident[p] = 1 /\ ~Held(p)
    BY <1>1 DEF NoRow, None, Held
  <1>3. At = "idle"
    BY <1>1 DEF At
  <1>4. TypeOK
    <2>1. /\ ident \in [Paths -> Nat] /\ rows \in [Paths -> RowStates]
          /\ order \in Seq(Paths) /\ got \in Seq(Int) /\ todo \in Seq(Tests)
      BY <1>1 DEF NoRow, None, RowStates
    <2>2. files \in [Texts -> Seq(Int)]
      BY <1>1
    <2>3. pc \in Steps \cup {"check", "closing", "closed"} /\ then \in Steps
          /\ back \in {"idle", "kitfile"}
      BY <1>1 DEF Steps
    <2>4. snap \in [ident : [Paths -> Nat], present : SUBSET Kit]
      BY <1>1, <2>1
    <2> QED
      BY <1>1, <2>1, <2>2, <2>3, <2>4 DEF TypeOK
  <1>5. FlagsOK
    BY <1>1, Zenon DEF FlagsOK
  <1>6. RowInv /\ OrderInv
    BY <1>1, <1>2 DEF RowInv, OrderInv, Foreign, None
  <1>7. ControlInv /\ GotInv
    BY <1>1, <1>3 DEF ControlInv, GotInv
  <1>8. FileInv /\ WalkInv /\ KitInv
    <2>1. \A f \in Texts : files[f] = <<>>
      BY <1>1
    <2> QED
      BY <1>1, <1>3, <2>1 DEF FileInv, WalkInv, Walking, Reading, KitInv
  <1>9. SealInv /\ SealIsSnapshot /\ CloseInv
    BY <1>1, <1>3 DEF SealInv, SealIsSnapshot, CloseInv
  <1> QED
    BY <1>4, <1>5, <1>6, <1>7, <1>8, <1>9 DEF IInv

\* The directories and the files read and read_kit open, and their fstat.
LEMMA OpenSteps ==
    ASSUME IInv, OpenDir \/ FstatDir \/ Open \/ FstatFile \/ OpenKit \/ FstatKit
    PROVE  IInv'
  <1>1. KitDir \in Paths /\ Dir(cur) \in Paths
    BY DirFacts DEF Paths
  <1>2. pc \in {"open", "fstat"} => cur \in Paths
    BY DEF IInv, ControlInv, At, Texts, Paths
  <1>3. CASE OpenDir
    <2>1. ~Held(Dir(cur))
      BY <1>3 DEF OpenDir, Acquire, IInv, ControlInv
    <2> QED
      BY <1>1, <1>3, <2>1, AcquireStep DEF OpenDir
  <1>4. CASE FstatDir
    BY <1>1, <1>4, FstatStep DEF FstatDir
  <1>5. CASE Open
    <2>1. pc = "open" /\ ~Held(cur) /\ Acquire("open", cur, "fstat")
      BY <1>5 DEF Open, Acquire
    <2> QED
      BY <1>2, <2>1, AcquireStep
  <1>6. CASE FstatFile
    <2>1. pc = "fstat" /\ Fstat("fstat", cur, "chunk")
      BY <1>6 DEF FstatFile, Fstat
    <2> QED
      BY <1>2, <2>1, FstatStep
  <1>7. CASE OpenKit
    <2>1. ~Held(KitDir)
      BY <1>7 DEF OpenKit, Acquire, IInv, ControlInv
    <2> QED
      BY <1>1, <1>7, <2>1, AcquireStep DEF OpenKit
  <1>8. CASE FstatKit
    BY <1>1, <1>8, FstatStep DEF FstatKit
  <1> QED
    BY <1>3, <1>4, <1>5, <1>6, <1>7, <1>8

\* Every step of the owner and of the host keeps the invariant.
LEMMA NextInv == ASSUME IInv, Next PROVE IInv'
  <1>1. CASE CheckStep
    BY <1>1, CheckStepStep
  <1>2. ASSUME NEW f \in Files, Read(f) PROVE IInv'
    BY <1>2, ReadStep
  <1>3. CASE Lookup
    BY <1>3, LookupStep
  <1>4. CASE OpenDir \/ FstatDir \/ Open \/ FstatFile \/ OpenKit \/ FstatKit
    BY <1>4, OpenSteps
  <1>5. CASE ReadChunk
    BY <1>5, ReadChunkStep
  <1>6. CASE Store
    BY <1>6, StoreStep
  <1>7. CASE ReadKit \/ Recheck
    BY <1>7, ReadKitStep
  <1>8. CASE KitRoot
    BY <1>8, KitRootStep
  <1>9. CASE List
    BY <1>9, ListStep
  <1>10. CASE KitNext
    BY <1>10, KitNextStep
  <1>11. CASE KitFile
    BY <1>11, KitFileStep
  <1>12. CASE KitDone
    BY <1>12, KitDoneStep
  <1>13. CASE Seal
    BY <1>13, SealStep
  <1>14. CASE SealDone
    BY <1>14, SealDoneStep
  <1>15. CASE Close
    BY <1>15, FailStep DEF Close
  <1>16. CASE CloseRow
    BY <1>16, CloseRowStep
  <1>17. ASSUME NEW p \in Paths, Rewrite(p) \/ Replace(p) PROVE IInv'
    BY <1>17, RewriteStep
  <1>18. ASSUME NEW p \in Paths, Steal(p) PROVE IInv'
    BY <1>18, StealStep
  <1>19. ASSUME NEW k \in Kit, AddOrRemove(k) PROVE IInv'
    BY <1>19, AddOrRemoveStep
  <1> QED
    BY <1>1, <1>2, <1>3, <1>4, <1>5, <1>6, <1>7, <1>8, <1>9, <1>10, <1>11, <1>12, <1>13,
       <1>14, <1>15, <1>16, <1>17, <1>18, <1>19 DEF Next

\* A step that changes nothing keeps the invariant.
LEMMA StutterInv == ASSUME IInv, UNCHANGED vars PROVE IInv'
  <1>1. UNCHANGED <<ident, present, rows, order, files, kit, sealed, closed, failure, stolen,
                    tried, snap, pc, then, todo, cur, got, back, names, listed>>
    BY DEF vars, world, store, call, walk, end
  <1>2. At' = At /\ \A p, kind : (Due(p, kind)' <=> Due(p, kind)) /\ (Reused(p)' <=> Reused(p))
    BY <1>1 DEF At, Due, Reused
  <1>3. TypeOK' /\ FlagsOK' /\ RowInv' /\ OrderInv' /\ ControlInv'
    BY <1>1, <1>2 DEF IInv, TypeOK, FlagsOK, RowInv, OrderInv, ControlInv, Held
  <1>4. GotInv' /\ FileInv' /\ WalkInv' /\ KitInv'
    BY <1>1, <1>2 DEF IInv, GotInv, FileInv, WalkInv, Walking, Reading, KitInv
  <1>5. SealInv' /\ SealIsSnapshot'
    BY <1>1, <1>2 DEF IInv, SealInv, SealIsSnapshot, Held
  <1>6. CloseInv'
    BY <1>1, <1>2 DEF IInv, CloseInv, Held
  <1> QED
    BY <1>3, <1>4, <1>5, <1>6 DEF IInv

\* The invariant of _RetainedCustody holds in every state, for any number of files, any
\* kit, any number of reads per file and any number of changes by the host.
THEOREM Invariance == Spec => []IInv
  <1>1. Init => IInv
    BY InitInv
  <1>2. IInv /\ [Next]_vars => IInv'
    BY NextInv, StutterInv
  <1> QED
    BY <1>1, <1>2, PTL DEF Spec

\* What seal froze existed at one moment: the chunks of every file and the names of the
\* kit are those the paths had when seal began, whatever the host did while they were
\* opened, read and compared one system call after another.
THEOREM SealedIsOneMoment == Spec => []SealIsSnapshot
  <1>1. IInv => SealIsSnapshot
    BY DEF IInv
  <1> QED
    BY <1>1, Invariance, PTL

\* When close has ended every descriptor that was opened was closed, or its number was
\* taken over and the caller is told; one that is known to be somebody else's was left.
THEOREM CloseGivesAllBack == Spec => []CloseIsTotal
  <1>1. ASSUME IInv, pc = "closed", NEW p \in Paths, Held(p)
        PROVE  /\ p \in tried \/ (p \in stolen /\ failure)
               /\ p \in tried \cap stolen => rows[p].id \in {None, Foreign}
    <2> DEFINE a == rows[p].fd = Foreign
               b == rows[p].id = Foreign
    <2>1. closed /\ order = <<>>
      BY <1>1 DEF IInv, ControlInv, CloseInv
    <2>2. ~Has(order, p)
      BY <2>1 DEF Has
    <2>3. /\ p \in tried \/ (Reused(p) /\ failure)
          /\ p \in tried => ~Reused(p)
      BY <1>1, <2>1, <2>2, Zenon DEF IInv, CloseInv
    <2>4. (a <=> p \in stolen) /\ (b => a)
      BY <1>1 DEF IInv, RowInv
    <2>5. a \in BOOLEAN /\ b \in BOOLEAN
      BY Zenon
    <2>6. Reused(p) <=> rows[p].id # None /\ ~(a <=> b)
      BY <2>5, Zenon DEF Reused
    <2> QED
      BY <2>3, <2>4, <2>6
  <1>2. IInv => CloseIsTotal
    BY <1>1 DEF CloseIsTotal
  <1> QED
    BY <1>2, Invariance, PTL
=============================================================================
