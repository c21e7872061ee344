----------------------- MODULE KernelInspectionProofs -----------------------
(***************************************************************************)
(* Proofs about the kernel inspection: the reading of the SELinux status   *)
(* page (StatusPage), for every width of the sequence and number of        *)
(* updates, and the owner of the seven readers (Inspection), for every     *)
(* role and any number of changes by the kernel, of failing calls and of   *)
(* calls.                                                                  *)
(*                                                                         *)
(* The owner. A program of Inspection is a sequence of some hundred        *)
(* operations, put together from the checks and constructors of its        *)
(* readers. It is not followed operation by operation: every piece is      *)
(* shown to lead from one stage to another (Leads), a piece that only      *)
(* observes to lead from any stage to the same one with more views seen    *)
(* (Looks), and a concatenation leads where its pieces lead. The invariant *)
(* says that the state fits the stage its program is at; and that a read   *)
(* made after the policy left the pinned epoch is one the next tick, or,   *)
(* before the ticks sample, the first one that does, will refuse.          *)
(***************************************************************************)
EXTENDS StatusPage, Inspection, TLAPS

USE DEF None

\* Wrapping is injective on a span shorter than the cycle: two sequence words
\* of the same life of the reader are equal only after the same number of steps.
LEMMA WrapInjective ==
    ASSUME NEW p \in 0..(Cycle - 1), NEW a \in Nat, NEW b \in Nat,
           a < Cycle, b < Cycle, Wrap(p + a) = Wrap(p + b)
    PROVE  a = b
  BY CycleAssumption DEF Wrap

\* One step of the sequence word.
LEMMA WrapStep ==
    ASSUME NEW p \in 0..(Cycle - 1), NEW a \in Nat, a + 1 < Cycle
    PROVE  Bump(Wrap(p + a)) = Wrap(p + a + 1)
  BY CycleAssumption DEF Wrap, Bump

\* A sequence word is in range, and the cycle being even keeps its parity.
LEMMA WrapParity ==
    ASSUME NEW p \in 0..(Cycle - 1), NEW a \in Nat, a < Cycle
    PROVE  /\ Wrap(p + a) \in 0..(Cycle - 1)
           /\ Wrap(p + a) % 2 = (p + a) % 2
  BY CycleAssumption DEF Wrap

\* The page as it was when the record was signed, and no read begun, satisfy
\* the invariant.
THEOREM InitIInv == Init => IInv
  <1> SUFFICES ASSUME Init PROVE IInv
    OBVIOUS
  <1>1. TypeOK
    <2>1. page \in Contents /\ next \in Contents /\ versions \in [0..MaxUpdates -> Contents]
      BY DEF Init, Contents
    <2>2. got \in [Loads -> Int]
      BY DEF Init
    <2>3. /\ count \in 0..MaxUpdates /\ reads \in 0..MaxReads
          /\ began \in 0..count /\ base \in 0..count /\ fences \in 0..2
      BY MaxUpdatesAssumption, MaxReadsAssumption DEF Init
    <2> QED
      BY <2>1, <2>2, <2>3 DEF Init, TypeOK
  <1>2. SeqInv /\ PageInv
    BY CycleAssumption, MaxUpdatesAssumption DEF Init, SeqInv, PageInv, SeqNow, Wrap
  <1>3. OrderInv /\ CopyInv /\ StatusInv
    BY DEF Init, OrderInv, CopyInv, StatusInv, Loads, Words
  <1> QED
    BY <1>1, <1>2, <1>3 DEF IInv

-----------------------------------------------------------------------------
(* The steps of the kernel.                                                *)

\* The kernel making the sequence odd: what was copied before is from "before".
LEMMA BeginUpdateIInv == IInv /\ BeginUpdate => IInv'
  <1> SUFFICES ASSUME IInv, BeginUpdate PROVE IInv'
    OBVIOUS
  <1> USE DEF IInv
  <1>1. PICK c \in [Words -> {0, 1}] :
            next' = [c EXCEPT !["policyload"] = page["policyload"] + @]
    BY DEF BeginUpdate
  <1>2. next' \in Contents
    BY <1>1 DEF Contents, Words, TypeOK
  <1>3. /\ pin \in 0..(Cycle - 1) /\ 2 * count \in Nat /\ 2 * count + 1 \in Nat
        /\ 2 * count + 1 < Cycle
    BY CycleAssumption, MaxUpdatesAssumption DEF BeginUpdate, TypeOK
  <1>a. seq = Wrap(pin + 2 * count)
    BY <1>3 DEF BeginUpdate, SeqInv, SeqNow
  <1>b. seq' = Wrap(pin + 2 * count + 1)
    BY <1>3, <1>a, WrapStep DEF BeginUpdate
  <1>4. TypeOK'
    <2>1. seq' \in 0..(Cycle - 1)
      <3>1. Wrap(pin + (2 * count + 1)) \in 0..(Cycle - 1)
        BY <1>3, WrapParity
      <3> QED
        BY <3>1, <1>3, <1>b
    <2> QED
      BY <1>2, <2>1 DEF BeginUpdate, TypeOK, reader
  <1>5. SeqInv'
    BY <1>b DEF SeqInv, SeqNow, BeginUpdate, Wrap
  <1>6. PageInv'
    BY DEF PageInv, BeginUpdate
  <1>7. OrderInv' /\ StatusInv'
    BY DEF OrderInv, StatusInv, BeginUpdate, reader, Stable, MatchesPin, Fields
  <1>8. CopyInv'
    BY DEF CopyInv, BeginUpdate, reader, Moved, SeqAt, Wrap
  <1> QED
    BY <1>4, <1>5, <1>6, <1>7, <1>8

\* A word changes only while the sequence is odd.
LEMMA WriteWordIInv == IInv /\ WriteWord => IInv'
  <1> SUFFICES ASSUME IInv, WriteWord PROVE IInv'
    OBVIOUS
  <1> USE DEF IInv
  <1>1. page' \in Contents
    BY DEF WriteWord, TypeOK, Contents
  <1>2. TypeOK'
    BY <1>1 DEF WriteWord, TypeOK, reader
  <1>3. SeqInv' /\ PageInv' /\ OrderInv' /\ StatusInv'
    BY DEF WriteWord, reader, SeqInv, SeqNow, Wrap, PageInv, OrderInv, StatusInv,
           Stable, MatchesPin, Fields
  <1>4. CopyInv'
    BY DEF CopyInv, WriteWord, reader, Moved, SeqAt, Wrap
  <1> QED
    BY <1>2, <1>3, <1>4

\* The sequence becomes even again, two past the last even one.
LEMMA EndUpdateIInv == IInv /\ EndUpdate => IInv'
  <1> SUFFICES ASSUME IInv, EndUpdate PROVE IInv'
    OBVIOUS
  <1> USE DEF IInv
  <1>1. /\ pin \in 0..(Cycle - 1) /\ 2 * count + 1 \in Nat /\ 2 * count + 2 \in Nat
        /\ 2 * count + 2 < Cycle /\ count + 1 \in 0..MaxUpdates /\ count \in Nat
    BY CycleAssumption, MaxUpdatesAssumption DEF EndUpdate, SeqInv, TypeOK
  <1>2. seq = Wrap(pin + (2 * count + 1))
    BY <1>1 DEF EndUpdate, SeqInv, SeqNow
  <1>3. seq' = Wrap(pin + (2 * count + 2))
    <2>1. Bump(Wrap(pin + (2 * count + 1))) = Wrap(pin + (2 * count + 1) + 1)
      BY <1>1, WrapStep
    <2> QED
      BY <1>1, <1>2, <2>1 DEF EndUpdate
  <1>4. TypeOK'
    <2>1. seq' \in 0..(Cycle - 1)
      BY <1>1, <1>3, WrapParity
    <2>2. versions' \in [0..MaxUpdates -> Contents]
      BY <1>1 DEF EndUpdate, TypeOK
    <2>3. began' \in 0..count' /\ base' \in 0..count' /\ count' \in 0..MaxUpdates
      BY <1>1 DEF EndUpdate, TypeOK, reader
    <2> QED
      BY <2>1, <2>2, <2>3 DEF EndUpdate, TypeOK, reader
  <1>5. SeqInv'
    BY <1>1, <1>3 DEF SeqInv, SeqNow, EndUpdate, Wrap
  <1>6. PageInv'
    BY <1>1 DEF PageInv, EndUpdate, TypeOK
  <1>7. base \in 0..count /\ versions'[base] = versions[base] /\ versions'[0] = versions[0]
    BY <1>1 DEF EndUpdate, TypeOK
  <1>8. OrderInv' /\ StatusInv'
    BY <1>7 DEF OrderInv, StatusInv, EndUpdate, reader, Stable, MatchesPin, Fields
  <1>9. CopyInv'
    BY <1>1, <1>7 DEF CopyInv, EndUpdate, reader, Moved, SeqAt, Wrap
  <1> QED
    BY <1>4, <1>5, <1>6, <1>8, <1>9

-----------------------------------------------------------------------------
(* The steps of the reader.                                                *)

\* status_epoch starts from nothing loaded.
LEMMA StartReadIInv == IInv /\ StartRead => IInv'
  <1> SUFFICES ASSUME IInv, StartRead PROVE IInv'
    OBVIOUS
  <1> USE DEF IInv
  <1>1. TypeOK'
    BY MaxReadsAssumption, MaxUpdatesAssumption DEF StartRead, TypeOK, kernel
  <1>2. SeqInv' /\ PageInv'
    BY DEF StartRead, kernel, SeqInv, SeqNow, Wrap, PageInv
  <1>3. OrderInv' /\ CopyInv' /\ StatusInv'
    BY MaxUpdatesAssumption
    DEF StartRead, kernel, OrderInv, CopyInv, StatusInv, Loads, Words, TypeOK
  <1> QED
    BY <1>1, <1>2, <1>3

\* A fence is passed only after every load that precedes it in the program.
LEMMA FenceIInv == IInv /\ Fence => IInv'
  <1> SUFFICES ASSUME IInv, Fence PROVE IInv'
    OBVIOUS
  <1> USE DEF IInv
  <1>1. TypeOK'
    BY DEF Fence, TypeOK, kernel
  <1>2. SeqInv' /\ PageInv' /\ CopyInv' /\ StatusInv'
    BY DEF Fence, kernel, SeqInv, SeqNow, Wrap, PageInv, CopyInv, Moved, SeqAt,
           StatusInv, Stable, MatchesPin, Fields
  <1>3. OrderInv'
    BY DEF Fence, kernel, OrderInv, FencesBefore, Loads, Words, TypeOK
  <1> QED
    BY <1>1, <1>2, <1>3

\* Accepting, comparing and refusing only move the status.
LEMMA DecideIInv == IInv /\ (Finish \/ Compare \/ Refuse) => IInv'
  <1> SUFFICES ASSUME IInv, Finish \/ Compare \/ Refuse PROVE IInv'
    OBVIOUS
  <1> USE DEF IInv
  <1>1. UNCHANGED <<kernel, got, fences, registered, reads, began, base>>
    BY DEF Finish, Compare, Refuse
  <1>2. TypeOK'
    BY <1>1 DEF Finish, Compare, Refuse, TypeOK, kernel
  <1>3. SeqInv' /\ PageInv' /\ CopyInv' /\ OrderInv'
    BY <1>1 DEF kernel, SeqInv, SeqNow, Wrap, PageInv, CopyInv, Moved, SeqAt, OrderInv
  <1>4. StatusInv'
    BY <1>1 DEF Finish, Compare, Refuse, kernel, StatusInv, Stable, MatchesPin, Fields
  <1> QED
    BY <1>2, <1>3, <1>4

\* The central case: a load of "after" that returns the sequence of "before"
\* shows that the page has not moved, so all the words copied are of one version.
LEMMA LoadIInv == ASSUME NEW l \in Loads PROVE IInv /\ Load(l) => IInv'
  <1> SUFFICES ASSUME IInv, Load(l) PROVE IInv'
    OBVIOUS
  <1> USE DEF IInv
  <1>0. /\ InMemory(l) \in Nat /\ got' = [got EXCEPT ![l] = InMemory(l)]
        /\ got \in [Loads -> Int] /\ count \in Nat
    BY CycleAssumption, MaxUpdatesAssumption
    DEF Load, InMemory, TypeOK, Contents
  <1>1. TypeOK'
    BY <1>0 DEF Load, TypeOK, kernel
  <1>2. SeqInv' /\ PageInv'
    BY DEF Load, kernel, SeqInv, SeqNow, Wrap, PageInv
  <1>3. OrderInv'
    BY <1>0 DEF Load, kernel, OrderInv, FencesBefore, Loads, Words, TypeOK
  <1>4. StatusInv'
    BY DEF Load, StatusInv
  <1>5. ASSUME l = "before" PROVE CopyInv'
    <2>1. base' = count /\ got["before"] = None /\ count' = count /\ pin' = pin
      BY <1>5 DEF Load, kernel
    <2>2. \A m \in Loads : got[m] = None
      BY <2>1, <1>0 DEF OrderInv, TypeOK
    <2>3. got'["before"] = SeqNow /\ \A m \in Loads \ {"before"} : got'[m] = None
      BY <1>0, <1>5, <2>2 DEF InMemory, Words, Loads, SeqInv
    <2>4. ASSUME SeqNow % 2 = 0 PROVE ~writing
      <3> SUFFICES ASSUME writing PROVE FALSE
        OBVIOUS
      <3>1. SeqNow = Wrap(pin + (2 * count + 1))
        BY DEF SeqNow, TypeOK
      <3>2. 2 * count + 1 \in Nat /\ 2 * count + 1 < Cycle
        BY MaxUpdatesAssumption, CycleAssumption DEF TypeOK, SeqInv
      <3>3. (pin + (2 * count + 1)) % 2 = 0
        BY <2>4, <3>1, <3>2, WrapParity DEF TypeOK
      <3> QED
        BY <3>3 DEF SeqInv, TypeOK
    <2>5. SeqNow % 2 = 0 => got'["before"] = SeqAt(base)'
      BY <2>1, <2>3, <2>4 DEF SeqNow, SeqAt, Wrap, TypeOK
    <2> QED
      BY <2>3, <2>5 DEF CopyInv, Words, Loads
  <1>6. ASSUME l # "before" PROVE CopyInv'
    <2>1. /\ base' = base /\ Moved' = Moved /\ versions' = versions
          /\ SeqAt(base)' = SeqAt(base) /\ got'["before"] = got["before"]
      BY <1>0, <1>6 DEF Load, kernel, Moved, SeqAt, Wrap, Loads
    <2>2. got["before"] # None /\ got["before"] % 2 = 0 /\ got["before"] = SeqAt(base)
      BY <1>6 DEF Load, OrderInv, CopyInv, FencesBefore, TypeOK
    <2>3. ASSUME NEW w \in Words, got'[w] # None
          PROVE  Moved \/ got'[w] = versions[base][w]
      <3>1. CASE l = w
        BY <3>1, <1>0 DEF InMemory, Moved, PageInv, TypeOK
      <3>2. CASE l # w
        BY <3>2, <2>3, <1>0 DEF CopyInv, Loads
      <3> QED
        BY <3>1, <3>2
    <2>4. ASSUME got'["after"] # None, got'["after"] = got'["before"], NEW w \in Words
          PROVE  got'[w] = versions[base][w]
      <3>1. CASE l = "after"
        <4>1. SeqNow = SeqAt(base)
          BY <3>1, <2>4, <2>1, <2>2, <1>0 DEF InMemory, Words, Loads, SeqInv
        <4>2. ~Moved
          <5> DEFINE step == 2 * count + (IF writing THEN 1 ELSE 0)
          <5>1. /\ step \in Nat /\ 2 * base \in Nat /\ step < Cycle /\ 2 * base < Cycle
                /\ pin \in 0..(Cycle - 1)
            BY MaxUpdatesAssumption, CycleAssumption DEF TypeOK, SeqInv
          <5>2. Wrap(pin + step) = Wrap(pin + 2 * base)
            BY <4>1, <5>1 DEF SeqNow, SeqAt, Wrap, TypeOK
          <5> HIDE DEF step
          <5>3. step = 2 * base
            BY <5>1, <5>2, WrapInjective
          <5> USE DEF step
          <5> QED
            BY <5>3 DEF Moved, TypeOK
        <4>3. got[w] # None /\ got'[w] = got[w]
          BY <3>1, <1>0 DEF Load, FencesBefore, OrderInv, TypeOK, Words, Loads
        <4> QED
          BY <4>2, <4>3 DEF CopyInv
      <3>2. CASE l # "after"
        <4>1. got["after"] # None /\ got["after"] = got["before"]
          BY <3>2, <2>4, <2>1, <1>0 DEF Loads
        <4>2. got[w] # None
          BY <4>1 DEF OrderInv, Words, Loads
        <4>3. got'[w] = got[w]
          BY <4>2, <1>0 DEF Load, Words, Loads
        <4> QED
          BY <4>1, <4>3 DEF CopyInv
      <3> QED
        BY <3>1, <3>2
    <2> QED
      BY <2>1, <2>2, <2>3, <2>4 DEF CopyInv
  <1> QED
    BY <1>1, <1>2, <1>3, <1>4, <1>5, <1>6

-----------------------------------------------------------------------------

\* The invariant is inductive: no step of the kernel or of the reader breaks it.
THEOREM NextIInv == IInv /\ [Next]_vars => IInv'
  <1> SUFFICES ASSUME IInv, [Next]_vars PROVE IInv'
    OBVIOUS
  <1>1. CASE UNCHANGED vars
    BY <1>1 DEF IInv, vars, kernel, reader, TypeOK, SeqInv, SeqNow, Wrap, PageInv,
                OrderInv, CopyInv, Moved, SeqAt, StatusInv, Stable, MatchesPin, Fields
  <1>2. CASE Next
    BY <1>2, BeginUpdateIInv, WriteWordIInv, EndUpdateIInv, StartReadIInv, FenceIInv,
       LoadIInv, DecideIInv DEF Next
  <1> QED
    BY <1>1, <1>2

\* The invariant implies both properties of the page reads.
LEMMA IInvNoTornRead == IInv => NoTornRead
  <1> SUFFICES ASSUME IInv, status \in {"read", "held"}
               PROVE  \E k \in began..count : Fields = versions[k] /\ got["copy"] = SeqAt(k)
    BY DEF NoTornRead
  <1> USE DEF IInv
  <1>1. base \in began..count
    BY MaxUpdatesAssumption DEF TypeOK, OrderInv
  <1>2. Stable /\ \A l \in Loads : got[l] # None
    BY DEF StatusInv
  <1>3. got["copy"] = SeqAt(base)
    BY <1>2 DEF Stable, OrderInv, CopyInv, Loads
  <1>4. \A w \in Words : got[w] = versions[base][w]
    BY <1>2 DEF Stable, CopyInv, Loads
  <1>5. versions[base] \in [Words -> Nat]
    BY MaxUpdatesAssumption DEF TypeOK, Contents
  <1>6. Fields = versions[base]
    BY <1>4, <1>5 DEF Fields
  <1> QED
    BY <1>1, <1>3, <1>6

\* A match with the pinned sequence puts the read before the first update.
LEMMA IInvHeldMeansUntouched == IInv => HeldMeansUntouched
  <1> SUFFICES ASSUME IInv, status = "held" PROVE base = 0
    BY DEF HeldMeansUntouched
  <1> USE DEF IInv
  <1>1. got["copy"] = pin /\ got["copy"] = got["before"] /\ got["before"] # None
    BY DEF StatusInv, MatchesPin, Stable, Loads
  <1>2. /\ pin \in 0..(Cycle - 1) /\ pin % 2 = 0 /\ 2 * base \in Nat /\ 2 * base < Cycle
        /\ base \in Nat
    BY MaxUpdatesAssumption, CycleAssumption DEF TypeOK, SeqInv
  <1>3. Wrap(pin + 2 * base) = Wrap(pin + 0)
    <2>1. got["before"] = Wrap(pin + 2 * base)
      BY <1>1, <1>2 DEF CopyInv, SeqAt
    <2>2. Wrap(pin + 0) = pin
      BY <1>2, CycleAssumption DEF Wrap
    <2> QED
      BY <1>1, <2>1, <2>2
  <1>4. 2 * base = 0
    <2>1. PICK d \in Nat : d = 2 * base
      BY <1>2
    <2>2. 0 \in Nat /\ 0 < Cycle /\ d < Cycle /\ Wrap(pin + d) = Wrap(pin + 0)
      BY <1>2, <1>3, <2>1, CycleAssumption
    <2>3. d = 0
      BY <1>2, <2>2, WrapInjective
    <2> QED
      BY <2>1, <2>3
  <1> QED
    BY <1>2, <1>4

\* The words, the counters and the reader's state keep their types.
THEOREM StatusTypeCorrect == Spec => []TypeOK
  <1>1. Spec => []IInv
    BY InitIInv, NextIInv, PTL DEF Spec
  <1>2. IInv => TypeOK
    BY DEF IInv
  <1> QED
    BY <1>1, <1>2, PTL

\* A status read that _KernelNativeReads accepts is one version of the page,
\* for every width of the sequence word and any interleaving with the kernel.
THEOREM StatusReadIsAtomic == Spec => []NoTornRead
  <1>1. Spec => []IInv
    BY InitIInv, NextIInv, PTL DEF Spec
  <1> QED
    BY <1>1, IInvNoTornRead, PTL

\* A read that matches the record proves that the policy was not touched at
\* all before it, which is what lets Inspection treat the epoch as monotone.
THEOREM MatchExcludesChange == Spec => []HeldMeansUntouched
  <1>1. Spec => []IInv
    BY InitIInv, NextIInv, PTL DEF Spec
  <1> QED
    BY <1>1, IInvHeldMeansUntouched, PTL

-----------------------------------------------------------------------------
(***************************************************************************)
(* The owner of the readers: Inspection.                                   *)
(***************************************************************************)

(* What a program does to the readers it owns.                             *)

\* How far a program has come: the readers it owns, those past their constructor,
\* and what it has seen (a view, the joined peer) or arranged (the sampling ticks).
Marks == Views \cup {"ready", "joined"}
Stage == {x \in [own : SUBSET Views, live : SUBSET Views, marks : SUBSET Marks] : x.live \subseteq x.own}

Names == {"own", "begin", "open", "look", "epoch", "ready", "bind", "join"}
Ops == [op : Names, arg : Resources \cup Facts]

Saw(x, L) == [own |-> x.own, live |-> x.live, marks |-> x.marks \cup L]

\* Once the readers' ticks sample, the roots have yet to be looked at under the sampling.
Sampling(x) == [own |-> x.own, live |-> x.live, marks |-> (x.marks \ {"roots"}) \cup {"ready"}]

\* One operation leads from a stage to the next.
Moves(x, o, y) ==
  \/ /\ o.op = "own" /\ o.arg \in Views \ x.own /\ Borrows[o.arg] \subseteq x.own
     /\ y = [own |-> x.own \cup {o.arg}, live |-> x.live, marks |-> x.marks]
  \/ /\ o.op = "begin" /\ o.arg \in x.own
     /\ y = [own |-> x.own, live |-> x.live \cup {o.arg}, marks |-> x.marks]
  \/ /\ o.op = "open" /\ y = x /\ (o.arg = "process" => "joined" \notin x.marks)
     /\ \E v \in x.live : o.arg \in Holds[v]
  \/ o.op = "look" /\ o.arg \in x.live /\ y = Saw(x, {o.arg})
  \/ o.op \in {"epoch", "bind"} /\ y = x
  \/ o.op = "ready" /\ y = Sampling(x)
  \/ o.op = "join" /\ y = Saw(x, {"joined"})

\* The stages of a whole program, and a program that leads from one stage to another.
Path(s, S) ==
  /\ s \in Seq(Ops) /\ S \in [1..(Len(s) + 1) -> Stage]
  /\ \A i \in 1..Len(s) : Moves(S[i], s[i], S[i + 1])
Leads(s, x, y) == \E S : Path(s, S) /\ S[1] = x /\ S[Len(s) + 1] = y

\* A program that only observes: where the readers N are live (and the peer not joined
\* yet, if it opens the process rows) it leads to the views L seen, and to nothing else.
Grants(x) == x.live \cup {m \in {"unjoined"} : "joined" \notin x.marks}
Looks(s, N, L) ==
  /\ s \in Seq(Ops) /\ L \subseteq Views
  /\ \A x \in Stage : N \subseteq Grants(x) => Leads(s, x, Saw(x, L))

\* The stage a call begins at, and what its end must have reached.
Begun(c) == IF c = "build" THEN [own |-> {}, live |-> {}, marks |-> {}]
                           ELSE [own |-> Views, live |-> Views, marks |-> {"ready"}]
Reached(r, y) ==
  /\ y.own = Views /\ y.live = Views /\ Views \cup {"ready"} \subseteq y.marks
  /\ r # "SERVER" => "joined" \in y.marks

-----------------------------------------------------------------------------
(* The invariant.                                                          *)

OwnedViews == {owned[i] : i \in DOMAIN owned}

InspectionType ==
  /\ role \in Roles
  /\ fact \in [Facts -> Values] /\ retained \in [Views -> Values \cup {NoValue}]
  /\ res \in [Resources -> {"none", "open", "closed", "uncertain", "foreign"}]
  /\ view \in [Views -> {"none", "raw", "live", "closed"}]
  /\ ident \subseteq Resources /\ taken \subseteq Resources /\ bad \subseteq Views /\ agreed \subseteq Views
  /\ owned \in Seq(Views)
  /\ mode \in {"run", "unwind", "idle"} /\ call \in {"build", "check", "close"} /\ at \in {"tick", "op"}
  /\ pc \in Nat

FlagsType == flags \in [closed : BOOLEAN, failed : BOOLEAN, cleanup : BOOLEAN, epochReady : BOOLEAN]

\* Readers are owned once, and after all they borrow from.
OwnedInv ==
  /\ \A i, j \in DOMAIN owned : owned[i] = owned[j] => i = j
  /\ \A i \in DOMAIN owned : \A b \in Borrows[owned[i]] : \E j \in 1..(i - 1) : owned[j] = b

\* An open descriptor belongs to a reader close() will reach and that will close it; its
\* identity is known except between a failed open and its cleanup.
OpenInv ==
  /\ \A v \in Views : \A r \in Holds[v] : res[r] = "open" => v \in OwnedViews /\ view[v] = "live"
  /\ taken \subseteq ident
  /\ mode # "unwind" => \A r \in Resources : res[r] = "open" => r \in ident

\* A failed cleanup is on record with the owner, or with a reader close() has yet to reach.
BadInv ==
  /\ \A v \in bad : flags.cleanup \/ (v \in OwnedViews /\ view[v] = "live")
  /\ \A r \in Resources : res[r] = "uncertain" => flags.cleanup
  /\ report = "clean" => flags.closed /\ mode = "idle" /\ ~flags.cleanup

\* What a stage says of the state.
Fits(x) ==
  /\ OwnedViews = x.own
  /\ \A v \in x.live : view[v] = "live"
  /\ \A v \in x.marks \cap Views : v \in agreed /\ Holds[v] \cap taken = {}
  /\ "ready" \in x.marks => flags.epochReady
  /\ "joined" \in x.marks => retained["process"] = 0

\* The program of this call is at a stage of a path to its end.
AtStage(x) ==
  \E S : /\ Path(Program, S) /\ Reached(role, S[Len(Program) + 1])
         /\ pc \in 1..(Len(Program) + 1) /\ S[pc] = x

\* Inside a call the state is that of the stage its program is at.
RunInv ==
  mode = "run" =>
    /\ ~flags.closed /\ call \in {"build", "check"}
    /\ {v \in Views : fact[v] = retained[v]} \subseteq agreed
    /\ at = "op" => pc <= Len(Program)
    /\ \E x : AtStage(x) /\ Fits(x)

\* Between calls the owner is whole, or closed with nothing left to close.
IdleInv ==
  /\ mode = "unwind" => flags.closed
  /\ flags.failed => flags.closed
  /\ outcome = "refused" => flags.closed
  /\ mode = "idle" /\ flags.closed => owned = <<>>
  /\ mode = "idle" /\ ~flags.closed =>
       OwnedViews = Views /\ flags.epochReady /\ \A v \in Views : view[v] = "live"

InspectionInv == InspectionType /\ FlagsType /\ OwnedInv /\ OpenInv /\ BadInv /\ RunInv /\ IdleInv

-----------------------------------------------------------------------------
(* Programs.                                                               *)

\* Which descriptors a view holds, and that no two views hold the same.
LEMMA HoldsFacts ==
    /\ \A v \in Views : v \in Holds[v] /\ Holds[v] \subseteq Resources
    /\ \A v \in Views : \A r \in Holds[v] : r = v \/ (v = "policy" /\ r = "mapping") \/ (v = "process" /\ r = "pidfd")
    /\ \A r \in Resources : \E v \in Views : r \in Holds[v]
    /\ "mapping" \in Holds["policy"] /\ "pidfd" \in Holds["process"]
  <1>1. /\ Holds["roots"] = {"roots"} /\ Holds["policy"] = {"policy", "mapping"}
        /\ Holds["process"] = {"process", "pidfd"} /\ Holds["code"] = {"code"}
        /\ Holds["mappings"] = {"mappings"} /\ Holds["cgroup"] = {"cgroup"} /\ Holds["filters"] = {"filters"}
    BY DEF Holds, Views, RootsHolds, PolicyHolds, ProcessHolds, CodeHolds, MappingsHolds,
       CgroupHolds, FiltersHolds
  <1>2. \A v \in Views : Holds[v] \subseteq Resources
    BY DEF Resources
  <1>3. \A r \in Resources : \E v \in Views : r \in Holds[v]
    BY DEF Resources
  <1>4. \A v \in Views : v \in Holds[v]
    BY <1>1 DEF Views
  <1>5. \A v \in Views : \A r \in Holds[v] : r = v \/ (v = "policy" /\ r = "mapping") \/ (v = "process" /\ r = "pidfd")
    BY <1>1 DEF Views
  <1> QED
    BY <1>1, <1>2, <1>3, <1>4, <1>5

\* A descriptor belongs to one view.
LEMMA OneHolder ==
    ASSUME NEW v \in Views, NEW w \in Views, NEW r, r \in Holds[v], r \in Holds[w]
    PROVE  v = w
  <1>1. "mapping" \notin Views /\ "pidfd" \notin Views
    BY DEF Views
  <1> QED
    BY <1>1, HoldsFacts

\* ... which is the one ViewOf names.
LEMMA HolderIs ==
    ASSUME NEW v \in Views, NEW r, r \in Holds[v]
    PROVE  ViewOf(r) = v
  BY OneHolder DEF ViewOf

\* What each view borrows.
LEMMA BorrowsFacts ==
    /\ Borrows["roots"] = {} /\ Borrows["policy"] = {"roots"} /\ Borrows["process"] = {"roots"}
    /\ Borrows["code"] = {"roots"} /\ Borrows["mappings"] = {"roots", "process", "code"}
    /\ Borrows["cgroup"] = {"roots", "process"} /\ Borrows["filters"] = {"roots", "process", "cgroup"}
    /\ \A v \in Views : v \notin Borrows[v] /\ Borrows[v] \subseteq Views
  <1>1. /\ Borrows["roots"] = {} /\ Borrows["policy"] = {"roots"} /\ Borrows["process"] = {"roots"}
        /\ Borrows["code"] = {"roots"} /\ Borrows["mappings"] = {"roots", "process", "code"}
        /\ Borrows["cgroup"] = {"roots", "process"} /\ Borrows["filters"] = {"roots", "process", "cgroup"}
    BY DEF Borrows, Views
  <1>2. \A v \in Views : v \notin Borrows[v] /\ Borrows[v] \subseteq Views
    BY <1>1 DEF Views
  <1> QED
    BY <1>1, <1>2

\* Stages after observing.
LEMMA SawFacts ==
    ASSUME NEW x \in Stage, NEW L \in SUBSET Marks
    PROVE  /\ Saw(x, L) \in Stage
           /\ Saw(x, L).own = x.own /\ Saw(x, L).live = x.live /\ Saw(x, L).marks = x.marks \cup L
           /\ \A M : Saw(Saw(x, L), M) = Saw(x, L \cup M)
           /\ L = {} => Saw(x, L) = x
  <1>1. /\ x \in [own : SUBSET Views, live : SUBSET Views, marks : SUBSET Marks]
        /\ x.live \subseteq x.own
    BY DEF Stage
  <1>2. Saw(x, L) \in [own : SUBSET Views, live : SUBSET Views, marks : SUBSET Marks]
    BY <1>1 DEF Saw
  <1>3. Saw(x, L).own = x.own /\ Saw(x, L).live = x.live /\ Saw(x, L).marks = x.marks \cup L
    BY DEF Saw
  <1>4. Saw(x, L) \in Stage
    BY <1>1, <1>2, <1>3 DEF Stage
  <1>5. \A M : Saw(Saw(x, L), M) = Saw(x, L \cup M)
    <2> TAKE M
    <2>1. (x.marks \cup L) \cup M = x.marks \cup (L \cup M)
      OBVIOUS
    <2> QED
      BY <1>3, <2>1 DEF Saw
  <1>6. ASSUME L = {} PROVE Saw(x, L) = x
    <2>1. x.marks \cup L = x.marks
      BY <1>6
    <2>2. x = [own |-> x.own, live |-> x.live, marks |-> x.marks]
      BY <1>1
    <2> QED
      BY <2>1, <2>2 DEF Saw
  <1> QED
    BY <1>3, <1>4, <1>5, <1>6

\* A program of one operation.
LEMMA LeadsOne ==
    ASSUME NEW x \in Stage, NEW y \in Stage, NEW o \in Ops, Moves(x, o, y)
    PROVE  Leads(<<o>>, x, y)
  <1> DEFINE S == [i \in 1..2 |-> IF i = 1 THEN x ELSE y]
  <1>1. <<o>> \in Seq(Ops) /\ Len(<<o>>) = 1 /\ <<o>>[1] = o
    OBVIOUS
  <1>2. S \in [1..(1 + 1) -> Stage] /\ S[1] = x /\ S[1 + 1] = y
    OBVIOUS
  <1>3. \A i \in 1..1 : Moves(S[i], <<o>>[i], S[i + 1])
    <2>1. \A i \in 1..1 : i = 1
      OBVIOUS
    <2> QED
      BY <1>1, <1>2, <2>1
  <1>4. Path(<<o>>, S)
    BY <1>1, <1>2, <1>3 DEF Path
  <1> HIDE DEF S
  <1> QED
    BY <1>1, <1>2, <1>4 DEF Leads

\* One program after another.
LEMMA LeadsCat ==
    ASSUME NEW s, NEW t, NEW x, NEW y, NEW z, Leads(s, x, y), Leads(t, y, z)
    PROVE  Leads(s \o t, x, z)
  <1>1. s \in Seq(Ops) /\ t \in Seq(Ops)
    BY DEF Leads, Path
  <1>2. PICK S : Path(s, S) /\ S[1] = x /\ S[Len(s) + 1] = y
    BY DEF Leads
  <1>3. PICK T : Path(t, T) /\ T[1] = y /\ T[Len(t) + 1] = z
    BY DEF Leads
  <1>4. PICK m \in Nat, n \in Nat : m = Len(s) /\ n = Len(t)
    <2>1. Len(s) \in Nat /\ Len(t) \in Nat
      BY <1>1
    <2> QED
      BY <2>1
  <1> DEFINE R == [i \in 1..(m + n + 1) |-> IF i <= m THEN S[i] ELSE T[i - m]]
  <1>5. S \in [1..(m + 1) -> Stage] /\ \A i \in 1..m : Moves(S[i], s[i], S[i + 1])
    BY <1>2, <1>4 DEF Path
  <1>6. T \in [1..(n + 1) -> Stage] /\ \A i \in 1..n : Moves(T[i], t[i], T[i + 1])
    BY <1>3, <1>4 DEF Path
  <1>7. /\ s \o t \in Seq(Ops) /\ Len(s \o t) = m + n
        /\ \A i \in 1..m : (s \o t)[i] = s[i]
        /\ \A i \in 1..n : (s \o t)[m + i] = t[i]
    BY <1>1, <1>4
  <1>8. R \in [1..(m + n + 1) -> Stage]
    <2>1. ASSUME NEW i \in 1..(m + n + 1) PROVE (IF i <= m THEN S[i] ELSE T[i - m]) \in Stage
      <3>1. i <= m => i \in 1..(m + 1)
        BY <1>4
      <3>2. ~(i <= m) => i - m \in 1..(n + 1)
        BY <1>4
      <3> QED
        BY <1>5, <1>6, <3>1, <3>2
    <2> QED
      BY <2>1
  <1>9. \A i \in 1..(m + 1) : R[i] = S[i]
    <2> TAKE i \in 1..(m + 1)
    <2>1. i \in 1..(m + n + 1)
      BY <1>4
    <2>2. CASE i <= m
      BY <2>1, <2>2
    <2>3. CASE ~(i <= m)
      <3>1. i = m + 1 /\ i - m = 1
        BY <1>4, <2>3
      <3> QED
        BY <1>2, <1>3, <1>4, <2>1, <2>3, <3>1
    <2> QED
      BY <2>2, <2>3
  <1>10. \A i \in 1..(n + 1) : R[m + i] = T[i]
    <2> TAKE i \in 1..(n + 1)
    <2>1. m + i \in 1..(m + n + 1) /\ ~(m + i <= m) /\ (m + i) - m = i
      BY <1>4
    <2> QED
      BY <2>1
  <1> HIDE DEF R
  <1>11. ASSUME NEW i \in 1..(m + n) PROVE Moves(R[i], (s \o t)[i], R[i + 1])
    <2>1. CASE i <= m
      <3>1. i \in 1..m /\ i \in 1..(m + 1) /\ i + 1 \in 1..(m + 1)
        BY <1>4, <2>1
      <3> QED
        BY <1>5, <1>7, <1>9, <3>1
    <2>2. CASE ~(i <= m)
      <3>1. PICK j : j = i - m
        OBVIOUS
      <3>2. /\ j \in 1..n /\ j \in 1..(n + 1) /\ j + 1 \in 1..(n + 1)
            /\ i = m + j /\ i + 1 = m + (j + 1)
        BY <1>4, <2>2, <3>1
      <3>3. R[i] = T[j] /\ R[i + 1] = T[j + 1] /\ (s \o t)[i] = t[j]
        BY <1>7, <1>10, <3>2
      <3> QED
        BY <1>6, <3>2, <3>3
    <2> QED
      BY <2>1, <2>2
  <1>12. Path(s \o t, R)
    BY <1>7, <1>8, <1>11 DEF Path
  <1>13. R[1] = x /\ R[Len(s \o t) + 1] = z
    <2>1. 1 \in 1..(m + 1) /\ n + 1 \in 1..(n + 1) /\ m + (n + 1) = (m + n) + 1
      BY <1>4
    <2> QED
      BY <1>2, <1>3, <1>4, <1>7, <1>9, <1>10, <2>1
  <1> QED
    BY <1>7, <1>12, <1>13 DEF Leads

\* Observing programs, one after another.
LEMMA LooksCat ==
    ASSUME NEW s, NEW t, NEW N, NEW L, NEW M, NEW O, Looks(s, N, L), Looks(t, N, M), O = L \cup M
    PROVE  Looks(s \o t, N, O)
  <1>1. L \subseteq Views /\ M \subseteq Views /\ s \in Seq(Ops) /\ t \in Seq(Ops)
    BY DEF Looks
  <1>2. s \o t \in Seq(Ops) /\ O \subseteq Views
    BY <1>1
  <1>3. ASSUME NEW x \in Stage, N \subseteq Grants(x)
        PROVE  Leads(s \o t, x, Saw(x, O))
    <2>1. L \in SUBSET Marks /\ "joined" \notin L
      BY <1>1 DEF Marks, Views
    <2>2. /\ Saw(x, L) \in Stage /\ Saw(Saw(x, L), M) = Saw(x, O)
          /\ Saw(x, L).live = x.live /\ Saw(x, L).marks = x.marks \cup L
      BY <2>1, SawFacts
    <2>3. N \subseteq Grants(Saw(x, L))
      BY <1>3, <2>1, <2>2 DEF Grants
    <2>4. Leads(s, x, Saw(x, L)) /\ Leads(t, Saw(x, L), Saw(x, O))
      BY <1>3, <2>2, <2>3 DEF Looks
    <2> QED
      BY <2>4, LeadsCat
  <1> QED
    BY <1>2, <1>3 DEF Looks

\* The phases of the readers check, do their work, and check again.
LEMMA LooksAround ==
    ASSUME NEW s, NEW t, NEW N, NEW L, NEW M, NEW O, Looks(s, N, L), Looks(t, N, M), O = L \cup M
    PROVE  Looks(Around(s, t), N, O)
  <1>1. Looks(s \o t, N, O)
    BY LooksCat
  <1>2. O = O \cup L
    OBVIOUS
  <1> QED
    BY <1>1, <1>2, LooksCat DEF Around

\* Operations are operations.
LEMMA OpType ==
    ASSUME NEW n \in Names, NEW a \in Resources \cup Facts
    PROVE  /\ Op(n, a) \in Seq(Ops) /\ [op |-> n, arg |-> a] \in Ops /\ Op(n, a) = <<[op |-> n, arg |-> a]>>
           /\ [op |-> n, arg |-> a].op = n /\ [op |-> n, arg |-> a].arg = a
  BY DEF Op, Ops

\* One comparison of a view.
LEMMA LookLooks ==
    ASSUME NEW N, NEW v \in N, v \in Views
    PROVE  Looks(Look(v), N, {v})
  <1>1. "look" \in Names /\ v \in Resources \cup Facts
    BY DEF Names, Facts
  <1>2. ASSUME NEW x \in Stage, N \subseteq Grants(x)
        PROVE  Leads(Look(v), x, Saw(x, {v}))
    <2>1. v \in x.live
      <3>1. v # "unjoined"
        BY DEF Views
      <3> QED
        BY <1>2, <3>1 DEF Grants
    <2>2. {v} \in SUBSET Marks
      BY DEF Marks
    <2>3. Saw(x, {v}) \in Stage
      BY <2>2, SawFacts
    <2>4. Moves(x, [op |-> "look", arg |-> v], Saw(x, {v}))
      BY <2>1 DEF Moves
    <2> QED
      BY <1>1, <2>3, <2>4, OpType, LeadsOne DEF Look
  <1> QED
    BY <1>1, <1>2, OpType DEF Looks, Look

\* One open of a live reader.
LEMMA OpenLooks ==
    ASSUME NEW N, NEW v \in N, v \in Views, NEW r, r \in Holds[v], r = "process" => "unjoined" \in N
    PROVE  Looks(Open(r), N, {})
  <1>1. "open" \in Names /\ r \in Resources \cup Facts
    BY HoldsFacts DEF Names
  <1>2. ASSUME NEW x \in Stage, N \subseteq Grants(x)
        PROVE  Leads(Open(r), x, Saw(x, {}))
    <2>1. v \in x.live
      <3>1. v # "unjoined"
        BY DEF Views
      <3> QED
        BY <1>2, <3>1 DEF Grants
    <2>2. Saw(x, {}) = x
      BY SawFacts
    <2>3. r = "process" => "joined" \notin x.marks
      <3>1. "unjoined" \notin x.live
        BY DEF Stage, Views
      <3> QED
        BY <1>2, <3>1 DEF Grants
    <2>4. Moves(x, [op |-> "open", arg |-> r], x)
      BY <2>1, <2>3 DEF Moves
    <2> QED
      BY <1>1, <2>2, <2>4, OpType, LeadsOne DEF Open
  <1> QED
    BY <1>1, <1>2, OpType DEF Looks, Open

\* A reading of the status page, and a check of the server's files.
LEMMA StillLooks ==
    ASSUME NEW N
    PROVE  Looks(Epoch, N, {}) /\ Looks(Bind, N, {})
  <1>1. /\ "epoch" \in Names /\ "bind" \in Names
        /\ "policy" \in Resources \cup Facts /\ "files" \in Resources \cup Facts
    BY DEF Names, Facts, Views
  <1>2. ASSUME NEW x \in Stage
        PROVE  Leads(Epoch, x, Saw(x, {})) /\ Leads(Bind, x, Saw(x, {}))
    <2>1. Saw(x, {}) = x
      BY SawFacts
    <2>2. /\ Moves(x, [op |-> "epoch", arg |-> "policy"], x)
          /\ Moves(x, [op |-> "bind", arg |-> "files"], x)
      BY DEF Moves
    <2>3. Leads(Epoch, x, x)
      BY <1>1, <2>2, OpType, LeadsOne DEF Epoch
    <2>4. Leads(Bind, x, x)
      BY <1>1, <2>2, OpType, LeadsOne DEF Bind
    <2> QED
      BY <2>1, <2>3, <2>4
  <1> QED
    BY <1>1, <1>2, OpType DEF Looks, Epoch, Bind

\* The checks of the seven readers: what each looks at.
LEMMA RootsLooks ==
    ASSUME NEW N, "roots" \in N
    PROVE  Looks(RootsCheck, N, {"roots"})
  BY LookLooks DEF RootsCheck, Views

\* _KernelPolicyView.check compares between two checks of the roots.
LEMMA PolicyLooks ==
    ASSUME NEW N, {"roots", "policy"} \subseteq N
    PROVE  Looks(PolicyCheck, N, {"roots", "policy"})
  <1>1. Looks(RootsCheck, N, {"roots"}) /\ Looks(Look("policy"), N, {"policy"})
    BY RootsLooks, LookLooks DEF Views
  <1>2. {"roots", "policy"} = {"roots"} \cup {"policy"}
    OBVIOUS
  <1> QED
    BY <1>1, <1>2, LooksAround DEF PolicyCheck, PolicyPhase

\* A process reader compares its rows, between two checks of the roots.
LEMMA ProcessLooks ==
    ASSUME NEW N, {"roots", "process"} \subseteq N
    PROVE  /\ Looks(ProcessCompare, N, {"process"})
           /\ Looks(ProcessCheck, N, {"roots", "process"})
  <1>1. Looks(RootsCheck, N, {"roots"}) /\ Looks(ProcessCompare, N, {"process"})
    BY RootsLooks, LookLooks DEF Views, ProcessCompare
  <1>2. {"roots", "process"} = {"roots"} \cup {"process"}
    OBVIOUS
  <1> QED
    BY <1>1, <1>2, LooksAround DEF ProcessCheck, ProcessPhase

\* The code reader observes; its check, and matching it with the maps, bracket that.
LEMMA CodeLooks ==
    ASSUME NEW N, {"roots", "code"} \subseteq N
    PROVE  /\ Looks(CodeObserve, N, {"code"})
           /\ Looks(CodeCheck, N, {"roots", "code"}) /\ Looks(MatchMaps, N, {"roots", "code"})
  <1>1. Looks(RootsCheck, N, {"roots"}) /\ Looks(CodeObserve, N, {"code"})
    BY RootsLooks, LookLooks DEF Views, CodeObserve
  <1>2. {"roots", "code"} = {"roots"} \cup {"code"} /\ {"code"} = {"code"} \cup {"code"}
    OBVIOUS
  <1>3. Looks(CodeObserve \o CodeObserve, N, {"code"})
    BY <1>1, <1>2, LooksCat
  <1>4. Looks(CodeCheck, N, {"roots", "code"})
    BY <1>1, <1>2, LooksAround DEF CodeCheck, CodePhase
  <1>5. Looks(MatchMaps, N, {"roots", "code"})
    BY <1>1, <1>2, <1>3, LooksAround DEF MatchMaps, CodePhase
  <1> QED
    BY <1>1, <1>4, <1>5

\* A phase of the mappings or of the cgroup reader, around any work.
LEMMA ProcessAround ==
    ASSUME NEW N, {"roots", "process"} \subseteq N, NEW s, NEW L, NEW O, Looks(s, N, L),
           O = {"roots", "process"} \cup L
    PROVE  Looks(MappingsPhase(s), N, O) /\ Looks(CgroupPhase(s), N, O)
  <1>1. Looks(ProcessCompare, N, {"process"}) /\ Looks(RootsCheck, N, {"roots"})
    BY ProcessLooks, RootsLooks
  <1>2. Looks(Around(ProcessCompare, s), N, {"process"} \cup L)
    BY <1>1, LooksAround
  <1>3. O = {"roots"} \cup ({"process"} \cup L)
    OBVIOUS
  <1>4. Looks(Around(RootsCheck, Around(ProcessCompare, s)), N, O)
    BY <1>1, <1>2, <1>3, LooksAround
  <1> QED
    BY <1>4 DEF MappingsPhase, CgroupPhase, ProcessPhase

\* The mappings are read inside the code they map and the process they belong to.
LEMMA MappingsLooks ==
    ASSUME NEW N, {"roots", "process", "code", "mappings"} \subseteq N
    PROVE  /\ Looks(MappingsObserve, N, {"roots", "process", "code", "mappings"})
           /\ Looks(MappingsCheck, N, {"roots", "process", "code", "mappings"})
  <1>1. /\ Looks(Look("mappings"), N, {"mappings"}) /\ Looks(MatchMaps, N, {"roots", "code"})
        /\ Looks(CodeCheck, N, {"roots", "code"}) /\ Looks(ProcessCompare, N, {"process"})
    BY LookLooks, CodeLooks, ProcessLooks DEF Views
  <1>2. {"roots", "code", "mappings"} = {"mappings"} \cup {"roots", "code"}
    OBVIOUS
  <1>3. Looks(MappingsSnapshot, N, {"roots", "code", "mappings"})
    BY <1>1, <1>2, LooksCat DEF MappingsSnapshot
  <1>4. {"roots", "code", "mappings"} = {"roots", "code"} \cup {"roots", "code", "mappings"}
    OBVIOUS
  <1>5. Looks(CodeCheck \o MappingsSnapshot, N, {"roots", "code", "mappings"})
    BY <1>1, <1>3, <1>4, LooksCat
  <1>6. {"roots", "process", "code", "mappings"} = {"roots", "code", "mappings"} \cup {"process"}
    OBVIOUS
  <1>7. Looks((CodeCheck \o MappingsSnapshot) \o ProcessCompare, N, {"roots", "process", "code", "mappings"})
    BY <1>1, <1>5, <1>6, LooksCat
  <1>8. {"roots", "process", "code", "mappings"} =
          {"roots", "process", "code", "mappings"} \cup {"roots", "code", "mappings"}
    OBVIOUS
  <1>9. Looks(MappingsObserve, N, {"roots", "process", "code", "mappings"})
    BY <1>3, <1>7, <1>8, LooksCat DEF MappingsObserve
  <1>10. {"roots", "process", "code", "mappings"} =
           {"roots", "process"} \cup {"roots", "process", "code", "mappings"}
    OBVIOUS
  <1> QED
    BY <1>9, <1>10, ProcessAround DEF MappingsCheck

\* The cgroup is read with the process before and after it.
LEMMA CgroupLooks ==
    ASSUME NEW N, {"roots", "process", "cgroup"} \subseteq N
    PROVE  /\ Looks(CgroupObserve, N, {"process", "cgroup"})
           /\ Looks(CgroupCheck, N, {"roots", "process", "cgroup"})
  <1>1. Looks(Look("cgroup"), N, {"cgroup"}) /\ Looks(ProcessCompare, N, {"process"})
    BY LookLooks, ProcessLooks DEF Views
  <1>2. /\ {"process", "cgroup"} = {"cgroup"} \cup {"process"}
        /\ {"process", "cgroup"} = {"process", "cgroup"} \cup {"cgroup"}
    OBVIOUS
  <1>3. Looks(Look("cgroup") \o ProcessCompare, N, {"process", "cgroup"})
    BY <1>1, <1>2, LooksCat
  <1>4. Looks(CgroupObserve, N, {"process", "cgroup"})
    BY <1>1, <1>2, <1>3, LooksCat DEF CgroupObserve
  <1>5. {"roots", "process", "cgroup"} = {"roots", "process"} \cup {"process", "cgroup"}
    OBVIOUS
  <1> QED
    BY <1>4, <1>5, ProcessAround DEF CgroupCheck

\* A phase of the filter reader, around any work.
LEMMA FiltersAround ==
    ASSUME NEW N, {"roots", "process", "cgroup", "filters"} \subseteq N, NEW s, NEW L, L \subseteq {"filters"},
           Looks(s, N, L)
    PROVE  Looks(FiltersPhase(s), N, {"roots", "process", "cgroup"} \cup L)
  <1>1. Looks(CgroupObserve, N, {"process", "cgroup"})
    BY CgroupLooks
  <1>2. Looks(Around(CgroupObserve, s), N, {"process", "cgroup"} \cup L)
    BY <1>1, LooksAround
  <1>3. {"roots", "process", "cgroup"} \cup L = {"roots", "process"} \cup ({"process", "cgroup"} \cup L)
    OBVIOUS
  <1> QED
    BY <1>2, <1>3, ProcessAround DEF FiltersPhase

\* The filters are read inside the cgroup and the process.
LEMMA FiltersLooks ==
    ASSUME NEW N, {"roots", "process", "cgroup", "filters"} \subseteq N
    PROVE  Looks(FiltersCheck, N, {"roots", "process", "cgroup"} \cup {"filters"})
  <1>1. Looks(Look("filters"), N, {"filters"})
    BY LookLooks DEF Views
  <1> QED
    BY <1>1, FiltersAround DEF FiltersCheck

\* The two operations that leave a mark which is no view.
LEMMA MarkLeads ==
    ASSUME NEW x \in Stage
    PROVE  /\ Leads(Join, x, Saw(x, {"joined"})) /\ Leads(Ready, x, Sampling(x))
           /\ Leads(Bind, x, x) /\ Sampling(x) \in Stage
  <1>1. /\ "join" \in Names /\ "ready" \in Names
        /\ "policy" \in Resources \cup Facts /\ "process" \in Resources \cup Facts
    BY DEF Names, Facts, Views
  <1>2. Saw(x, {"joined"}) \in Stage /\ Sampling(x) \in Stage
    <2>1. x.own \in SUBSET Views /\ x.live \subseteq x.own /\ x.marks \in SUBSET Marks
      BY DEF Stage
    <2>2. Sampling(x) \in Stage
      BY <2>1 DEF Stage, Sampling, Marks
    <2> QED
      BY <2>2, SawFacts DEF Marks
  <1>3. /\ Moves(x, [op |-> "join", arg |-> "process"], Saw(x, {"joined"}))
        /\ Moves(x, [op |-> "ready", arg |-> "policy"], Sampling(x))
    BY DEF Moves
  <1>4. Leads(Join, x, Saw(x, {"joined"}))
    BY <1>1, <1>2, <1>3, OpType, LeadsOne DEF Join
  <1>5. Leads(Ready, x, Sampling(x))
    BY <1>1, <1>2, <1>3, OpType, LeadsOne DEF Ready
  <1>6. Leads(Bind, x, Saw(x, {})) /\ Saw(x, {}) = x
    BY StillLooks, SawFacts DEF Looks
  <1> QED
    BY <1>2, <1>4, <1>5, <1>6

\* Nothing is lost between two stages, and no reader gained; or one reader is.
Kept(x, y) == y \in Stage /\ y.own = x.own /\ y.live = x.live /\ x.marks \subseteq y.marks
Grown(x, y, v) == y \in Stage /\ y.own = x.own \cup {v} /\ y.live = x.live \cup {v} /\ x.marks \subseteq y.marks
Unjoined(x) == "joined" \notin x.marks

\* An observing program from a stage at which its readers are live.
LEMMA LooksLead ==
    ASSUME NEW s, NEW N, NEW L, Looks(s, N, L), NEW x \in Stage, N \subseteq Grants(x)
    PROVE  \E y : Leads(s, x, y) /\ Kept(x, y) /\ L \subseteq y.marks /\ (Unjoined(x) => Unjoined(y))
  <1>1. L \subseteq Views /\ "joined" \notin Views
    BY DEF Looks, Views
  <1>2. L \in SUBSET Marks
    BY <1>1 DEF Marks
  <1>3. Leads(s, x, Saw(x, L)) /\ Kept(x, Saw(x, L)) /\ L \subseteq Saw(x, L).marks
    BY <1>2, SawFacts DEF Looks, Kept
  <1>4. Unjoined(x) => Unjoined(Saw(x, L))
    BY <1>1, <1>2, SawFacts DEF Unjoined
  <1> QED
    BY <1>3, <1>4

\* _observe: every view is looked at, and the peer joined.
LEMMA ObserveLeads ==
    ASSUME NEW r, NEW x \in Stage, x.live = Views
    PROVE  \E y : /\ Leads(Observe(r), x, y) /\ Kept(x, y) /\ Views \subseteq y.marks
                  /\ r # "SERVER" => "joined" \in y.marks
  <1> DEFINE N == Views
             P1 == PolicyCheck \o RootsCheck \o PolicyCheck
             P2 == P1 \o ProcessCheck \o PolicyCheck
             P3 == P2 \o CodeCheck \o PolicyCheck
             P4 == P3 \o MappingsCheck \o PolicyCheck
             P5 == P4 \o CgroupCheck \o PolicyCheck
             P6 == P5 \o FiltersCheck \o PolicyCheck
             P7 == P6 \o RootsCheck
             A == {"roots", "policy"}
             B == {"roots", "policy", "process", "code", "mappings"}
  <1>1. Looks(PolicyCheck, N, A) /\ Looks(RootsCheck, N, {"roots"})
    BY PolicyLooks, RootsLooks DEF Views
  <1>2. Looks(ProcessCheck, N, {"roots", "process"}) /\ Looks(CodeCheck, N, {"roots", "code"})
    BY ProcessLooks, CodeLooks DEF Views
  <1>3. /\ Looks(MappingsCheck, N, {"roots", "process", "code", "mappings"})
        /\ Looks(CgroupCheck, N, {"roots", "process", "cgroup"})
        /\ Looks(FiltersCheck, N, {"roots", "process", "cgroup"} \cup {"filters"})
    BY MappingsLooks, CgroupLooks, FiltersLooks DEF Views
  <1>4. Looks(P1, N, A)
    <2>1. A = A \cup {"roots"} /\ A = A \cup A
      OBVIOUS
    <2> QED
      BY <1>1, <2>1, LooksCat
  <1>5. Looks(P2, N, A \cup {"process"})
    <2>1. /\ A \cup {"process"} = A \cup {"roots", "process"}
          /\ A \cup {"process"} = (A \cup {"process"}) \cup A
      OBVIOUS
    <2>2. Looks(P1 \o ProcessCheck, N, A \cup {"process"})
      BY <1>2, <1>4, <2>1, LooksCat
    <2> QED
      BY <1>1, <2>1, <2>2, LooksCat
  <1>6. Looks(P3, N, A \cup {"process", "code"})
    <2>1. /\ A \cup {"process", "code"} = (A \cup {"process"}) \cup {"roots", "code"}
          /\ A \cup {"process", "code"} = (A \cup {"process", "code"}) \cup A
      OBVIOUS
    <2>2. Looks(P2 \o CodeCheck, N, A \cup {"process", "code"})
      BY <1>2, <1>5, <2>1, LooksCat
    <2> QED
      BY <1>1, <2>1, <2>2, LooksCat
  <1>7. Looks(P4, N, B)
    <2>1. /\ B = (A \cup {"process", "code"}) \cup {"roots", "process", "code", "mappings"}
          /\ B = B \cup A
      OBVIOUS
    <2>2. Looks(P3 \o MappingsCheck, N, B)
      BY <1>3, <1>6, <2>1, LooksCat
    <2> QED
      BY <1>1, <2>1, <2>2, LooksCat
  <1>8. Looks(P5, N, B \cup {"cgroup"})
    <2>1. /\ B \cup {"cgroup"} = B \cup {"roots", "process", "cgroup"}
          /\ B \cup {"cgroup"} = (B \cup {"cgroup"}) \cup A
      OBVIOUS
    <2>2. Looks(P4 \o CgroupCheck, N, B \cup {"cgroup"})
      BY <1>3, <1>7, <2>1, LooksCat
    <2> QED
      BY <1>1, <2>1, <2>2, LooksCat
  <1>9. Looks(P7, N, Views)
    <2>1. /\ Views = (B \cup {"cgroup"}) \cup ({"roots", "process", "cgroup"} \cup {"filters"})
          /\ Views = Views \cup A /\ Views = Views \cup {"roots"}
      BY DEF Views
    <2>2. Looks(P5 \o FiltersCheck, N, Views)
      BY <1>3, <1>8, <2>1, LooksCat
    <2>3. Looks(P6, N, Views)
      BY <1>1, <2>1, <2>2, LooksCat
    <2> QED
      BY <1>1, <2>1, <2>3, LooksCat
  <1>10. Observe(r) = P7 \o PeerJoin(r)
    BY DEF Observe
  <1> HIDE DEF P7
  <1>11. PICK y : Leads(P7, x, y) /\ Kept(x, y) /\ Views \subseteq y.marks
    <2>1. N \subseteq Grants(x)
      BY DEF Grants
    <2> QED
      BY <1>9, <2>1, LooksLead
  <1>12. CASE r = "SERVER"
    <2>1. P7 \in Seq(Ops)
      BY <1>9 DEF Looks
    <2>2. P7 \o <<>> = P7
      BY <2>1
    <2>3. Observe(r) = P7
      BY <1>10, <1>12, <2>2 DEF PeerJoin
    <2> QED
      BY <1>11, <1>12, <2>3
  <1>13. CASE r # "SERVER"
    <2>1. Leads(Join, y, Saw(y, {"joined"}))
      BY <1>11, MarkLeads DEF Kept
    <2>2. Leads(Observe(r), x, Saw(y, {"joined"}))
      BY <1>10, <1>11, <1>13, <2>1, LeadsCat DEF PeerJoin
    <2>3. /\ Kept(x, Saw(y, {"joined"})) /\ Views \subseteq Saw(y, {"joined"}).marks
          /\ "joined" \in Saw(y, {"joined"}).marks
      BY <1>11, SawFacts DEF Kept, Marks
    <2> QED
      BY <2>2, <2>3
  <1> QED
    BY <1>12, <1>13

\* check(): every view is looked at, under the sampled epoch.
LEMMA CheckLeads ==
    ASSUME NEW r
    PROVE  \E y : Leads(CheckProgram(r), Begun("check"), y) /\ Reached(r, y)
  <1> DEFINE x == Begun("check")
  <1>1. x \in Stage /\ x.own = Views /\ x.live = Views /\ x.marks = {"ready"}
    BY DEF Begun, Stage, Marks
  <1> HIDE DEF x
  <1>2. PICK y : /\ Leads(Observe(r), x, y) /\ Kept(x, y) /\ Views \subseteq y.marks
                 /\ r # "SERVER" => "joined" \in y.marks
    BY <1>1, ObserveLeads
  <1>3. Leads(Bind, x, x) /\ Leads(Bind, y, y)
    BY <1>1, <1>2, MarkLeads DEF Kept
  <1>4. Leads(Bind \o Observe(r), x, y)
    BY <1>2, <1>3, LeadsCat
  <1>5. Leads((Bind \o Observe(r)) \o Bind, x, y)
    BY <1>3, <1>4, LeadsCat
  <1>6. Leads(CheckProgram(r), x, y)
    BY <1>5 DEF CheckProgram, Phase, Around
  <1>7. Reached(r, y)
    BY <1>1, <1>2 DEF Reached, Kept
  <1> QED
    BY <1>6, <1>7 DEF x

\* A reader is registered, constructed, and does the work of its constructor.
LEMMA BuildLeads ==
    ASSUME NEW v \in Views, NEW s, NEW N, NEW L, Looks(s, N, L), NEW x \in Stage,
           v \notin x.own, Borrows[v] \subseteq x.own, N \subseteq Grants(x) \cup {v}
    PROVE  \E y : Leads(Own(v) \o Begin(v) \o s, x, y) /\ Grown(x, y, v) /\ (Unjoined(x) => Unjoined(y))
  <1> DEFINE a == [own |-> x.own \cup {v}, live |-> x.live, marks |-> x.marks]
             b == [own |-> x.own \cup {v}, live |-> x.live \cup {v}, marks |-> x.marks]
  <1>1. x.own \in SUBSET Views /\ x.live \subseteq x.own /\ x.marks \in SUBSET Marks
    BY DEF Stage
  <1>2. a \in Stage /\ b \in Stage
    BY <1>1 DEF Stage
  <1>3. "own" \in Names /\ "begin" \in Names /\ v \in Resources \cup Facts
    BY DEF Names, Facts
  <1>4. Moves(x, [op |-> "own", arg |-> v], a) /\ Moves(a, [op |-> "begin", arg |-> v], b)
    BY DEF Moves
  <1>5. Leads(Own(v), x, a) /\ Leads(Begin(v), a, b)
    BY <1>2, <1>3, <1>4, OpType, LeadsOne DEF Own, Begin
  <1>6. b.own = x.own \cup {v} /\ b.live = x.live \cup {v} /\ b.marks = x.marks
    OBVIOUS
  <1> HIDE DEF a, b
  <1>7. N \subseteq Grants(b)
    BY <1>6 DEF Grants
  <1>8. PICK y : Leads(s, b, y) /\ Kept(b, y) /\ (Unjoined(b) => Unjoined(y))
    BY <1>2, <1>7, LooksLead
  <1>9. Leads(Own(v) \o Begin(v), x, b)
    BY <1>5, LeadsCat
  <1>10. Leads((Own(v) \o Begin(v)) \o s, x, y)
    BY <1>8, <1>9, LeadsCat
  <1>11. Grown(x, y, v) /\ (Unjoined(x) => Unjoined(y))
    BY <1>6, <1>8 DEF Kept, Grown, Unjoined
  <1> QED
    BY <1>10, <1>11

\* The constructors of the seven readers.
LEMMA RootsBuilt ==
    ASSUME NEW x \in Stage, "roots" \notin x.own, Unjoined(x)
    PROVE  \E y : Leads(RootsBuild, x, y) /\ Grown(x, y, "roots") /\ Unjoined(y)
  <1>1. "roots" \in Views /\ "roots" \in Holds["roots"] /\ Borrows["roots"] = {}
    BY HoldsFacts, BorrowsFacts DEF Views
  <1>2. Looks(Open("roots"), {"roots"}, {}) /\ Looks(RootsCheck, {"roots"}, {"roots"})
    BY <1>1, OpenLooks, RootsLooks
  <1>3. PICK y : Leads(Own("roots") \o Begin("roots") \o Open("roots"), x, y) /\ Grown(x, y, "roots") /\ Unjoined(y)
    BY <1>1, <1>2, BuildLeads
  <1>4. {"roots"} \subseteq Grants(y) /\ y \in Stage
    BY <1>3 DEF Grants, Grown
  <1>5. PICK z : Leads(RootsCheck, y, z) /\ Kept(y, z) /\ Unjoined(z)
    BY <1>2, <1>3, <1>4, LooksLead
  <1>6. Leads(RootsBuild, x, z)
    BY <1>3, <1>5, LeadsCat DEF RootsBuild
  <1> QED
    BY <1>3, <1>5, <1>6 DEF Kept, Grown

\* The policy reader is built on the roots.
LEMMA PolicyBuilt ==
    ASSUME NEW x \in Stage, "policy" \notin x.own, "roots" \in x.live, Unjoined(x)
    PROVE  \E y : Leads(PolicyBuild, x, y) /\ Grown(x, y, "policy") /\ Unjoined(y)
  <1> DEFINE N == {"roots", "policy"}
             s == Open("policy") \o Look("policy")
  <1>1. /\ "policy" \in Views /\ "policy" \in Holds["policy"]
        /\ Borrows["policy"] = {"roots"} /\ x.live \subseteq x.own
    BY HoldsFacts, BorrowsFacts DEF Views, Stage
  <1>2. /\ Looks(Open("policy"), N, {}) /\ Looks(Look("policy"), N, {"policy"})
        /\ Looks(RootsCheck, N, {"roots"})
    BY <1>1, OpenLooks, LookLooks, RootsLooks
  <1>3. {"policy"} = {} \cup {"policy"} /\ N = {"roots"} \cup {"policy"}
    OBVIOUS
  <1>4. Looks(s, N, {"policy"})
    BY <1>2, <1>3, LooksCat
  <1>5. Looks(PolicyPhase(s), N, N)
    BY <1>2, <1>3, <1>4, LooksAround DEF PolicyPhase
  <1>6. N \subseteq Grants(x) \cup {"policy"} /\ Borrows["policy"] \subseteq x.own
    BY <1>1 DEF Grants
  <1> QED
    BY <1>1, <1>5, <1>6, BuildLeads DEF PolicyBuild

\* The process reader is built on the roots, before the peer is joined.
LEMMA ProcessBuilt ==
    ASSUME NEW x \in Stage, "process" \notin x.own, "roots" \in x.live, Unjoined(x)
    PROVE  \E y : Leads(ProcessBuild, x, y) /\ Grown(x, y, "process") /\ Unjoined(y)
  <1> DEFINE N == {"roots", "process", "unjoined"}
             s == Open("pidfd") \o Open("process") \o ProcessCompare
  <1>1. /\ "process" \in Views /\ "process" \in Holds["process"] /\ "pidfd" \in Holds["process"]
        /\ Borrows["process"] = {"roots"} /\ x.live \subseteq x.own
    BY HoldsFacts, BorrowsFacts DEF Views, Stage
  <1>2. /\ Looks(Open("pidfd"), N, {}) /\ Looks(Open("process"), N, {})
        /\ Looks(ProcessCompare, N, {"process"}) /\ Looks(RootsCheck, N, {"roots"})
    BY <1>1, OpenLooks, ProcessLooks, RootsLooks
  <1>3. /\ {} = {} \cup {} /\ {"process"} = {} \cup {"process"}
        /\ {"roots", "process"} = {"roots"} \cup {"process"}
    OBVIOUS
  <1>4. Looks(Open("pidfd") \o Open("process"), N, {})
    BY <1>2, <1>3, LooksCat
  <1>5. Looks(s, N, {"process"})
    BY <1>2, <1>3, <1>4, LooksCat
  <1>6. Looks(ProcessPhase(s), N, {"roots", "process"})
    BY <1>2, <1>3, <1>5, LooksAround DEF ProcessPhase
  <1>7. N \subseteq Grants(x) \cup {"process"} /\ Borrows["process"] \subseteq x.own
    BY <1>1 DEF Grants, Unjoined
  <1> QED
    BY <1>1, <1>6, <1>7, BuildLeads DEF ProcessBuild

\* The code reader is built on the roots.
LEMMA CodeBuilt ==
    ASSUME NEW x \in Stage, "code" \notin x.own, "roots" \in x.live
    PROVE  \E y : Leads(CodeBuild, x, y) /\ Grown(x, y, "code")
  <1> DEFINE N == {"roots", "code"}
             s == Open("code") \o CodeObserve
  <1>1. /\ "code" \in Views /\ "code" \in Holds["code"]
        /\ Borrows["code"] = {"roots"} /\ x.live \subseteq x.own
    BY HoldsFacts, BorrowsFacts DEF Views, Stage
  <1>2. /\ Looks(Open("code"), N, {}) /\ Looks(CodeObserve, N, {"code"})
        /\ Looks(RootsCheck, N, {"roots"})
    BY <1>1, OpenLooks, CodeLooks, RootsLooks
  <1>3. {"code"} = {} \cup {"code"} /\ N = {"roots"} \cup {"code"}
    OBVIOUS
  <1>4. Looks(s, N, {"code"})
    BY <1>2, <1>3, LooksCat
  <1>5. Looks(CodePhase(s), N, N)
    BY <1>2, <1>3, <1>4, LooksAround DEF CodePhase
  <1>6. N \subseteq Grants(x) \cup {"code"} /\ Borrows["code"] \subseteq x.own
    BY <1>1 DEF Grants
  <1> QED
    BY <1>1, <1>5, <1>6, BuildLeads DEF CodeBuild

\* The mappings reader is built on the roots, the process and the code.
LEMMA MappingsBuilt ==
    ASSUME NEW x \in Stage, "mappings" \notin x.own, {"roots", "process", "code"} \subseteq x.live
    PROVE  \E y : Leads(MappingsBuild, x, y) /\ Grown(x, y, "mappings")
  <1> DEFINE N == {"roots", "process", "code", "mappings"}
             s == Open("mappings") \o MappingsObserve
  <1>1. /\ "mappings" \in Views /\ "mappings" \in Holds["mappings"]
        /\ Borrows["mappings"] = {"roots", "process", "code"} /\ x.live \subseteq x.own
    BY HoldsFacts, BorrowsFacts DEF Views, Stage
  <1>2. Looks(Open("mappings"), N, {}) /\ Looks(MappingsObserve, N, N)
    BY <1>1, OpenLooks, MappingsLooks
  <1>3. N = {} \cup N /\ N = {"roots", "process"} \cup N
    OBVIOUS
  <1>4. Looks(s, N, N)
    BY <1>2, <1>3, LooksCat
  <1>5. Looks(MappingsPhase(s), N, N)
    BY <1>3, <1>4, ProcessAround
  <1>6. N \subseteq Grants(x) \cup {"mappings"} /\ Borrows["mappings"] \subseteq x.own
    BY <1>1 DEF Grants
  <1> QED
    BY <1>1, <1>5, <1>6, BuildLeads DEF MappingsBuild

\* The cgroup reader is built on the roots and the process.
LEMMA CgroupBuilt ==
    ASSUME NEW x \in Stage, "cgroup" \notin x.own, {"roots", "process"} \subseteq x.live
    PROVE  \E y : Leads(CgroupBuild, x, y) /\ Grown(x, y, "cgroup")
  <1> DEFINE N == {"roots", "process", "cgroup"}
             s == Open("cgroup") \o CgroupObserve
  <1>1. /\ "cgroup" \in Views /\ "cgroup" \in Holds["cgroup"]
        /\ Borrows["cgroup"] = {"roots", "process"} /\ x.live \subseteq x.own
    BY HoldsFacts, BorrowsFacts DEF Views, Stage
  <1>2. Looks(Open("cgroup"), N, {}) /\ Looks(CgroupObserve, N, {"process", "cgroup"})
    BY <1>1, OpenLooks, CgroupLooks
  <1>3. /\ {"process", "cgroup"} = {} \cup {"process", "cgroup"}
        /\ N = {"roots", "process"} \cup {"process", "cgroup"}
    OBVIOUS
  <1>4. Looks(s, N, {"process", "cgroup"})
    BY <1>2, <1>3, LooksCat
  <1>5. Looks(CgroupPhase(s), N, N)
    BY <1>3, <1>4, ProcessAround
  <1>6. N \subseteq Grants(x) \cup {"cgroup"} /\ Borrows["cgroup"] \subseteq x.own
    BY <1>1 DEF Grants
  <1> QED
    BY <1>1, <1>5, <1>6, BuildLeads DEF CgroupBuild

\* The filter reader, the last, is built on the roots, the process and the cgroup.
LEMMA FiltersBuilt ==
    ASSUME NEW x \in Stage, "filters" \notin x.own, {"roots", "process", "cgroup"} \subseteq x.live
    PROVE  \E y : Leads(FiltersBuild, x, y) /\ Grown(x, y, "filters")
  <1> DEFINE N == {"roots", "process", "cgroup", "filters"}
             s == Open("filters") \o Look("filters")
  <1>1. /\ "filters" \in Views /\ "filters" \in Holds["filters"]
        /\ Borrows["filters"] = {"roots", "process", "cgroup"} /\ x.live \subseteq x.own
    BY HoldsFacts, BorrowsFacts DEF Views, Stage
  <1>2. Looks(Open("filters"), N, {}) /\ Looks(Look("filters"), N, {"filters"})
    BY <1>1, OpenLooks, LookLooks
  <1>3. {"filters"} = {} \cup {"filters"}
    OBVIOUS
  <1>4. Looks(s, N, {"filters"})
    BY <1>2, <1>3, LooksCat
  <1>5. Looks(FiltersPhase(s), N, {"roots", "process", "cgroup"} \cup {"filters"})
    BY <1>4, FiltersAround
  <1>6. N \subseteq Grants(x) \cup {"filters"} /\ Borrows["filters"] \subseteq x.own
    BY <1>1 DEF Grants
  <1> QED
    BY <1>1, <1>5, <1>6, BuildLeads DEF FiltersBuild

\* The status page is mapped, and the ticks sample it from here on.
LEMMA EpochLeads ==
    ASSUME NEW x \in Stage, {"roots", "policy"} \subseteq x.live, Unjoined(x)
    PROVE  \E y : /\ Leads(RetainEpoch, x, y) /\ y \in Stage /\ y.own = x.own /\ y.live = x.live
                  /\ "ready" \in y.marks /\ Unjoined(y)
  <1> DEFINE N == {"roots", "policy"}
             s == Epoch \o Open("mapping") \o Epoch
  <1>1. "policy" \in Views /\ "mapping" \in Holds["policy"]
    BY HoldsFacts DEF Views
  <1>2. Looks(Epoch, N, {}) /\ Looks(Open("mapping"), N, {}) /\ Looks(RootsCheck, N, {"roots"})
    BY <1>1, StillLooks, OpenLooks, RootsLooks
  <1>3. {} = {} \cup {} /\ {"roots"} = {"roots"} \cup {}
    OBVIOUS
  <1>4. Looks(Epoch \o Open("mapping"), N, {})
    BY <1>2, <1>3, LooksCat
  <1>5. Looks(s, N, {})
    BY <1>2, <1>3, <1>4, LooksCat
  <1>6. Looks(PolicyPhase(s), N, {"roots"})
    BY <1>2, <1>3, <1>5, LooksAround DEF PolicyPhase
  <1>7. PICK y : Leads(PolicyPhase(s), x, y) /\ Kept(x, y) /\ Unjoined(y)
    <2>1. N \subseteq Grants(x)
      BY DEF Grants
    <2> QED
      BY <1>6, <2>1, LooksLead
  <1>8. Leads(Ready, y, Sampling(y)) /\ Sampling(y) \in Stage
    BY <1>7, MarkLeads DEF Kept
  <1>9. Leads(RetainEpoch, x, Sampling(y))
    BY <1>7, <1>8, LeadsCat DEF RetainEpoch
  <1>10. /\ Sampling(y).own = x.own /\ Sampling(y).live = x.live
         /\ "ready" \in Sampling(y).marks /\ Unjoined(Sampling(y))
    BY <1>7 DEF Kept, Sampling, Unjoined
  <1> QED
    BY <1>8, <1>9, <1>10

\* The policy is checked between any two readers.
LEMMA PolicyLeads ==
    ASSUME NEW s, NEW w, NEW x, x \in Stage, {"roots", "policy"} \subseteq x.live, Leads(s, w, x)
    PROVE  \E y : Leads(s \o PolicyCheck, w, y) /\ Kept(x, y) /\ (Unjoined(x) => Unjoined(y))
  <1>1. /\ Looks(PolicyCheck, {"roots", "policy"}, {"roots", "policy"})
        /\ {"roots", "policy"} \subseteq Grants(x)
    BY PolicyLooks DEF Grants
  <1>2. PICK y : Leads(PolicyCheck, x, y) /\ Kept(x, y) /\ (Unjoined(x) => Unjoined(y))
    BY <1>1, LooksLead
  <1> QED
    BY <1>2, LeadsCat

\* The constructor of an inspection: every reader is owned after those it borrows from,
\* begun before it opens anything, and seen; the epoch is sampled, the peer joined.
LEMMA ConstructorLeads ==
    ASSUME NEW r
    PROVE  \E y : Leads(BuildProgram(r), Begun("build"), y) /\ Reached(r, y)
  <1> DEFINE x == Begun("build")
             P1 == RootsBuild \o PolicyBuild
             P2 == P1 \o RetainEpoch
             P3 == P2 \o PolicyCheck
             P4 == P3 \o ProcessBuild
             P5 == P4 \o PeerJoin(r)
             P6 == P5 \o PolicyCheck
             P7 == P6 \o CodeBuild
             P8 == P7 \o PolicyCheck
             P9 == P8 \o MappingsBuild
             P10 == P9 \o PolicyCheck
             P11 == P10 \o CgroupBuild
             P12 == P11 \o PolicyCheck
             P13 == P12 \o FiltersBuild
             Seven == {"roots", "policy", "process", "code", "mappings", "cgroup", "filters"}
  <1>0. x \in Stage /\ x.own = {} /\ x.live = {} /\ x.marks = {}
    BY DEF Begun, Stage
  <1>1. BuildProgram(r) = (Bind \o (P13 \o Observe(r))) \o Bind
    BY DEF BuildProgram, Phase, Around
  <1> HIDE DEF x, P1, P2, P3, P4, P5, P6, P7, P8, P9, P10, P11, P12, P13
  <1>2. PICK a : Leads(RootsBuild, x, a) /\ a \in Stage /\ a.own = {"roots"} /\ a.live = {"roots"} /\ Unjoined(a)
    BY <1>0, RootsBuilt DEF Grown, Unjoined
  <1>3. PICK b : /\ Leads(P1, x, b) /\ b \in Stage /\ Unjoined(b)
                 /\ b.own = {"roots", "policy"} /\ b.live = {"roots", "policy"}
    BY <1>2, PolicyBuilt, LeadsCat DEF Grown, P1
  <1>4. PICK c : /\ Leads(P2, x, c) /\ c \in Stage /\ Unjoined(c) /\ "ready" \in c.marks
                 /\ c.own = {"roots", "policy"} /\ c.live = {"roots", "policy"}
    BY <1>3, EpochLeads, LeadsCat DEF P2
  <1>5. PICK d : /\ Leads(P3, x, d) /\ d \in Stage /\ Unjoined(d) /\ "ready" \in d.marks
                 /\ d.own = {"roots", "policy"} /\ d.live = {"roots", "policy"}
    BY <1>4, PolicyLeads DEF Kept, P3
  <1>6. PICK e : /\ Leads(P4, x, e) /\ e \in Stage /\ "ready" \in e.marks
                 /\ e.own = {"roots", "policy", "process"} /\ e.live = {"roots", "policy", "process"}
    BY <1>5, ProcessBuilt, LeadsCat DEF Grown, P4
  <1>7. PICK f : /\ Leads(P5, x, f) /\ f \in Stage /\ "ready" \in f.marks
                 /\ f.own = {"roots", "policy", "process"} /\ f.live = {"roots", "policy", "process"}
    <2>1. CASE r = "SERVER"
      <3>1. P4 \in Seq(Ops)
        BY <1>6 DEF Leads, Path
      <3>2. P4 \o <<>> = P4
        BY <3>1
      <3>3. P5 = P4
        BY <2>1, <3>2 DEF P5, PeerJoin
      <3> QED
        BY <1>6, <3>3
    <2>2. CASE r # "SERVER"
      <3>1. Leads(Join, e, Saw(e, {"joined"}))
        BY <1>6, MarkLeads
      <3>2. Leads(P5, x, Saw(e, {"joined"}))
        BY <1>6, <2>2, <3>1, LeadsCat DEF P5, PeerJoin
      <3>3. /\ Saw(e, {"joined"}) \in Stage /\ Saw(e, {"joined"}).own = e.own /\ Saw(e, {"joined"}).live = e.live
            /\ "ready" \in Saw(e, {"joined"}).marks
        BY <1>6, SawFacts DEF Marks
      <3> QED
        BY <1>6, <3>2, <3>3
    <2> QED
      BY <2>1, <2>2
  <1>8. PICK g : /\ Leads(P6, x, g) /\ g \in Stage /\ "ready" \in g.marks
                 /\ g.own = {"roots", "policy", "process"} /\ g.live = {"roots", "policy", "process"}
    BY <1>7, PolicyLeads DEF Kept, P6
  <1>9. PICK h : /\ Leads(P7, x, h) /\ h \in Stage /\ "ready" \in h.marks
                 /\ h.own = {"roots", "policy", "process", "code"} /\ h.live = {"roots", "policy", "process", "code"}
    BY <1>8, CodeBuilt, LeadsCat DEF Grown, P7
  <1>10. PICK i : /\ Leads(P8, x, i) /\ i \in Stage /\ "ready" \in i.marks
                  /\ i.own = {"roots", "policy", "process", "code"} /\ i.live = {"roots", "policy", "process", "code"}
    BY <1>9, PolicyLeads DEF Kept, P8
  <1>11. PICK j : /\ Leads(P9, x, j) /\ j \in Stage /\ "ready" \in j.marks
                  /\ j.own = {"roots", "policy", "process", "code", "mappings"} /\ j.live = j.own
    <2>1. PICK q : Leads(MappingsBuild, i, q) /\ Grown(i, q, "mappings")
      BY <1>10, MappingsBuilt
    <2>2. Leads(P9, x, q)
      BY <1>10, <2>1, LeadsCat DEF P9
    <2> QED
      BY <1>10, <2>1, <2>2 DEF Grown
  <1>12. PICK k : /\ Leads(P10, x, k) /\ k \in Stage /\ "ready" \in k.marks
                  /\ k.own = {"roots", "policy", "process", "code", "mappings"} /\ k.live = k.own
    <2>1. {"roots", "policy"} \subseteq j.live
      BY <1>11
    <2>2. PICK q : Leads(P10, x, q) /\ Kept(j, q)
      BY <1>11, <2>1, PolicyLeads DEF P10
    <2> QED
      BY <1>11, <2>2 DEF Kept
  <1>13. PICK l : /\ Leads(P11, x, l) /\ l \in Stage /\ "ready" \in l.marks
                  /\ l.own = {"roots", "policy", "process", "code", "mappings", "cgroup"} /\ l.live = l.own
    <2>1. PICK q : Leads(CgroupBuild, k, q) /\ Grown(k, q, "cgroup")
      BY <1>12, CgroupBuilt
    <2>2. Leads(P11, x, q)
      BY <1>12, <2>1, LeadsCat DEF P11
    <2> QED
      BY <1>12, <2>1, <2>2 DEF Grown
  <1>14. PICK m : /\ Leads(P12, x, m) /\ m \in Stage /\ "ready" \in m.marks
                  /\ m.own = {"roots", "policy", "process", "code", "mappings", "cgroup"} /\ m.live = m.own
    <2>1. {"roots", "policy"} \subseteq l.live
      BY <1>13
    <2>2. PICK q : Leads(P12, x, q) /\ Kept(l, q)
      BY <1>13, <2>1, PolicyLeads DEF P12
    <2> QED
      BY <1>13, <2>2 DEF Kept
  <1>15. PICK n : /\ Leads(P13, x, n) /\ n \in Stage /\ "ready" \in n.marks /\ n.own = Seven /\ n.live = Seven
    <2>1. PICK q : Leads(FiltersBuild, m, q) /\ Grown(m, q, "filters")
      BY <1>14, FiltersBuilt
    <2>2. Leads(P13, x, q)
      BY <1>14, <2>1, LeadsCat DEF P13
    <2> QED
      BY <1>14, <2>1, <2>2 DEF Grown
  <1>16. Seven = Views
    BY DEF Views
  <1>17. PICK y : /\ Leads(Observe(r), n, y) /\ Kept(n, y) /\ Views \subseteq y.marks
                  /\ r # "SERVER" => "joined" \in y.marks
    BY <1>15, <1>16, ObserveLeads
  <1>18. Leads(P13 \o Observe(r), x, y)
    BY <1>15, <1>17, LeadsCat
  <1>19. Leads(Bind, x, x) /\ Leads(Bind, y, y)
    BY <1>0, <1>17, MarkLeads DEF Kept
  <1>20. Leads(BuildProgram(r), x, y)
    BY <1>1, <1>18, <1>19, LeadsCat
  <1>21. Reached(r, y)
    BY <1>15, <1>16, <1>17 DEF Reached, Kept
  <1> QED
    BY <1>20, <1>21 DEF x

\* Both programs, as a call runs them.
LEMMA ProgramPath ==
    ASSUME role \in Roles, call \in {"build", "check"}
    PROVE  \E S : Path(Program, S) /\ S[1] = Begun(call) /\ Reached(role, S[Len(Program) + 1])
  <1>1. CASE call = "build"
    <2>1. Program = BuildProgram(role)
      BY <1>1 DEF Program, Programs
    <2> QED
      BY <1>1, <2>1, ConstructorLeads DEF Leads
  <1>2. CASE call = "check"
    <2>1. Program = CheckProgram(role)
      BY <1>2 DEF Program, Programs
    <2> QED
      BY <1>2, <2>1, CheckLeads DEF Leads
  <1> QED
    BY <1>1, <1>2

-----------------------------------------------------------------------------
(* The steps of an inspection.                                             *)

\* The flags of the owner after an exception, a close, the epoch, a closed reader.
LEMMA FlagFacts ==
    ASSUME FlagsType, NEW b \in BOOLEAN
    PROVE  /\ flags' = [flags EXCEPT !.failed = TRUE, !.closed = TRUE] =>
                /\ FlagsType' /\ flags'.closed
                /\ (flags'.cleanup <=> flags.cleanup)
           /\ flags' = [flags EXCEPT !.closed = TRUE] =>
                /\ FlagsType' /\ flags'.closed
                /\ (flags'.cleanup <=> flags.cleanup)
           /\ flags' = [flags EXCEPT !.epochReady = TRUE] =>
                /\ FlagsType' /\ flags'.epochReady
                /\ (flags'.cleanup <=> flags.cleanup) /\ (flags'.closed <=> flags.closed)
                /\ (flags'.failed <=> flags.failed)
           /\ flags' = [flags EXCEPT !.cleanup = b] =>
                /\ FlagsType' /\ (flags'.cleanup <=> b) /\ (flags'.closed <=> flags.closed)
                /\ (flags'.failed <=> flags.failed) /\ (flags'.epochReady <=> flags.epochReady)
           /\ flags' = flags =>
                /\ FlagsType' /\ (flags'.cleanup <=> flags.cleanup) /\ (flags'.closed <=> flags.closed)
                /\ (flags'.failed <=> flags.failed) /\ (flags'.epochReady <=> flags.epochReady)
  BY DEF FlagsType

\* An exception that leaves a phase: whatever was opened or failed to close is of a
\* reader that close() will reach.
LEMMA FailKeeps ==
    ASSUME InspectionInv, mode = "run", Fail, UNCHANGED <<world, role, view, owned>>,
           InspectionType', ident \subseteq ident',
           \A v \in Views : \A r \in Holds[v] : res'[r] = "open" => v \in OwnedViews /\ view[v] = "live",
           \A v \in bad' : flags.cleanup \/ (v \in OwnedViews /\ view[v] = "live"),
           \A r \in Resources : res'[r] = "uncertain" => flags.cleanup
    PROVE  InspectionInv'
  <1>1. FlagsType' /\ flags'.closed /\ (flags'.cleanup <=> flags.cleanup)
    BY FlagFacts DEF InspectionInv, Fail
  <1>2. /\ mode' = "unwind" /\ OwnedViews' = OwnedViews
        /\ view' = view /\ taken' = taken /\ report' = report
    BY DEF Fail, OwnedViews, world
  <1>3. OwnedInv'
    BY DEF InspectionInv, OwnedInv
  <1>4. OpenInv'
    BY <1>2 DEF InspectionInv, OpenInv
  <1>5. report # "clean"
    BY DEF InspectionInv, BadInv, RunInv
  <1>6. BadInv'
    BY <1>1, <1>2, <1>5 DEF BadInv
  <1>7. RunInv' /\ IdleInv'
    BY <1>1, <1>2 DEF RunInv, IdleInv
  <1> QED
    BY <1>1, <1>3, <1>4, <1>6, <1>7 DEF InspectionInv

\* ... in particular when nothing was opened and nothing failed to close.
LEMMA FailInv ==
    ASSUME InspectionInv, mode = "run", Fail, UNCHANGED <<world, role, res, ident, view, bad, retained, owned>>
    PROVE  InspectionInv'
  <1>1. InspectionType'
    BY DEF InspectionInv, InspectionType, Fail, world
  <1>2. \A v \in Views : \A r \in Holds[v] : res[r] = "open" => v \in OwnedViews /\ view[v] = "live"
    BY DEF InspectionInv, OpenInv
  <1>3. /\ \A v \in bad : flags.cleanup \/ (v \in OwnedViews /\ view[v] = "live")
        /\ \A r \in Resources : res[r] = "uncertain" => flags.cleanup
    BY DEF InspectionInv, BadInv
  <1> QED
    BY <1>1, <1>2, <1>3, FailKeeps

\* The next operation leads from the stage of the program to the next one.
LEMMA NextStage ==
    ASSUME NEW x, AtStage(x), pc <= Len(Program), pc' = pc + 1, UNCHANGED <<role, call>>, pc \in Nat
    PROVE  x \in Stage /\ \E y \in Stage : Moves(x, Program[pc], y) /\ AtStage(y)'
  <1>1. PICK S : /\ Path(Program, S) /\ Reached(role, S[Len(Program) + 1])
                 /\ pc \in 1..(Len(Program) + 1) /\ S[pc] = x
    BY DEF AtStage
  <1>2. Program' = Program
    BY DEF Program
  <1>3. PICK n \in Nat : n = Len(Program)
    <2>1. Len(Program) \in Nat
      BY <1>1 DEF Path
    <2> QED
      BY <2>1
  <1>4. pc \in 1..n /\ pc + 1 \in 1..(n + 1)
    BY <1>1, <1>3
  <1>5. PICK y : y = S[pc + 1]
    OBVIOUS
  <1>6. Moves(x, Program[pc], y) /\ x \in Stage /\ y \in Stage
    BY <1>1, <1>3, <1>4, <1>5 DEF Path
  <1>7. AtStage(y)'
    BY <1>1, <1>2, <1>3, <1>4, <1>5 DEF AtStage
  <1> QED
    BY <1>6, <1>7

\* After an operation the program is at its next stage.
LEMMA AdvanceRuns ==
    ASSUME InspectionInv, mode = "run", at = "op", Advance, UNCHANGED role, ~flags'.closed,
           {v \in Views : fact'[v] = retained'[v]} \subseteq agreed',
           \A x \in Stage, y \in Stage : Fits(x) /\ Moves(x, Program[pc], y) => Fits(y)'
    PROVE  RunInv'
  <1>1. RunInv /\ pc \in Nat
    BY DEF InspectionInv, InspectionType
  <1>2. pc <= Len(Program) /\ call \in {"build", "check"}
    BY <1>1 DEF RunInv
  <1>3. PICK x : AtStage(x) /\ Fits(x)
    BY <1>1 DEF RunInv
  <1>4. PICK y \in Stage : x \in Stage /\ Moves(x, Program[pc], y) /\ AtStage(y)'
    BY <1>1, <1>2, <1>3, NextStage DEF Advance
  <1>5. Fits(y)'
    BY <1>3, <1>4
  <1>6. at' # "op" /\ call' = call
    BY DEF Advance
  <1> QED
    BY <1>2, <1>4, <1>5, <1>6 DEF RunInv

\* An operation that changes nothing and whose next stage fits.
LEMMA AdvanceInv ==
    ASSUME InspectionInv, mode = "run", at = "op", Advance,
           UNCHANGED <<world, role, res, ident, view, bad, retained, owned, flags, agreed>>,
           \A x \in Stage, y \in Stage : Fits(x) /\ Moves(x, Program[pc], y) => Fits(y)
    PROVE  InspectionInv'
  <1>1. FlagsType' /\ (flags'.cleanup <=> flags.cleanup) /\ (flags'.closed <=> flags.closed)
        /\ (flags'.failed <=> flags.failed) /\ (flags'.epochReady <=> flags.epochReady)
    BY FlagFacts DEF InspectionInv
  <1>2. /\ mode' = mode /\ report' = report /\ outcome' = outcome
        /\ call' = call /\ pc' = pc + 1 /\ at' = "tick"
    BY DEF Advance
  <1>3. InspectionType'
    BY <1>2 DEF InspectionInv, InspectionType, world
  <1>4. OwnedViews' = OwnedViews /\ OwnedInv'
    BY DEF InspectionInv, OwnedInv, OwnedViews
  <1>5. OpenInv'
    BY <1>2, <1>4 DEF InspectionInv, OpenInv, world
  <1>6. BadInv'
    BY <1>1, <1>2, <1>4 DEF InspectionInv, BadInv
  <1>7. IdleInv'
    BY <1>1, <1>2, <1>4 DEF InspectionInv, IdleInv
  <1>8. \A y : Fits(y)' <=> Fits(y)
    BY <1>1, <1>4 DEF Fits, world
  <1>9. ~flags'.closed /\ {v \in Views : fact'[v] = retained'[v]} \subseteq agreed'
    BY <1>1 DEF InspectionInv, RunInv, world
  <1>10. RunInv'
    BY <1>8, <1>9, AdvanceRuns
  <1> QED
    BY <1>1, <1>3, <1>4, <1>5, <1>6, <1>7, <1>10 DEF InspectionInv

\* LookAgain: what was compared equal was equal at a moment of this call.
LEMMA LookAgainInv ==
    ASSUME InspectionInv, LookAgain
    PROVE  InspectionInv'
  <1>1. mode = "run" /\ at = "op" /\ Program[pc].op = "look"
    BY DEF LookAgain, AtOp
  <1>2. CASE Same(Arg)
    <2>1. /\ Advance
          /\ UNCHANGED <<world, role, res, ident, view, bad, retained, owned, flags, agreed>>
      BY <1>2 DEF LookAgain
    <2>2. ASSUME NEW x \in Stage, NEW y \in Stage, Fits(x), Moves(x, Program[pc], y)
          PROVE  Fits(y)
      <3>1. Arg \in x.live /\ y = Saw(x, {Arg})
        BY <1>1, <2>2 DEF Moves, Arg
      <3>2. y.own = x.own /\ y.live = x.live /\ y.marks = x.marks \cup {Arg} /\ Arg \in Views
        BY <3>1 DEF Saw, Stage
      <3>3. Arg \in agreed /\ Holds[Arg] \cap taken = {}
        BY <1>1, <1>2, <3>2 DEF InspectionInv, RunInv, Same
      <3>4. Arg # "ready" /\ Arg # "joined"
        BY <3>2 DEF Views
      <3> QED
        BY <2>2, <3>2, <3>3, <3>4 DEF Fits
    <2> QED
      BY <1>1, <2>1, <2>2, AdvanceInv
  <1>3. CASE ~Same(Arg)
    BY <1>1, <1>3, FailInv DEF LookAgain
  <1> QED
    BY <1>2, <1>3

\* JoinPeer: the process view is the peer of the socket.
LEMMA JoinPeerInv ==
    ASSUME InspectionInv, JoinPeer
    PROVE  InspectionInv'
  <1>1. mode = "run" /\ at = "op" /\ Program[pc].op = "join"
    BY DEF JoinPeer, AtOp
  <1>2. CASE retained["process"] = 0
    <2>1. /\ Advance
          /\ UNCHANGED <<world, role, res, ident, view, bad, retained, owned, flags, agreed>>
      BY <1>2 DEF JoinPeer
    <2>2. ASSUME NEW x \in Stage, NEW y \in Stage, Fits(x), Moves(x, Program[pc], y)
          PROVE  Fits(y)
      <3>1. y = Saw(x, {"joined"})
        BY <1>1, <2>2 DEF Moves
      <3>2. /\ y.own = x.own /\ y.live = x.live
            /\ y.marks = x.marks \cup {"joined"} /\ "joined" \notin Views
        BY <3>1 DEF Saw, Views
      <3> QED
        BY <1>2, <2>2, <3>2 DEF Fits
    <2> QED
      BY <1>1, <2>1, <2>2, AdvanceInv
  <1>3. CASE retained["process"] # 0
    BY <1>1, <1>3, FailInv DEF JoinPeer
  <1> QED
    BY <1>2, <1>3

\* ReadEpoch and BindingCheck leave the stage as it is.
LEMMA ReadsInv ==
    ASSUME InspectionInv, ReadEpoch \/ BindingCheck
    PROVE  InspectionInv'
  <1>1. mode = "run" /\ at = "op" /\ Program[pc].op \in {"epoch", "bind"}
    BY DEF ReadEpoch, BindingCheck, AtOp
  <1>2. CASE Advance /\ UNCHANGED <<flags, agreed>>
    <2>1. UNCHANGED <<world, role, res, ident, view, bad, retained, owned, flags, agreed>>
      BY <1>2 DEF ReadEpoch, BindingCheck
    <2>2. \A x \in Stage, y \in Stage : Fits(x) /\ Moves(x, Program[pc], y) => Fits(y)
      BY <1>1 DEF Moves
    <2> QED
      BY <1>1, <1>2, <2>1, <2>2, AdvanceInv
  <1>3. CASE Fail
    BY <1>1, <1>3, FailInv DEF ReadEpoch, BindingCheck
  <1> QED
    BY <1>2, <1>3 DEF ReadEpoch, BindingCheck

\* EpochReady: from here on the ticks sample the epoch.
LEMMA EpochReadyInv ==
    ASSUME InspectionInv, EpochReady
    PROVE  InspectionInv'
  <1>1. mode = "run" /\ at = "op" /\ Program[pc].op = "ready"
    BY DEF EpochReady, AtOp
  <1>2. Advance /\ UNCHANGED <<world, role, res, ident, view, bad, retained, owned, agreed>>
    BY DEF EpochReady
  <1>3. FlagsType' /\ (flags'.cleanup <=> flags.cleanup) /\ (flags'.closed <=> flags.closed)
        /\ (flags'.failed <=> flags.failed) /\ flags'.epochReady
    BY FlagFacts DEF InspectionInv, EpochReady
  <1>4. /\ mode' = mode /\ report' = report /\ outcome' = outcome
        /\ call' = call /\ pc' = pc + 1 /\ at' = "tick"
    BY <1>2 DEF Advance
  <1>5. InspectionType'
    BY <1>2, <1>4 DEF InspectionInv, InspectionType, world
  <1>6. OwnedViews' = OwnedViews /\ OwnedInv'
    BY <1>2 DEF InspectionInv, OwnedInv, OwnedViews
  <1>7. OpenInv'
    BY <1>2, <1>4, <1>6 DEF InspectionInv, OpenInv, world
  <1>8. BadInv'
    BY <1>2, <1>3, <1>4, <1>6 DEF InspectionInv, BadInv
  <1>9. IdleInv'
    BY <1>1, <1>3, <1>4 DEF InspectionInv, IdleInv
  <1>10. ASSUME NEW x \in Stage, NEW y \in Stage, Fits(x), Moves(x, Program[pc], y)
         PROVE  Fits(y)'
    <2>1. y = Sampling(x)
      BY <1>1, <1>10 DEF Moves
    <2>2. /\ y.own = x.own /\ y.live = x.live
          /\ y.marks = (x.marks \ {"roots"}) \cup {"ready"} /\ "ready" \notin Views
      BY <2>1 DEF Sampling, Views
    <2> QED
      BY <1>2, <1>3, <1>6, <1>10, <2>2 DEF Fits, world
  <1>11. ~flags'.closed /\ {v \in Views : fact'[v] = retained'[v]} \subseteq agreed'
    BY <1>1, <1>2, <1>3 DEF InspectionInv, RunInv, world
  <1>12. RunInv'
    BY <1>1, <1>2, <1>10, <1>11, AdvanceRuns
  <1> QED
    BY <1>3, <1>5, <1>6, <1>7, <1>8, <1>9, <1>12 DEF InspectionInv

\* A reader more: it comes after those it borrows from.
LEMMA OwnViewInv ==
    ASSUME InspectionInv, OwnView
    PROVE  InspectionInv'
  <1>1. mode = "run" /\ at = "op" /\ Program[pc].op = "own"
    BY DEF OwnView, AtOp
  <1>2. Advance /\ UNCHANGED <<world, role, res, ident, bad, retained, flags, agreed>>
    BY DEF OwnView
  <1>3. FlagsType' /\ (flags'.cleanup <=> flags.cleanup) /\ (flags'.closed <=> flags.closed)
        /\ (flags'.failed <=> flags.failed) /\ (flags'.epochReady <=> flags.epochReady)
    BY <1>2, FlagFacts DEF InspectionInv
  <1>4. /\ mode' = mode /\ report' = report /\ outcome' = outcome
        /\ call' = call /\ pc' = pc + 1 /\ at' = "tick"
    BY <1>2 DEF Advance
  <1>5. PICK x : AtStage(x) /\ Fits(x)
    BY <1>1 DEF InspectionInv, RunInv
  <1>6. \E y \in Stage : x \in Stage /\ Moves(x, Program[pc], y)
    <2>1. pc <= Len(Program) /\ pc \in Nat
      BY <1>1 DEF InspectionInv, InspectionType, RunInv
    <2> QED
      BY <1>2, <1>4, <1>5, <2>1, NextStage
  <1>7. Arg \in Views \ OwnedViews /\ Borrows[Arg] \subseteq OwnedViews
    BY <1>1, <1>5, <1>6 DEF Moves, Fits, Arg
  <1>8. PICK a : a = Arg
    OBVIOUS
  <1>9. PICK n \in Nat : n = Len(owned)
    <2>1. Len(owned) \in Nat
      BY DEF InspectionInv, InspectionType
    <2> QED
      BY <2>1
  <1>10. /\ owned \in Seq(Views) /\ DOMAIN owned = 1..n
         /\ owned' \in Seq(Views) /\ DOMAIN owned' = 1..(n + 1) /\ owned'[n + 1] = a
         /\ \A i \in 1..n : owned'[i] = owned[i]
    <2>1. owned \in Seq(Views) /\ owned' = Append(owned, a) /\ a \in Views
      BY <1>7, <1>8 DEF InspectionInv, InspectionType, OwnView
    <2> QED
      BY <1>9, <2>1
  <1>11. a \notin OwnedViews /\ OwnedViews' = OwnedViews \cup {a}
    <2>1. OwnedViews = {owned[i] : i \in 1..n} /\ OwnedViews' = {owned'[i] : i \in 1..(n + 1)}
      BY <1>10 DEF OwnedViews
    <2>2. \A i : i \in 1..(n + 1) <=> i \in 1..n \/ i = n + 1
      OBVIOUS
    <2> QED
      BY <1>7, <1>8, <1>10, <2>1, <2>2
  <1>12. OwnedInv'
    <2>1. OwnedInv
      BY DEF InspectionInv
    <2>2. \A i \in 1..n : owned[i] \in OwnedViews
      BY <1>10 DEF OwnedViews
    <2>3. \A i, j \in 1..(n + 1) : owned'[i] = owned'[j] => i = j
      <3> TAKE i, j \in 1..(n + 1)
      <3>1. (i \in 1..n \/ i = n + 1) /\ (j \in 1..n \/ j = n + 1)
        OBVIOUS
      <3> QED
        BY <1>10, <1>11, <2>1, <2>2, <3>1 DEF OwnedInv
    <2>4. ASSUME NEW i \in 1..(n + 1), NEW b \in Borrows[owned'[i]] PROVE \E j \in 1..(i - 1) : owned'[j] = b
      <3>1. CASE i \in 1..n
        <4>1. b \in Borrows[owned[i]]
          BY <1>10, <2>4, <3>1
        <4>2. PICK j \in 1..(i - 1) : owned[j] = b
          BY <1>10, <2>1, <3>1, <4>1 DEF OwnedInv
        <4>3. j \in 1..n
          BY <3>1
        <4> QED
          BY <1>10, <4>2, <4>3
      <3>2. CASE i = n + 1
        <4>1. b \in OwnedViews
          BY <1>7, <1>8, <1>10, <2>4, <3>2
        <4>2. PICK j \in 1..n : owned[j] = b
          BY <1>10, <4>1 DEF OwnedViews
        <4>3. j \in 1..(i - 1)
          BY <3>2
        <4> QED
          BY <1>10, <4>2, <4>3
      <3> QED
        BY <3>1, <3>2
    <2> QED
      BY <1>10, <2>3, <2>4 DEF OwnedInv
  <1>13. view' = [view EXCEPT ![a] = "raw"] /\ view \in [Views -> {"none", "raw", "live", "closed"}]
    BY <1>8 DEF OwnView, InspectionInv, InspectionType
  <1>14. \A v \in OwnedViews : view'[v] = view[v]
    <2>1. OwnedViews \subseteq Views
      BY <1>10 DEF OwnedViews
    <2> QED
      BY <1>11, <1>13, <2>1
  <1>15. InspectionType'
    <2>1. view' \in [Views -> {"none", "raw", "live", "closed"}]
      BY <1>13
    <2> QED
      BY <1>2, <1>4, <1>10, <2>1 DEF InspectionInv, InspectionType, world
  <1>16. OpenInv'
    BY <1>2, <1>4, <1>11, <1>14 DEF InspectionInv, OpenInv, world
  <1>17. BadInv'
    BY <1>2, <1>3, <1>4, <1>11, <1>14 DEF InspectionInv, BadInv
  <1>18. IdleInv'
    BY <1>1, <1>3, <1>4 DEF InspectionInv, IdleInv
  <1>19. ASSUME NEW w \in Stage, NEW y \in Stage, Fits(w), Moves(w, Program[pc], y)
         PROVE  Fits(y)'
    <2>1. y = [own |-> w.own \cup {a}, live |-> w.live, marks |-> w.marks]
      BY <1>1, <1>8, <1>19 DEF Moves, Arg
    <2>2. y.own = w.own \cup {a} /\ y.live = w.live /\ y.marks = w.marks /\ w.live \subseteq w.own
      BY <2>1 DEF Stage
    <2> QED
      BY <1>2, <1>3, <1>11, <1>14, <1>19, <2>2 DEF Fits, world
  <1>20. ~flags'.closed /\ {v \in Views : fact'[v] = retained'[v]} \subseteq agreed'
    BY <1>1, <1>2, <1>3 DEF InspectionInv, RunInv, world
  <1>21. RunInv'
    BY <1>1, <1>2, <1>19, <1>20, AdvanceRuns
  <1> QED
    BY <1>3, <1>12, <1>15, <1>16, <1>17, <1>18, <1>21 DEF InspectionInv

\* A reader past its constructor's checks.
LEMMA BeginViewInv ==
    ASSUME InspectionInv, BeginView
    PROVE  InspectionInv'
  <1>1. mode = "run" /\ at = "op" /\ Program[pc].op = "begin"
    BY DEF BeginView, AtOp
  <1>2. Advance /\ UNCHANGED <<world, role, res, ident, bad, retained, owned, flags, agreed>>
    BY DEF BeginView
  <1>3. FlagsType' /\ (flags'.cleanup <=> flags.cleanup) /\ (flags'.closed <=> flags.closed)
        /\ (flags'.failed <=> flags.failed) /\ (flags'.epochReady <=> flags.epochReady)
    BY <1>2, FlagFacts DEF InspectionInv
  <1>4. /\ mode' = mode /\ report' = report /\ outcome' = outcome
        /\ call' = call /\ pc' = pc + 1 /\ at' = "tick"
    BY <1>2 DEF Advance
  <1>5. PICK a : a = Arg
    OBVIOUS
  <1>6. view' = [view EXCEPT ![a] = "live"] /\ view \in [Views -> {"none", "raw", "live", "closed"}]
    BY <1>5 DEF BeginView, InspectionInv, InspectionType
  <1>7. view' \in [Views -> {"none", "raw", "live", "closed"}]
    BY <1>6
  <1>8. \A v \in Views : (view[v] = "live" \/ v = a) => view'[v] = "live"
    BY <1>6
  <1>9. InspectionType'
    BY <1>2, <1>4, <1>7 DEF InspectionInv, InspectionType, world
  <1>10. OwnedViews' = OwnedViews /\ OwnedInv'
    BY <1>2 DEF InspectionInv, OwnedInv, OwnedViews
  <1>11. OpenInv'
    BY <1>2, <1>4, <1>8, <1>10 DEF InspectionInv, OpenInv, world
  <1>12. BadInv'
    <2>1. bad \subseteq Views
      BY DEF InspectionInv, InspectionType
    <2> QED
      BY <1>2, <1>3, <1>4, <1>8, <1>10, <2>1 DEF InspectionInv, BadInv
  <1>13. IdleInv'
    BY <1>1, <1>3, <1>4 DEF InspectionInv, IdleInv
  <1>14. ASSUME NEW x \in Stage, NEW y \in Stage, Fits(x), Moves(x, Program[pc], y)
         PROVE  Fits(y)'
    <2>1. y = [own |-> x.own, live |-> x.live \cup {a}, marks |-> x.marks]
      BY <1>1, <1>5, <1>14 DEF Moves, Arg
    <2>2. /\ y.own = x.own /\ y.live = x.live \cup {a} /\ y.marks = x.marks
          /\ x.live \subseteq Views /\ y.live \subseteq Views
      BY <2>1 DEF Stage
    <2> QED
      BY <1>2, <1>3, <1>8, <1>10, <1>14, <2>2 DEF Fits, world
  <1>15. ~flags'.closed /\ {v \in Views : fact'[v] = retained'[v]} \subseteq agreed'
    BY <1>1, <1>2, <1>3 DEF InspectionInv, RunInv, world
  <1>16. RunInv'
    BY <1>1, <1>2, <1>14, <1>15, AdvanceRuns
  <1> QED
    BY <1>3, <1>9, <1>10, <1>11, <1>12, <1>13, <1>16 DEF InspectionInv

\* The reader an operation works for is owned and live.
LEMMA OpOfLive ==
    ASSUME InspectionInv, mode = "run", at = "op", Program[pc].op \in {"open", "look"}
    PROVE  \E v \in Views : /\ v \in OwnedViews /\ view[v] = "live"
                            /\ Program[pc].op = "open" => Arg \in Holds[v]
                            /\ Program[pc].op = "look" => Arg = v
  <1>1. PICK x : AtStage(x) /\ Fits(x)
    BY DEF InspectionInv, RunInv
  <1>2. pc <= Len(Program) /\ pc \in Nat
    BY DEF InspectionInv, InspectionType, RunInv
  <1>3. PICK S : Path(Program, S) /\ pc \in 1..(Len(Program) + 1) /\ S[pc] = x
    BY <1>1 DEF AtStage
  <1>4. PICK n \in Nat : n = Len(Program)
    <2>1. Len(Program) \in Nat
      BY <1>3 DEF Path
    <2> QED
      BY <2>1
  <1>5. pc \in 1..n
    BY <1>2, <1>3, <1>4
  <1>6. x \in Stage /\ Moves(x, Program[pc], S[pc + 1])
    BY <1>3, <1>4, <1>5 DEF Path
  <1>7. PICK v \in x.live : /\ Program[pc].op = "open" => Arg \in Holds[v]
                            /\ Program[pc].op = "look" => Arg = v
    BY <1>6 DEF Moves, Arg
  <1>8. x.live \subseteq x.own /\ x.own \subseteq Views
    BY <1>6 DEF Stage
  <1> QED
    BY <1>1, <1>7, <1>8 DEF Fits

\* A descriptor is opened, its identity captured or not: its reader will close it.
LEMMA OpenKeeps ==
    ASSUME InspectionInv, AtOp("open"), res' = [res EXCEPT ![Arg] = "open"]
    PROVE  /\ Arg \in Resources
           /\ res' \in [Resources -> {"none", "open", "closed", "uncertain", "foreign"}]
           /\ \A v \in Views : \A r \in Holds[v] : res'[r] = "open" => v \in OwnedViews /\ view[v] = "live"
           /\ \A r \in Resources : res'[r] = "uncertain" => flags.cleanup
           /\ \A r \in Resources : res'[r] = "open" => res[r] = "open" \/ r = Arg
  <1>1. PICK a : a = Arg
    OBVIOUS
  <1>2. PICK w \in Views : w \in OwnedViews /\ view[w] = "live" /\ a \in Holds[w]
    BY <1>1, OpOfLive DEF AtOp
  <1>3. a \in Resources /\ \A v \in Views : a \in Holds[v] => v = w
    BY <1>2, HoldsFacts, OneHolder
  <1>4. /\ res \in [Resources -> {"none", "open", "closed", "uncertain", "foreign"}]
        /\ res' = [res EXCEPT ![a] = "open"]
    BY <1>1 DEF InspectionInv, InspectionType
  <1>5. res' \in [Resources -> {"none", "open", "closed", "uncertain", "foreign"}]
    BY <1>4
  <1>6. \A r \in Resources : r # a => res'[r] = res[r]
    BY <1>4
  <1>7. res'[a] = "open"
    BY <1>3, <1>4
  <1>8. ASSUME NEW v \in Views, NEW r \in Holds[v], res'[r] = "open"
        PROVE  v \in OwnedViews /\ view[v] = "live"
    <2>1. r \in Resources
      BY HoldsFacts
    <2> QED
      BY <1>2, <1>3, <1>6, <1>8, <2>1 DEF InspectionInv, OpenInv
  <1>9. \A r \in Resources : res'[r] = "uncertain" => flags.cleanup
    BY <1>6, <1>7 DEF InspectionInv, BadInv
  <1> QED
    BY <1>1, <1>3, <1>5, <1>6, <1>8, <1>9

\* OpenHalf: the descriptor is open and its identity unknown.
LEMMA OpenHalfInv ==
    ASSUME InspectionInv, OpenHalf
    PROVE  InspectionInv'
  <1>1. mode = "run" /\ Fail /\ UNCHANGED <<world, role, ident, view, bad, retained, owned>>
    BY DEF OpenHalf, AtOp
  <1>2. /\ res' \in [Resources -> {"none", "open", "closed", "uncertain", "foreign"}]
        /\ \A v \in Views : \A r \in Holds[v] : res'[r] = "open" => v \in OwnedViews /\ view[v] = "live"
        /\ \A r \in Resources : res'[r] = "uncertain" => flags.cleanup
    BY OpenKeeps DEF OpenHalf
  <1>3. InspectionType'
    BY <1>1, <1>2 DEF InspectionInv, InspectionType, Fail, world
  <1>4. \A v \in bad' : flags.cleanup \/ (v \in OwnedViews /\ view[v] = "live")
    BY <1>1 DEF InspectionInv, BadInv
  <1> QED
    BY <1>1, <1>2, <1>3, <1>4, FailKeeps

\* LookLeaks: the failed close is of a reader that close() will reach.
LEMMA LookLeaksInv ==
    ASSUME InspectionInv, LookLeaks
    PROVE  InspectionInv'
  <1>1. /\ mode = "run" /\ Fail /\ UNCHANGED <<world, role, res, ident, view, retained, owned>>
        /\ bad' = bad \cup {Arg}
    BY DEF LookLeaks, AtOp
  <1>2. Arg \in Views /\ Arg \in OwnedViews /\ view[Arg] = "live"
    BY OpOfLive DEF LookLeaks, AtOp
  <1>3. InspectionType'
    BY <1>1, <1>2 DEF InspectionInv, InspectionType, Fail, world
  <1>4. \A v \in bad' : flags.cleanup \/ (v \in OwnedViews /\ view[v] = "live")
    BY <1>1, <1>2 DEF InspectionInv, BadInv
  <1>5. /\ \A v \in Views : \A r \in Holds[v] : res'[r] = "open" => v \in OwnedViews /\ view[v] = "live"
        /\ \A r \in Resources : res'[r] = "uncertain" => flags.cleanup
    BY <1>1 DEF InspectionInv, OpenInv, BadInv
  <1> QED
    BY <1>1, <1>3, <1>4, <1>5, FailKeeps

\* OpenRow: the row is retained as it is, and refused or used.
LEMMA OpenRowInv ==
    ASSUME InspectionInv, OpenRow
    PROVE  InspectionInv'
  <1>1. /\ mode = "run" /\ at = "op" /\ Program[pc].op = "open"
        /\ UNCHANGED <<world, role, view, bad, owned>>
    BY DEF OpenRow, AtOp
  <1>2. /\ Arg \in Resources
        /\ res' \in [Resources -> {"none", "open", "closed", "uncertain", "foreign"}]
        /\ \A v \in Views : \A r \in Holds[v] : res'[r] = "open" => v \in OwnedViews /\ view[v] = "live"
        /\ \A r \in Resources : res'[r] = "uncertain" => flags.cleanup
        /\ \A r \in Resources : res'[r] = "open" => res[r] = "open" \/ r = Arg
    BY OpenKeeps DEF OpenRow
  <1>3. PICK a : a = Arg
    OBVIOUS
  <1>4. ident' = ident \cup {a} /\ ident' \subseteq Resources /\ ident \subseteq ident'
    BY <1>2, <1>3 DEF OpenRow, InspectionInv, InspectionType
  <1>5. /\ retained' \in [Views -> Values \cup {NoValue}]
        /\ \A v \in Views \ {a} : retained'[v] = retained[v]
        /\ a \in Views => retained'[a] = fact[a]
    <2>1. /\ retained \in [Views -> Values \cup {NoValue}]
          /\ fact \in [Facts -> Values] /\ Views \subseteq Facts
      BY DEF InspectionInv, InspectionType, Facts
    <2>2. CASE a \in Views
      <3>1. retained' = [retained EXCEPT ![a] = fact[a]] /\ fact[a] \in Values
        BY <1>3, <2>1, <2>2 DEF OpenRow
      <3> QED
        BY <2>1, <2>2, <3>1
    <2>3. CASE a \notin Views
      BY <1>3, <2>1, <2>3 DEF OpenRow
    <2> QED
      BY <2>2, <2>3
  <1>6. \A v \in bad' : flags.cleanup \/ (v \in OwnedViews /\ view[v] = "live")
    BY <1>1 DEF InspectionInv, BadInv
  <1>7. CASE Fail
    <2>1. InspectionType'
      BY <1>1, <1>2, <1>4, <1>5, <1>7 DEF InspectionInv, InspectionType, Fail, world
    <2> QED
      BY <1>1, <1>2, <1>4, <1>6, <1>7, <2>1, FailKeeps
  <1>8. CASE agreed' = agreed \cup ({Arg} \cap Views) /\ Advance /\ UNCHANGED flags
    <2>1. FlagsType' /\ (flags'.cleanup <=> flags.cleanup) /\ (flags'.closed <=> flags.closed)
          /\ (flags'.failed <=> flags.failed) /\ (flags'.epochReady <=> flags.epochReady)
      BY <1>8, FlagFacts DEF InspectionInv
    <2>2. /\ mode' = mode /\ report' = report /\ outcome' = outcome
          /\ call' = call /\ pc' = pc + 1 /\ at' = "tick"
      BY <1>8 DEF Advance
    <2>3. agreed' = agreed \cup ({a} \cap Views)
      BY <1>3, <1>8
    <2>4. InspectionType'
      BY <1>1, <1>2, <1>4, <1>5, <2>2, <2>3 DEF InspectionInv, InspectionType, world
    <2>5. OwnedViews' = OwnedViews /\ OwnedInv'
      BY <1>1 DEF InspectionInv, OwnedInv, OwnedViews
    <2>6. OpenInv'
      <3>1. taken' \subseteq ident'
        BY <1>1, <1>4 DEF InspectionInv, OpenInv, world
      <3>2. \A r \in Resources : res'[r] = "open" => r \in ident'
        BY <1>1, <1>2, <1>3, <1>4 DEF InspectionInv, OpenInv
      <3> QED
        BY <1>1, <1>2, <2>5, <3>1, <3>2 DEF OpenInv
    <2>7. BadInv'
      BY <1>1, <1>2, <1>6, <2>1, <2>2, <2>5 DEF InspectionInv, BadInv
    <2>8. IdleInv'
      BY <1>1, <2>1, <2>2 DEF InspectionInv, IdleInv
    <2>9. ASSUME NEW x \in Stage, NEW y \in Stage, Fits(x), Moves(x, Program[pc], y)
          PROVE  Fits(y)'
      <3>1. y = x /\ (a = "process" => "joined" \notin x.marks)
        BY <1>1, <1>3, <2>9 DEF Moves, Arg
      <3>2. "process" \in Views
        BY DEF Views
      <3>3. "joined" \in x.marks => retained'["process"] = retained["process"]
        BY <1>5, <3>1, <3>2
      <3> QED
        BY <1>1, <2>1, <2>3, <2>5, <2>9, <3>1, <3>3 DEF Fits, world
    <2>10. ~flags'.closed
      BY <1>1, <2>1 DEF InspectionInv, RunInv
    <2>11. {v \in Views : fact'[v] = retained'[v]} \subseteq agreed'
      <3>1. {v \in Views : fact[v] = retained[v]} \subseteq agreed /\ fact' = fact
        BY <1>1 DEF InspectionInv, RunInv, world
      <3> QED
        BY <1>5, <2>3, <3>1
    <2>12. RunInv'
      BY <1>1, <1>8, <2>9, <2>10, <2>11, AdvanceRuns
    <2> QED
      BY <2>1, <2>4, <2>5, <2>6, <2>7, <2>8, <2>12 DEF InspectionInv
  <1> QED
    BY <1>7, <1>8 DEF OpenRow

\* The world changes between two operations: what was seen was seen.
LEMMA WorldInv ==
    ASSUME InspectionInv, Drift \/ Reload \/ PeerExit
    PROVE  InspectionInv'
  <1>1. UNCHANGED <<taken, role, readers, control>>
    BY DEF Drift, Reload, PeerExit
  <1>2. /\ UNCHANGED <<taken, role, res, ident, view, bad, retained, owned, flags>>
        /\ UNCHANGED <<mode, call, pc, at, outcome, report>>
    BY <1>1 DEF readers, control
  <1>3. fact' \in [Facts -> Values] /\ agreed \subseteq agreed' /\ agreed' \subseteq Views
    <2>1. fact \in [Facts -> Values] /\ agreed \subseteq Views
      BY DEF InspectionInv, InspectionType
    <2>2. CASE Drift
      <3>1. PICK f \in Facts, x \in Values : fact' = [fact EXCEPT ![f] = x]
        BY <2>2 DEF Drift
      <3> QED
        BY <2>1, <2>2, <3>1 DEF Drift
    <2>3. CASE Reload
      <3>1. PICK x \in Values : fact' = [fact EXCEPT !["policy"] = x]
        BY <2>3 DEF Reload
      <3> QED
        BY <2>1, <2>3, <3>1 DEF Reload
    <2>4. CASE PeerExit
      BY <2>1, <2>4 DEF PeerExit
    <2> QED
      BY <2>2, <2>3, <2>4
  <1>4. mode = "run" => {v \in Views : fact'[v] = retained'[v]} \subseteq agreed'
    <2>1. CASE Drift \/ Reload
      BY <1>2, <2>1 DEF Drift, Reload
    <2>2. CASE PeerExit
      BY <1>2, <2>2 DEF PeerExit, InspectionInv, RunInv
    <2> QED
      BY <2>1, <2>2
  <1>5. InspectionType'
    BY <1>2, <1>3 DEF InspectionInv, InspectionType
  <1>6. FlagsType' /\ (flags'.cleanup <=> flags.cleanup) /\ (flags'.closed <=> flags.closed)
        /\ (flags'.failed <=> flags.failed) /\ (flags'.epochReady <=> flags.epochReady)
    BY <1>2, FlagFacts DEF InspectionInv
  <1>7. OwnedViews' = OwnedViews /\ OwnedInv'
    BY <1>2 DEF InspectionInv, OwnedInv, OwnedViews
  <1>8. OpenInv' /\ BadInv' /\ IdleInv'
    BY <1>2, <1>6, <1>7 DEF InspectionInv, OpenInv, BadInv, IdleInv
  <1>9. \A x : (AtStage(x)' <=> AtStage(x)) /\ (Fits(x) => Fits(x)')
    BY <1>2, <1>3, <1>6, <1>7 DEF AtStage, Program, Fits
  <1>10. RunInv'
    <2>1. Program' = Program
      BY <1>2 DEF Program
    <2> QED
      BY <1>2, <1>4, <1>6, <1>9, <2>1 DEF InspectionInv, RunInv
  <1> QED
    BY <1>5, <1>6, <1>7, <1>8, <1>10 DEF InspectionInv

\* A number is taken between two calls, when every identity is known.
LEMMA TakeInv ==
    ASSUME InspectionInv, Take
    PROVE  InspectionInv'
  <1>1. /\ mode = "idle" /\ UNCHANGED <<fact, role, res, ident, view, bad, retained, owned, flags, agreed>>
        /\ UNCHANGED <<mode, call, pc, at, outcome, report>>
    BY DEF Take, readers, control
  <1>2. PICK r \in Resources : res[r] = "open" /\ taken' = taken \cup {r}
    BY DEF Take
  <1>3. InspectionType'
    BY <1>1, <1>2 DEF InspectionInv, InspectionType
  <1>4. FlagsType' /\ (flags'.cleanup <=> flags.cleanup) /\ (flags'.closed <=> flags.closed)
        /\ (flags'.failed <=> flags.failed) /\ (flags'.epochReady <=> flags.epochReady)
    BY <1>1, FlagFacts DEF InspectionInv
  <1>5. OwnedViews' = OwnedViews /\ OwnedInv'
    BY <1>1 DEF InspectionInv, OwnedInv, OwnedViews
  <1>6. OpenInv'
    BY <1>1, <1>2, <1>5 DEF InspectionInv, OpenInv
  <1>7. BadInv' /\ IdleInv' /\ RunInv'
    BY <1>1, <1>4, <1>5 DEF InspectionInv, BadInv, IdleInv, RunInv
  <1> QED
    BY <1>3, <1>4, <1>5, <1>6, <1>7 DEF InspectionInv

\* What the end of a program has reached.
LEMMA EndFacts ==
    ASSUME InspectionInv, mode = "run", pc > Len(Program)
    PROVE  /\ OwnedViews = Views /\ flags.epochReady /\ \A v \in Views : view[v] = "live"
           /\ agreed = Views /\ \A v \in Views : Holds[v] \cap taken = {}
           /\ role # "SERVER" => retained["process"] = 0
  <1>1. PICK x : AtStage(x) /\ Fits(x)
    BY DEF InspectionInv, RunInv
  <1>2. PICK S : /\ Path(Program, S) /\ Reached(role, S[Len(Program) + 1])
                 /\ pc \in 1..(Len(Program) + 1) /\ S[pc] = x
    BY <1>1 DEF AtStage
  <1>3. Len(Program) \in Nat
    BY <1>2 DEF Path
  <1>4. pc = Len(Program) + 1
    BY <1>2, <1>3
  <1>5. Reached(role, x)
    BY <1>2, <1>4
  <1>6. agreed \subseteq Views
    BY DEF InspectionInv, InspectionType
  <1> QED
    BY <1>1, <1>5, <1>6 DEF Reached, Fits

\* Tick: on to the operation, out of a program that is done, or refused.
LEMMA TickInv ==
    ASSUME InspectionInv, Tick
    PROVE  InspectionInv'
  <1>1. /\ mode = "run" /\ at = "tick"
        /\ UNCHANGED <<world, role, res, ident, view, bad, retained, owned>>
    BY DEF Tick
  <1>2. CASE Fail
    BY <1>1, <1>2, FailInv
  <1>3. CASE ~Fail
    <2>1. /\ flags' = flags /\ agreed' = agreed
          /\ UNCHANGED <<call, pc, report>> /\ at' \in {"tick", "op"}
      BY <1>1, <1>3 DEF Tick, Pass
    <2>2. FlagsType' /\ (flags'.cleanup <=> flags.cleanup) /\ (flags'.closed <=> flags.closed)
          /\ (flags'.failed <=> flags.failed) /\ (flags'.epochReady <=> flags.epochReady)
      BY <2>1, FlagFacts DEF InspectionInv
    <2>3. mode' \in {"run", "idle"}
      BY <1>1, <1>3 DEF Tick, Pass
    <2>4. InspectionType'
      BY <1>1, <2>1, <2>3 DEF InspectionInv, InspectionType, world
    <2>5. OwnedViews' = OwnedViews /\ OwnedInv'
      BY <1>1 DEF InspectionInv, OwnedInv, OwnedViews
    <2>6. OpenInv'
      BY <1>1, <2>5 DEF InspectionInv, OpenInv, world
    <2>7. BadInv'
      <3>1. report # "clean"
        BY <1>1 DEF InspectionInv, BadInv, RunInv
      <3> QED
        BY <1>1, <2>1, <2>2, <2>5, <3>1 DEF InspectionInv, BadInv
    <2>8. RunInv'
      <3>1. CASE mode' = "run"
        <4>1. pc <= Len(Program)
          BY <1>3, <3>1 DEF Tick, Pass
        <4>2. \A x : (AtStage(x)' <=> AtStage(x)) /\ (Fits(x) => Fits(x)')
          BY <1>1, <2>1, <2>2, <2>5 DEF AtStage, Program, Fits, world
        <4>3. Program' = Program
          BY <1>1, <2>1 DEF Program
        <4> QED
          BY <1>1, <2>1, <2>2, <4>1, <4>2, <4>3 DEF InspectionInv, RunInv, world
      <3>2. CASE mode' # "run"
        BY <3>2 DEF RunInv
      <3> QED
        BY <3>1, <3>2
    <2>9. IdleInv'
      <3>1. outcome' = outcome \/ outcome' = "passed"
        BY <1>3 DEF Tick, Pass
      <3>2. mode' = "idle" => pc > Len(Program)
        BY <1>1, <1>3 DEF Tick, Pass
      <3>3. ~flags.closed
        BY <1>1 DEF InspectionInv, RunInv
      <3> QED
        BY <1>1, <2>2, <2>3, <2>5, <3>1, <3>2, <3>3, EndFacts DEF InspectionInv, IdleInv
    <2> QED
      BY <2>2, <2>4, <2>5, <2>6, <2>7, <2>8, <2>9 DEF InspectionInv
  <1> QED
    BY <1>2, <1>3

\* One reader off the end of self.owned.
LEMMA PopFacts ==
    ASSUME InspectionInv, owned # <<>>, owned' = PopOwned[2], NEW v, v = PopOwned[1]
    PROVE  /\ v \in OwnedViews /\ v \in Views /\ owned' \in Seq(Views) /\ OwnedInv'
           /\ OwnedViews' = OwnedViews \ {v}
           /\ \A w \in OwnedViews \ {v} : v \notin Borrows[w]
  <1>1. owned \in Seq(Views)
    BY DEF InspectionInv, InspectionType
  <1>2. PICK n \in Nat : n = Len(owned)
    <2>1. Len(owned) \in Nat
      BY <1>1
    <2> QED
      BY <2>1
  <1>3. n # 0
    BY <1>1, <1>2
  <1>4. v = owned[n] /\ owned' = SubSeq(owned, 1, n - 1)
    BY <1>2 DEF PopOwned, Last, Front
  <1>5. /\ DOMAIN owned = 1..n /\ v \in Views
        /\ owned' \in Seq(Views) /\ DOMAIN owned' = 1..(n - 1) /\ \A i \in 1..(n - 1) : owned'[i] = owned[i]
    BY <1>1, <1>2, <1>3, <1>4
  <1>6. OwnedInv
    BY DEF InspectionInv
  <1>7. \A i : i \in 1..n <=> i \in 1..(n - 1) \/ i = n
    BY <1>3
  <1>8. n \notin 1..(n - 1) /\ n \in 1..n
    BY <1>3
  <1>9. OwnedViews = {owned[i] : i \in 1..n} /\ OwnedViews' = {owned[i] : i \in 1..(n - 1)}
    BY <1>5 DEF OwnedViews
  <1>10. \A i \in 1..(n - 1) : owned[i] # v
    BY <1>4, <1>5, <1>6, <1>7, <1>8 DEF OwnedInv
  <1>11. v \in OwnedViews /\ OwnedViews' = OwnedViews \ {v}
    BY <1>4, <1>7, <1>8, <1>9, <1>10
  <1>12. OwnedInv'
    <2>1. \A i, j \in 1..(n - 1) : owned'[i] = owned'[j] => i = j
      BY <1>5, <1>6, <1>7 DEF OwnedInv
    <2>2. ASSUME NEW i \in 1..(n - 1), NEW b \in Borrows[owned'[i]] PROVE \E j \in 1..(i - 1) : owned'[j] = b
      <3>1. PICK j \in 1..(i - 1) : owned[j] = b
        BY <1>5, <1>6, <1>7, <2>2 DEF OwnedInv
      <3>2. j \in 1..(n - 1)
        BY <3>1
      <3> QED
        BY <1>5, <3>1, <3>2
    <2> QED
      BY <1>5, <2>1, <2>2 DEF OwnedInv
  <1>13. ASSUME NEW w \in OwnedViews \ {v}, v \in Borrows[w] PROVE FALSE
    <2>1. PICK i \in 1..(n - 1) : owned[i] = w
      BY <1>9, <1>11
    <2>2. PICK j \in 1..(i - 1) : owned[j] = v
      BY <1>5, <1>6, <1>7, <1>13, <2>1 DEF OwnedInv
    <2>3. j \in 1..(n - 1)
      BY <2>1, <2>2
    <2> QED
      BY <1>10, <2>2, <2>3
  <1> QED
    BY <1>5, <1>11, <1>12, <1>13

\* The reader close() closes next.
Popped == PopOwned[1]

\* What closing one reader does to its descriptors and to the record of failures.
LEMMA CloseFacts ==
    ASSUME InspectionInv, CloseView
    PROVE  /\ res' \in [Resources -> {"none", "open", "closed", "uncertain", "foreign"}]
           /\ view' \in [Views -> {"none", "raw", "live", "closed"}] /\ bad' \subseteq Views
           /\ \A r \in Resources : res'[r] = "open" => res[r] = "open" /\ r \notin Holds[Popped]
           /\ \A r \in Resources \ Holds[Popped] : res'[r] = res[r]
           /\ \A r \in Holds[Popped] : res[r] = "open" => res'[r] \in CloseOutcomes(r)
           /\ \A w \in Views \ {Popped} : view'[w] = view[w]
           /\ FlagsType' /\ (flags'.closed <=> flags.closed) /\ (flags.cleanup => flags'.cleanup)
           /\ (flags'.failed <=> flags.failed)
           /\ \A w \in bad' : w \in bad \/ w = Popped
           /\ Popped \in bad' => flags'.cleanup
           /\ \A r \in Resources : res'[r] = "uncertain" => flags'.cleanup
  <1> DEFINE open == {r \in Holds[Popped] : res[r] = "open"}
  <1>1. Popped \in Views /\ Popped \in OwnedViews /\ Holds[Popped] \subseteq Resources
    BY PopFacts, HoldsFacts DEF CloseView, Popped
  <1>2. PICK end \in [open -> {"closed", "uncertain", "foreign"}] :
          /\ \A r \in open : end[r] \in CloseOutcomes(r)
          /\ IF view[Popped] = "live"
             THEN /\ res' = [r \in Resources |-> IF r \in open THEN end[r] ELSE res[r]]
                  /\ view' = [view EXCEPT ![Popped] = "closed"]
                  /\ bad' = IF \E r \in open : end[r] = "uncertain" THEN bad \cup {Popped} ELSE bad
                  /\ flags' = [flags EXCEPT !.cleanup = @ \/ Popped \in bad']
             ELSE UNCHANGED <<res, view, bad, flags>>
    BY DEF CloseView, Popped
  <1>3. /\ res \in [Resources -> {"none", "open", "closed", "uncertain", "foreign"}]
        /\ view \in [Views -> {"none", "raw", "live", "closed"}] /\ bad \subseteq Views
    BY DEF InspectionInv, InspectionType
  <1>4. CASE view[Popped] = "live"
    <2>1. \A r \in Resources : res'[r] = IF r \in open THEN end[r] ELSE res[r]
      BY <1>2, <1>4
    <2>2. res' \in [Resources -> {"none", "open", "closed", "uncertain", "foreign"}]
      <3>1. \A r \in Resources : (IF r \in open THEN end[r] ELSE res[r]) \in {"none", "open", "closed", "uncertain", "foreign"}
        BY <1>2, <1>3
      <3> QED
        BY <1>2, <1>4, <3>1
    <2>3. view' \in [Views -> {"none", "raw", "live", "closed"}] /\ \A w \in Views \ {Popped} : view'[w] = view[w]
      BY <1>2, <1>3, <1>4
    <2>4. bad' \subseteq Views /\ \A w \in bad' : w \in bad \/ w = Popped
      BY <1>1, <1>2, <1>3, <1>4
    <2>5. PICK b \in BOOLEAN : b <=> (flags.cleanup \/ Popped \in bad')
      OBVIOUS
    <2>6. flags' = [flags EXCEPT !.cleanup = b]
      <3>1. (flags.cleanup \/ Popped \in bad') = b
        BY <2>5
      <3> QED
        BY <1>2, <1>4, <3>1
    <2>7. /\ FlagsType' /\ (flags'.cleanup <=> b)
          /\ (flags'.closed <=> flags.closed) /\ (flags'.failed <=> flags.failed)
      BY <2>6, FlagFacts DEF InspectionInv
    <2>8. ASSUME NEW r \in Resources, res'[r] = "uncertain" PROVE flags'.cleanup
      <3>1. CASE r \in open
        <4>1. end[r] = "uncertain"
          BY <2>1, <2>8, <3>1
        <4>2. Popped \in bad'
          BY <1>2, <1>4, <3>1, <4>1
        <4> QED
          BY <2>5, <2>7, <4>2
      <3>2. CASE r \notin open
        <4>1. res[r] = "uncertain"
          BY <2>1, <2>8, <3>2
        <4>2. flags.cleanup
          BY <4>1 DEF InspectionInv, BadInv
        <4> QED
          BY <2>5, <2>7, <4>2
      <3> QED
        BY <3>1, <3>2
    <2>9. \A r \in Resources : res'[r] = "open" => res[r] = "open" /\ r \notin Holds[Popped]
      BY <1>2, <2>1
    <2>10. /\ \A r \in Resources \ Holds[Popped] : res'[r] = res[r]
           /\ \A r \in Holds[Popped] : res[r] = "open" => res'[r] \in CloseOutcomes(r)
      BY <1>1, <1>2, <2>1
    <2> QED
      BY <2>2, <2>3, <2>4, <2>5, <2>7, <2>8, <2>9, <2>10
  <1>5. CASE view[Popped] # "live"
    <2>1. res' = res /\ view' = view /\ bad' = bad /\ flags' = flags
      BY <1>2, <1>5
    <2>2. FlagsType' /\ (flags'.cleanup <=> flags.cleanup) /\ (flags'.closed <=> flags.closed)
          /\ (flags'.failed <=> flags.failed)
      BY <2>1, FlagFacts DEF InspectionInv
    <2>3. \A r \in Holds[Popped] : res[r] # "open"
      BY <1>1, <1>5 DEF InspectionInv, OpenInv
    <2>4. Popped \in bad => flags.cleanup
      BY <1>5 DEF InspectionInv, BadInv
    <2>5. \A r \in Resources : res[r] = "uncertain" => flags.cleanup
      BY DEF InspectionInv, BadInv
    <2> QED
      BY <1>3, <2>1, <2>2, <2>3, <2>4, <2>5
  <1> QED
    BY <1>4, <1>5

\* close() pops one reader and closes it.
LEMMA CloseViewInv ==
    ASSUME InspectionInv, CloseView
    PROVE  InspectionInv'
  <1>1. PICK v : v = Popped
    OBVIOUS
  <1>2. /\ mode = "unwind" /\ owned # <<>> /\ owned' = PopOwned[2]
        /\ UNCHANGED <<fact, taken, role, ident, retained, agreed, mode, call, pc, at, outcome, report>>
    BY DEF CloseView, world, control
  <1>3. /\ v \in OwnedViews /\ v \in Views /\ owned' \in Seq(Views) /\ OwnedInv'
        /\ OwnedViews' = OwnedViews \ {v}
    BY <1>1, <1>2, PopFacts DEF Popped
  <1>4. InspectionType'
    BY <1>1, <1>2, <1>3, CloseFacts DEF InspectionInv, InspectionType
  <1>5. FlagsType' /\ (flags'.closed <=> flags.closed) /\ (flags.cleanup => flags'.cleanup)
        /\ (flags'.failed <=> flags.failed)
    BY <1>1, CloseFacts
  <1>6. OpenInv'
    <2>1. ASSUME NEW w \in Views, NEW r \in Holds[w], res'[r] = "open"
          PROVE  w \in OwnedViews' /\ view'[w] = "live"
      <3>1. r \in Resources
        BY HoldsFacts
      <3>2. res[r] = "open" /\ w # v
        BY <1>1, <2>1, <3>1, CloseFacts
      <3>3. w \in OwnedViews /\ view[w] = "live"
        BY <3>2 DEF InspectionInv, OpenInv
      <3>4. view'[w] = view[w]
        BY <1>1, <3>2, CloseFacts
      <3> QED
        BY <1>3, <3>2, <3>3, <3>4
    <2>2. taken' \subseteq ident' /\ mode' = "unwind"
      BY <1>2 DEF InspectionInv, OpenInv
    <2> QED
      BY <2>1, <2>2 DEF OpenInv
  <1>7. BadInv'
    <2>1. ASSUME NEW w \in bad' PROVE flags'.cleanup \/ (w \in OwnedViews' /\ view'[w] = "live")
      <3>1. CASE w = v
        BY <1>1, <2>1, <3>1, CloseFacts
      <3>2. CASE w # v
        <4>1. w \in bad /\ w \in Views
          BY <1>1, <2>1, <3>2, CloseFacts
        <4>2. view'[w] = view[w]
          BY <1>1, <3>2, <4>1, CloseFacts
        <4>3. flags.cleanup \/ (w \in OwnedViews /\ view[w] = "live")
          BY <4>1 DEF InspectionInv, BadInv
        <4> QED
          BY <1>3, <1>5, <3>2, <4>2, <4>3
      <3> QED
        BY <3>1, <3>2
    <2>2. \A r \in Resources : res'[r] = "uncertain" => flags'.cleanup
      BY <1>1, CloseFacts
    <2>3. report' # "clean"
      BY <1>2 DEF InspectionInv, BadInv
    <2> QED
      BY <2>1, <2>2, <2>3 DEF BadInv
  <1>8. RunInv' /\ IdleInv'
    BY <1>2, <1>5 DEF RunInv, InspectionInv, IdleInv
  <1> QED
    BY <1>3, <1>4, <1>5, <1>6, <1>7, <1>8 DEF InspectionInv

\* Nothing is left to close.
LEMMA NothingOpen ==
    ASSUME InspectionInv, owned = <<>>
    PROVE  /\ OwnedViews = {} /\ \A r \in Resources : res[r] # "open"
           /\ ~flags.cleanup => bad = {} /\ \A r \in Resources : res[r] # "uncertain"
  <1>1. OwnedViews = {}
    BY DEF OwnedViews
  <1>2. \A r \in Resources : res[r] # "open"
    BY <1>1, HoldsFacts DEF InspectionInv, OpenInv
  <1>3. ~flags.cleanup => bad = {} /\ \A r \in Resources : res[r] # "uncertain"
    BY <1>1 DEF InspectionInv, BadInv
  <1> QED
    BY <1>1, <1>2, <1>3

\* The end of close().
LEMMA UnwoundInv ==
    ASSUME InspectionInv, Unwound
    PROVE  InspectionInv'
  <1>1. /\ mode = "unwind" /\ owned = <<>> /\ mode' = "idle"
        /\ UNCHANGED <<fact, taken, role, res, ident, view, bad, retained, owned, flags, agreed, call, pc, at>>
    BY DEF Unwound, world, readers
  <1>2. FlagsType' /\ (flags'.cleanup <=> flags.cleanup) /\ (flags'.closed <=> flags.closed)
        /\ (flags'.failed <=> flags.failed)
    BY <1>1, FlagFacts DEF InspectionInv
  <1>3. flags.closed /\ report # "clean"
    BY <1>1 DEF InspectionInv, IdleInv, BadInv
  <1>4. report' = "clean" => ~flags.cleanup
    BY <1>3 DEF Unwound, CloseReport
  <1>5. InspectionType'
    BY <1>1 DEF InspectionInv, InspectionType
  <1>6. OwnedViews' = OwnedViews /\ OwnedInv'
    BY <1>1 DEF InspectionInv, OwnedInv, OwnedViews
  <1>7. OpenInv'
    BY <1>1, <1>6, NothingOpen DEF InspectionInv, OpenInv
  <1>8. BadInv'
    BY <1>1, <1>2, <1>3, <1>4, <1>6 DEF InspectionInv, BadInv
  <1>9. RunInv' /\ IdleInv'
    BY <1>1, <1>2, <1>3 DEF RunInv, IdleInv
  <1> QED
    BY <1>2, <1>5, <1>6, <1>7, <1>8, <1>9 DEF InspectionInv

\* A call of check(): refused if closed, else its program from the beginning.
LEMMA CheckInv ==
    ASSUME InspectionInv, Check
    PROVE  InspectionInv'
  <1>1. /\ mode = "idle"
        /\ UNCHANGED <<fact, taken, role, res, ident, view, bad, retained, owned, flags, report>>
    BY DEF Check, Call, world, readers
  <1>2. FlagsType' /\ (flags'.cleanup <=> flags.cleanup) /\ (flags'.closed <=> flags.closed)
        /\ (flags'.failed <=> flags.failed) /\ (flags'.epochReady <=> flags.epochReady)
    BY <1>1, FlagFacts DEF InspectionInv
  <1>3. OwnedViews' = OwnedViews /\ OwnedInv'
    BY <1>1 DEF InspectionInv, OwnedInv, OwnedViews
  <1>4. CASE /\ ~flags.closed /\ mode' = "run" /\ call' = "check" /\ pc' = 1 /\ at' = "tick"
             /\ agreed' = {v \in Views : fact[v] = retained[v]} /\ outcome' = outcome
    <2>1. InspectionType'
      BY <1>1, <1>4 DEF InspectionInv, InspectionType
    <2>2. OpenInv'
      BY <1>1, <1>3, <1>4 DEF InspectionInv, OpenInv
    <2>3. BadInv'
      BY <1>1, <1>2, <1>3, <1>4 DEF InspectionInv, BadInv
    <2>4. IdleInv'
      BY <1>2, <1>4 DEF InspectionInv, IdleInv
    <2>5. Program' = Programs[role].check
      BY <1>1, <1>4 DEF Program
    <2>6. PICK P : P = Programs[role].check
      OBVIOUS
    <2>7. PICK S, x : Path(P, S) /\ S[1] = x /\ x = Begun("check") /\ Reached(role, S[Len(P) + 1])
      <3>1. role \in Roles
        BY DEF InspectionInv, InspectionType
      <3>2. P = CheckProgram(role)
        BY <2>6, <3>1 DEF Programs
      <3> QED
        BY <3>2, CheckLeads DEF Leads
    <2>8. AtStage(x)'
      <3>1. Len(P) \in Nat
        BY <2>7 DEF Path
      <3>2. pc' \in 1..(Len(P) + 1)
        BY <1>4, <3>1
      <3>3. Program' = P /\ role' = role /\ pc' = 1
        BY <1>1, <1>4, <2>5, <2>6
      <3> QED
        BY <2>7, <3>2, <3>3 DEF AtStage
    <2>9. Fits(x)'
      <3>1. x.own = Views /\ x.live = Views /\ x.marks = {"ready"}
        BY <2>7 DEF Begun
      <3>2. "ready" \notin Views
        BY DEF Views
      <3>3. OwnedViews = Views /\ flags.epochReady /\ \A v \in Views : view[v] = "live"
        BY <1>1, <1>4 DEF InspectionInv, IdleInv
      <3> QED
        BY <1>1, <1>2, <1>3, <3>1, <3>2, <3>3 DEF Fits
    <2>10. RunInv'
      BY <1>1, <1>2, <1>4, <2>8, <2>9 DEF RunInv
    <2> QED
      BY <1>2, <1>3, <2>1, <2>2, <2>3, <2>4, <2>10 DEF InspectionInv
  <1>5. CASE (flags.closed \/ flags.failed) /\ outcome' = "refused" /\ UNCHANGED <<mode, call, pc, at, agreed>>
    <2>1. InspectionType'
      BY <1>1, <1>5 DEF InspectionInv, InspectionType
    <2>2. OpenInv'
      BY <1>1, <1>3, <1>5 DEF InspectionInv, OpenInv
    <2>3. BadInv'
      BY <1>1, <1>2, <1>3, <1>5 DEF InspectionInv, BadInv
    <2>4. IdleInv' /\ RunInv'
      BY <1>1, <1>2, <1>3, <1>5 DEF InspectionInv, IdleInv, RunInv
    <2> QED
      BY <1>2, <1>3, <2>1, <2>2, <2>3, <2>4 DEF InspectionInv
  <1> QED
    BY <1>4, <1>5 DEF Check

\* A call of close(): the first one unwinds, the others repeat its report.
LEMMA CloseInv ==
    ASSUME InspectionInv, Close
    PROVE  InspectionInv'
  <1>1. /\ mode = "idle"
        /\ UNCHANGED <<fact, taken, role, res, ident, view, bad, retained, owned, pc, at, outcome, agreed>>
    BY DEF Close, Call, world
  <1>2. OwnedViews' = OwnedViews /\ OwnedInv'
    BY <1>1 DEF InspectionInv, OwnedInv, OwnedViews
  <1>3. CASE ~flags.closed /\ flags' = [flags EXCEPT !.closed = TRUE] /\ mode' = "unwind" /\ call' = "close" /\ report' = report
    <2>1. FlagsType' /\ flags'.closed /\ (flags'.cleanup <=> flags.cleanup)
      BY <1>3, FlagFacts DEF InspectionInv
    <2>2. InspectionType'
      BY <1>1, <1>3 DEF InspectionInv, InspectionType
    <2>3. OpenInv'
      BY <1>1, <1>2, <1>3 DEF InspectionInv, OpenInv
    <2>4. BadInv'
      BY <1>1, <1>2, <1>3, <2>1 DEF InspectionInv, BadInv
    <2>5. RunInv' /\ IdleInv'
      BY <1>3, <2>1 DEF RunInv, IdleInv
    <2> QED
      BY <1>2, <2>1, <2>2, <2>3, <2>4, <2>5 DEF InspectionInv
  <1>4. CASE flags.closed /\ CloseReport /\ UNCHANGED <<flags, mode, call>>
    <2>1. FlagsType' /\ (flags'.cleanup <=> flags.cleanup) /\ (flags'.closed <=> flags.closed)
          /\ (flags'.failed <=> flags.failed) /\ (flags'.epochReady <=> flags.epochReady)
      BY <1>4, FlagFacts DEF InspectionInv
    <2>2. InspectionType'
      BY <1>1, <1>4 DEF InspectionInv, InspectionType
    <2>3. OpenInv'
      BY <1>1, <1>2, <1>4 DEF InspectionInv, OpenInv
    <2>4. report' = "clean" => ~flags.cleanup
      BY <1>4 DEF CloseReport
    <2>5. BadInv'
      BY <1>1, <1>2, <1>4, <2>1, <2>4 DEF InspectionInv, BadInv
    <2>6. RunInv' /\ IdleInv'
      BY <1>1, <1>2, <1>4, <2>1 DEF InspectionInv, RunInv, IdleInv
    <2> QED
      BY <1>2, <2>1, <2>2, <2>3, <2>5, <2>6 DEF InspectionInv
  <1> QED
    BY <1>3, <1>4 DEF Close

\* A constructor about to run its first tick.
LEMMA InspectionStarts ==
    ASSUME InspectionInit
    PROVE  InspectionInv
  <1>1. InspectionType
    <2>1. fact \in [Facts -> Values]
      BY DEF InspectionInit, Pinned, Values
    <2>2. owned \in Seq(Views)
      BY DEF InspectionInit
    <2>3. /\ res \in [Resources -> {"none", "open", "closed", "uncertain", "foreign"}]
          /\ view \in [Views -> {"none", "raw", "live", "closed"}]
          /\ retained \in [Views -> Values \cup {NoValue}]
      BY DEF InspectionInit
    <2> QED
      BY <2>1, <2>2, <2>3 DEF InspectionInit, InspectionType
  <1>2. FlagsType /\ ~flags.closed /\ ~flags.failed
    BY DEF InspectionInit, FlagsType
  <1>3. owned = <<>> /\ DOMAIN owned = {} /\ OwnedViews = {}
    BY DEF InspectionInit, OwnedViews
  <1>4. OwnedInv
    BY <1>3 DEF OwnedInv
  <1>5. \A r \in Resources : res[r] = "none"
    BY DEF InspectionInit
  <1>6. OpenInv /\ BadInv /\ IdleInv
    BY <1>2, <1>5, HoldsFacts DEF InspectionInit, OpenInv, BadInv, IdleInv
  <1>7. RunInv
    <2>1. PICK S, x : /\ Path(Program, S) /\ S[1] = x /\ x = Begun("build") /\ Reached(role, S[Len(Program) + 1])
      BY ProgramPath DEF InspectionInit
    <2>2. pc \in 1..(Len(Program) + 1) /\ pc = 1
      <3>1. Len(Program) \in Nat
        BY <2>1 DEF Path
      <3> QED
        BY <3>1 DEF InspectionInit
    <2>3. AtStage(x)
      BY <2>1, <2>2 DEF AtStage
    <2>4. Fits(x)
      <3>1. x.own = {} /\ x.live = {} /\ x.marks = {}
        BY <2>1 DEF Begun
      <3> QED
        BY <1>3, <3>1 DEF Fits
    <2>5. \A v \in Views : fact[v] # retained[v]
      <3>1. fact \in [Facts -> Values] /\ Views \subseteq Facts
        BY <1>1 DEF InspectionType, Facts
      <3> QED
        BY <3>1 DEF InspectionInit, Values, NoValue
    <2> QED
      BY <1>2, <2>3, <2>4, <2>5 DEF RunInv, InspectionInit
  <1> QED
    BY <1>1, <1>2, <1>4, <1>6, <1>7 DEF InspectionInv

\* Every step.
LEMMA InspectionKept ==
    ASSUME InspectionInv, [InspectionNext]_allvars
    PROVE  InspectionInv'
  <1>1. CASE CallFails
    BY <1>1, FailInv DEF CallFails
  <1>2. CASE UNCHANGED allvars
    <2>1. UNCHANGED <<fact, epoch, alive, taken, role, res, ident, view, bad, retained, owned, flags>>
          /\ UNCHANGED <<mode, call, pc, at, outcome, report, agreed>>
      BY <1>2 DEF allvars, world, readers, control
    <2>2. FlagsType' /\ (flags'.cleanup <=> flags.cleanup) /\ (flags'.closed <=> flags.closed)
          /\ (flags'.failed <=> flags.failed) /\ (flags'.epochReady <=> flags.epochReady)
      BY <2>1, FlagFacts DEF InspectionInv
    <2>3. OwnedViews' = OwnedViews /\ OwnedInv' /\ InspectionType'
      BY <2>1 DEF InspectionInv, OwnedInv, OwnedViews, InspectionType
    <2>4. OpenInv' /\ BadInv' /\ IdleInv'
      BY <2>1, <2>2, <2>3 DEF InspectionInv, OpenInv, BadInv, IdleInv
    <2>5. \A x : (AtStage(x)' <=> AtStage(x)) /\ (Fits(x) => Fits(x)')
      BY <2>1, <2>2, <2>3 DEF AtStage, Program, Fits
    <2>6. Program' = Program
      BY <2>1 DEF Program
    <2>7. RunInv'
      BY <2>1, <2>2, <2>5, <2>6 DEF InspectionInv, RunInv
    <2> QED
      BY <2>2, <2>3, <2>4, <2>7 DEF InspectionInv
  <1>3. CASE Drift \/ Reload \/ PeerExit
    BY <1>3, WorldInv
  <1> QED
    BY <1>1, <1>2, <1>3, TakeInv, TickInv, OwnViewInv, BeginViewInv, OpenRowInv,
       OpenHalfInv, LookAgainInv, LookLeaksInv, ReadsInv, EpochReadyInv, JoinPeerInv,
       CloseViewInv, UnwoundInv, CheckInv, CloseInv DEF InspectionNext, Done

\* Every step of an inspection keeps the invariant.
LEMMA InspectionInvariance == InspectionSpec => []InspectionInv
  <1>1. InspectionInit => InspectionInv
    BY InspectionStarts
  <1>2. InspectionInv /\ [InspectionNext]_allvars => InspectionInv'
    BY InspectionKept
  <1> QED
    BY <1>1, <1>2, PTL DEF InspectionSpec

\* However a phase of _KernelSelfInspection or of a peer's inspection is interrupted, the
\* closed owner holds no open descriptor, and close() hides no failed cleanup.
THEOREM InspectionClosesHonestly == InspectionSpec => []CloseIsHonest
  <1>1. InspectionInv => CloseIsHonest
    <2> SUFFICES ASSUME InspectionInv PROVE CloseIsHonest
      OBVIOUS
    <2>1. flags.closed /\ mode = "idle" => owned = <<>>
      BY DEF InspectionInv, IdleInv
    <2>2. report = "clean" => flags.closed /\ mode = "idle" /\ ~flags.cleanup
      BY DEF InspectionInv, BadInv
    <2> QED
      BY <2>1, <2>2, NothingOpen DEF CloseIsHonest
  <1> QED
    BY <1>1, InspectionInvariance, PTL

-----------------------------------------------------------------------------
(* The epoch of the last read.                                             *)

\* What a stage says of it: once the ticks sample and the roots were looked at under
\* that, a read made in another epoch is the last operation, and its tick still due.
Sampled(x) ==
  /\ "ready" \in x.marks => flags.epochReady
  /\ {"ready", "roots"} \subseteq x.marks /\ seen # 0 =>
       at = "tick" /\ pc > 1 /\ Program[pc - 1].op \in Reads

SeenInv ==
  /\ epoch \in Nat /\ seen \in Nat /\ seen <= epoch
  /\ mode = "run" => \A S : Path(Program, S) /\ S[1] = Begun(call) => Sampled(S[pc])

\* The epoch only moves forward, and what was seen of it is past.
LEMMA SeenBounds ==
    ASSUME SeenInv, [InspectionNext]_allvars
    PROVE  /\ epoch' \in Nat /\ seen' \in Nat /\ seen' <= epoch'
           /\ (epoch' = epoch \/ (epoch' = epoch + 1 /\ seen' = seen))
  <1>1. epoch \in Nat /\ seen \in Nat /\ seen <= epoch
    BY DEF SeenInv
  <1>2. CASE Reload
    <2>1. epoch' = epoch + 1 /\ seen' = seen
      BY <1>2 DEF Reload
    <2> QED
      BY <1>1, <2>1
  <1>3. CASE OpenRow \/ OpenHalf \/ LookAgain \/ LookLeaks \/ ReadEpoch
    <2>1. epoch' = epoch /\ seen' = epoch
      BY <1>3 DEF OpenRow, OpenHalf, LookAgain, LookLeaks, ReadEpoch, world
    <2> QED
      BY <1>1, <2>1
  <1>4. CASE Check
    <2>1. epoch' = epoch /\ seen' \in {0, seen}
      BY <1>4 DEF Check, world
    <2> QED
      BY <1>1, <2>1
  <1>5. CASE ~(Reload \/ OpenRow \/ OpenHalf \/ LookAgain \/ LookLeaks \/ ReadEpoch \/ Check)
    <2>1. epoch' = epoch /\ seen' = seen
      BY <1>5 DEF InspectionNext, allvars, world, Drift, PeerExit, Take, Tick, OwnView, BeginView,
         EpochReady, BindingCheck, JoinPeer, CallFails, CloseView, Unwound, Close, Done
    <2> QED
      BY <1>1, <2>1
  <1> QED
    BY <1>2, <1>3, <1>4, <1>5

\* Where a path of the program stands inside a call.
LEMMA PathAt ==
    ASSUME InspectionInv, mode = "run", NEW S, Path(Program, S)
    PROVE  /\ pc \in Nat /\ pc >= 1 /\ S[pc] \in Stage
           /\ at = "op" => S[pc + 1] \in Stage /\ Moves(S[pc], Program[pc], S[pc + 1])
  <1>1. PICK n \in Nat : n = Len(Program)
    <2>1. Len(Program) \in Nat
      BY DEF Path
    <2> QED
      BY <2>1
  <1>2. pc \in 1..(n + 1) /\ (at = "op" => pc <= n)
    BY <1>1 DEF InspectionInv, RunInv, AtStage
  <1>3. S \in [1..(n + 1) -> Stage] /\ \A i \in 1..n : Moves(S[i], Program[i], S[i + 1])
    BY <1>1 DEF Path
  <1>4. at = "op" => pc \in 1..n /\ pc + 1 \in 1..(n + 1)
    BY <1>2
  <1> QED
    BY <1>2, <1>3, <1>4

\* After an operation.
LEMMA SeenAdvance ==
    ASSUME InspectionInv, SeenInv, mode = "run", at = "op", Advance, UNCHANGED role,
           flags.epochReady => flags'.epochReady,
           Program[pc].op = "ready" => flags'.epochReady,
           Program[pc].op \in Reads \/ seen' = seen,
           NEW S, Path(Program, S)', (S[1] = Begun(call))'
    PROVE  (Sampled(S[pc]))'
  <1>1. Program' = Program /\ call' = call /\ pc' = pc + 1 /\ at' = "tick"
    BY DEF Advance, Program
  <1>2. Path(Program, S) /\ S[1] = Begun(call)
    BY <1>1
  <1>3. PICK x, y : x = S[pc] /\ y = S[pc + 1]
    OBVIOUS
  <1>4. pc \in Nat /\ pc >= 1 /\ x \in Stage /\ y \in Stage /\ Moves(x, Program[pc], y)
    BY <1>2, <1>3, PathAt
  <1>5. Sampled(x)
    BY <1>2, <1>3 DEF SeenInv
  <1>6. pc' > 1 /\ pc' - 1 = pc
    BY <1>1, <1>4
  <1>7. "ready" \in y.marks => flags'.epochReady
    <2>1. CASE Program[pc].op = "ready"
      BY <2>1
    <2>2. CASE Program[pc].op # "ready"
      <3>1. "ready" \notin Views /\ x.live \subseteq Views
        BY <1>4 DEF Views, Stage
      <3>2. "ready" \in y.marks => "ready" \in x.marks
        BY <1>4, <2>2, <3>1 DEF Moves, Saw
      <3> QED
        BY <1>5, <3>2 DEF Sampled
    <2> QED
      BY <2>1, <2>2
  <1>8. ASSUME {"ready", "roots"} \subseteq y.marks, seen' # 0
        PROVE  Program[pc].op \in Reads
    <2>1. SUFFICES ASSUME Program[pc].op \notin Reads PROVE FALSE
      OBVIOUS
    <2>2. Program[pc].op \notin {"open", "look", "epoch"} /\ seen # 0
      BY <1>8, <2>1 DEF Reads
    <2>3. Program[pc].op # "ready"
      BY <1>4, <1>8 DEF Moves, Sampling
    <2>4. {"ready", "roots"} \subseteq x.marks
      BY <1>4, <1>8, <2>2, <2>3 DEF Moves, Saw
    <2> QED
      BY <1>5, <2>2, <2>4 DEF Sampled
  <1> QED
    BY <1>1, <1>3, <1>6, <1>7, <1>8 DEF Sampled

\* At a tick that does not refuse, every read so far was made in the pinned epoch, or the
\* ticks do not sample yet.
LEMMA TickCatches ==
    ASSUME SeenInv, NEW x, Sampled(x), TickOK, {"ready", "roots"} \subseteq x.marks
    PROVE  seen = 0
  <1>1. SUFFICES ASSUME seen # 0 PROVE FALSE
    OBVIOUS
  <1>2. flags.epochReady /\ pc > 1 /\ Program[pc - 1].op \in Reads
    BY <1>1 DEF Sampled
  <1>3. epoch = 0
    BY <1>2 DEF TickOK, Reading, Sample
  <1> QED
    BY <1>1, <1>3 DEF SeenInv

\* The other steps leave the phase, or do not move it.
LEMMA SeenKept ==
    ASSUME InspectionInv, SeenInv, [InspectionNext]_allvars
    PROVE  SeenInv'
  <1>1. epoch' \in Nat /\ seen' \in Nat /\ seen' <= epoch'
    BY SeenBounds
  <1>2. SUFFICES ASSUME mode' = "run", NEW S, Path(Program, S)', (S[1] = Begun(call))'
                 PROVE  (Sampled(S[pc]))'
    BY <1>1 DEF SeenInv
  <1>3. CASE mode = "run" /\ at = "op" /\ Advance
    <2>1. /\ UNCHANGED role /\ (flags.epochReady => flags'.epochReady)
          /\ (Program[pc].op = "ready" => flags'.epochReady)
          /\ (Program[pc].op \in Reads \/ seen' = seen)
      <3>1. CASE EpochReady
        <4>1. flags'.epochReady
          BY <3>1, FlagFacts DEF EpochReady, InspectionInv
        <4> QED
          BY <3>1, <4>1 DEF EpochReady
      <3>2. CASE OpenRow \/ LookAgain \/ ReadEpoch
        <4>1. Program[pc].op \in Reads /\ Program[pc].op # "ready" /\ UNCHANGED role
          BY <3>2 DEF OpenRow, LookAgain, ReadEpoch, AtOp, Reads
        <4>2. flags' = flags
          BY <1>2, <3>2 DEF OpenRow, LookAgain, ReadEpoch, Fail
        <4> QED
          BY <4>1, <4>2
      <3>3. CASE OwnView \/ BeginView \/ BindingCheck \/ JoinPeer
        <4>1. Program[pc].op # "ready" /\ UNCHANGED <<role, seen>>
          BY <3>3 DEF OwnView, BeginView, BindingCheck, JoinPeer, AtOp
        <4>2. flags' = flags
          BY <1>2, <3>3 DEF OwnView, BeginView, BindingCheck, JoinPeer, Fail
        <4> QED
          BY <4>1, <4>2
      <3>4. EpochReady \/ OpenRow \/ LookAgain \/ ReadEpoch \/ OwnView \/ BeginView \/ BindingCheck \/ JoinPeer
        <4>1. at' # at /\ mode' # "unwind"
          BY <1>2, <1>3 DEF Advance
        <4> QED
          BY <1>2, <1>3, <4>1 DEF InspectionNext, allvars, control, Drift, Reload, PeerExit, Take,
             Tick, OpenHalf, LookLeaks, CallFails, CloseView, Unwound, Check, Close, Call, Done, Fail
      <3> QED
        BY <3>1, <3>2, <3>3, <3>4
    <2> QED
      BY <1>2, <1>3, <2>1, SeenAdvance
  <1>4. CASE Tick
    <2>1. TickOK /\ at' = "op" /\ mode = "run" /\ UNCHANGED <<flags, call, pc, role, seen>>
      BY <1>2, <1>4 DEF Tick, Pass, Fail
    <2>2. Program' = Program
      BY <2>1 DEF Program
    <2>3. Sampled(S[pc])
      BY <1>2, <2>1, <2>2 DEF SeenInv
    <2>4. {"ready", "roots"} \subseteq S[pc].marks => seen = 0
      BY <2>1, <2>3, TickCatches
    <2> QED
      BY <2>1, <2>3, <2>4 DEF Sampled
  <1>5. CASE Check /\ mode = "idle" /\ ~flags.closed /\ call' = "check" /\ pc' = 1 /\ seen' = 0
    <2>1. flags' = flags /\ flags.epochReady
      BY <1>5 DEF Check, readers, InspectionInv, IdleInv
    <2> QED
      BY <1>5, <2>1 DEF Sampled
  <1>6. CASE UNCHANGED <<mode, call, pc, at, role, flags, seen>>
    <2>1. Program' = Program
      BY <1>6 DEF Program
    <2>2. Sampled(S[pc])
      BY <1>2, <1>6, <2>1 DEF SeenInv
    <2> QED
      BY <1>6, <2>1, <2>2 DEF Sampled
  <1>7. CASE Drift \/ Reload \/ PeerExit \/ Take \/ Done \/ UNCHANGED allvars
    <2>1. UNCHANGED <<mode, call, pc, at, role, flags, seen>>
      BY <1>7 DEF Drift, Reload, PeerExit, Take, Done, allvars, control, readers
    <2> QED
      BY <1>6, <2>1
  <1>8. CASE Check
    <2>1. CASE mode' = mode
      BY <1>2, <1>8, <2>1 DEF Check, Call
    <2>2. CASE mode' # mode
      BY <1>5, <1>8, <2>2 DEF Check, Call
    <2> QED
      BY <2>1, <2>2
  <1>9. CASE OwnView \/ BeginView \/ OpenRow \/ LookAgain \/ ReadEpoch \/ EpochReady \/ BindingCheck \/ JoinPeer
    <2>1. mode = "run" /\ at = "op" /\ Advance
      BY <1>2, <1>9 DEF OwnView, BeginView, OpenRow, LookAgain, ReadEpoch, EpochReady,
         BindingCheck, JoinPeer, AtOp, Fail
    <2> QED
      BY <1>3, <2>1
  <1>10. CASE OpenHalf \/ LookLeaks \/ CallFails \/ CloseView \/ Unwound \/ Close
    BY <1>2, <1>10 DEF OpenHalf, LookLeaks, CallFails, CloseView, control, Unwound, Close, Call, Fail
  <1> QED
    BY <1>4, <1>7, <1>8, <1>9, <1>10 DEF InspectionNext

\* The invariant of the owner, with what was last seen of the epoch.
LEMMA SeenInvariance == InspectionSpec => [](InspectionInv /\ SeenInv)
  <1>1. InspectionInit => SeenInv
    <2> SUFFICES ASSUME InspectionInit PROVE SeenInv
      OBVIOUS
    <2>1. ASSUME NEW S, S[1] = Begun(call) PROVE Sampled(S[pc])
      <3>1. pc = 1 /\ S[1].marks = {}
        BY <2>1 DEF InspectionInit, Begun
      <3> QED
        BY <3>1 DEF Sampled
    <2> QED
      BY <2>1 DEF InspectionInit, SeenInv
  <1>2. InspectionInv /\ SeenInv /\ [InspectionNext]_allvars => SeenInv'
    BY SeenKept
  <1> QED
    BY <1>1, <1>2, InspectionInvariance, PTL DEF InspectionSpec

\* A build or check that returns has seen all seven views and read nothing after the
\* policy left the pinned epoch, with every descriptor, the files and the peer in place,
\* and after no refusal.
THEOREM PassingMeansHeld == InspectionSpec => PassMeansHeld
  <1>1. ASSUME InspectionInv, SeenInv, [InspectionNext]_allvars,
               mode = "run", outcome' = "passed", mode' = "idle"
        PROVE  /\ agreed = Views
               /\ seen = 0 /\ fact["files"] = 0 /\ taken = {}
               /\ role # "SERVER" => alive /\ retained["process"] = 0
               /\ outcome # "refused"
    <2>1. Tick
      BY <1>1 DEF InspectionNext, allvars, control, Drift, Reload, PeerExit, Take, OwnView,
         BeginView, OpenRow, OpenHalf, LookAgain, LookLeaks, ReadEpoch, EpochReady,
         BindingCheck, JoinPeer, CallFails, CloseView, Unwound, Check, Close, Call, Done,
         Fail, Advance
    <2>2. TickOK /\ pc > Len(Program)
      BY <1>1, <2>1 DEF Tick, Fail
    <2>3. /\ flags.epochReady /\ agreed = Views /\ \A v \in Views : Holds[v] \cap taken = {}
          /\ role # "SERVER" => retained["process"] = 0
      BY <1>1, <2>2, EndFacts
    <2>4. taken = {}
      BY <1>1, <2>3, HoldsFacts DEF InspectionInv, InspectionType
    <2>5. outcome # "refused"
      BY <1>1 DEF InspectionInv, RunInv, IdleInv
    <2>6. seen = 0
      <3>1. PICK S : Path(Program, S) /\ S[1] = Begun(call) /\ Reached(role, S[Len(Program) + 1])
        BY <1>1, ProgramPath DEF InspectionInv, InspectionType, RunInv
      <3>2. pc = Len(Program) + 1
        <4>1. Len(Program) \in Nat
          BY <3>1 DEF Path
        <4>2. pc \in 1..(Len(Program) + 1)
          BY <1>1 DEF InspectionInv, RunInv, AtStage
        <4> QED
          BY <2>2, <4>1, <4>2
      <3>3. Sampled(S[pc])
        BY <1>1, <3>1 DEF SeenInv
      <3>4. {"ready", "roots"} \subseteq S[pc].marks
        BY <3>1, <3>2 DEF Reached, Views
      <3> QED
        BY <1>1, <2>2, <3>3, <3>4, TickCatches
    <2> QED
      BY <2>2, <2>3, <2>4, <2>5, <2>6 DEF TickOK, OwnerTick
  <1>2. InspectionInv /\ SeenInv /\ [InspectionNext]_allvars =>
          [(mode = "run" /\ outcome' = "passed" /\ mode' = "idle") =>
              /\ agreed = Views
              /\ seen = 0 /\ fact["files"] = 0 /\ taken = {}
              /\ role # "SERVER" => alive /\ retained["process"] = 0
              /\ outcome # "refused"]_allvars
    BY <1>1
  <1> QED
    BY <1>2, SeenInvariance, PTL DEF InspectionSpec, PassMeansHeld

\* A descriptor is closed after those of every reader that borrows it, and never
\* through a number that names somebody else's file.
THEOREM BorrowersCloseFirst == InspectionSpec => BorrowersFirst
  <1>1. ASSUME InspectionInv, [InspectionNext]_allvars, NEW r \in Resources, res[r] = "open", res'[r] # "open"
        PROVE  /\ res'[r] # "foreign"
               /\ \A w \in Views : ViewOf(r) \in Borrows[w] => \A q \in Holds[w] : res'[q] # "open"
    <2>1. CASE CloseView
      <3>1. PICK v : v = Popped
        OBVIOUS
      <3>2. mode = "unwind" /\ owned # <<>> /\ owned' = PopOwned[2]
        BY <2>1 DEF CloseView
      <3>3. v \in Views /\ r \in Holds[v] /\ res'[r] \in CloseOutcomes(r)
        BY <1>1, <2>1, <3>1, <3>2, CloseFacts, PopFacts DEF Popped
      <3>4. ViewOf(r) = v
        BY <3>3, HolderIs
      <3>5. res'[r] # "foreign"
        <4>1. r \in taken => r \in ident
          BY <1>1 DEF InspectionInv, OpenInv
        <4> QED
          BY <3>3, <4>1 DEF CloseOutcomes, Closing
      <3>6. ASSUME NEW w \in Views, v \in Borrows[w], NEW q \in Holds[w], res'[q] = "open"
            PROVE  FALSE
        <4>1. q \in Resources /\ w # v
          BY <3>6, HoldsFacts, BorrowsFacts
        <4>2. res[q] = "open"
          BY <1>1, <2>1, <3>6, <4>1, CloseFacts
        <4>3. w \in OwnedViews
          BY <1>1, <4>2 DEF InspectionInv, OpenInv
        <4>4. \A u \in OwnedViews \ {v} : v \notin Borrows[u]
          BY <1>1, <3>1, <3>2, PopFacts DEF Popped
        <4> QED
          BY <3>6, <4>1, <4>3, <4>4
      <3> QED
        BY <3>4, <3>5, <3>6
    <2>2. CASE OpenRow \/ OpenHalf
      <3>1. /\ res \in [Resources -> {"none", "open", "closed", "uncertain", "foreign"}]
            /\ res' = [res EXCEPT ![Arg] = "open"]
        BY <1>1, <2>2 DEF InspectionInv, InspectionType, OpenRow, OpenHalf
      <3> QED
        BY <1>1, <3>1
    <2>3. CASE ~CloseView /\ ~(OpenRow \/ OpenHalf)
      <3>1. res' = res
        BY <1>1, <2>3 DEF InspectionNext, allvars, readers, Drift, Reload, PeerExit, Take,
           Tick, OwnView, BeginView, LookAgain, LookLeaks, ReadEpoch, EpochReady,
           BindingCheck, JoinPeer, CallFails, Unwound, Check, Close, Done
      <3> QED
        BY <1>1, <3>1
    <2> QED
      BY <2>1, <2>2, <2>3
  <1>2. InspectionInv /\ [InspectionNext]_allvars =>
          [\A r \in Resources : (res[r] = "open" /\ res'[r] # "open") =>
              /\ res'[r] # "foreign"
              /\ \A w \in Views : ViewOf(r) \in Borrows[w] => \A q \in Holds[w] : res'[q] # "open"]_allvars
    BY <1>1
  <1> QED
    BY <1>2, InspectionInvariance, PTL DEF InspectionSpec, BorrowersFirst

=============================================================================
