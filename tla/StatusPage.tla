----------------------------- MODULE StatusPage -----------------------------
(***************************************************************************)
(* Reading the SELinux status page (live_proxy_server.py,                  *)
(* _KernelNativeReads.status_epoch and _mapped_status).  The kernel        *)
(* updates the page in place: it makes the sequence odd, writes the words, *)
(* makes the sequence even.  The reader is another CPU with a mapping of   *)
(* the page and no lock: it loads the sequence, fences, copies the words,  *)
(* fences, loads the sequence again, and accepts only an even, unchanged   *)
(* sequence.  Loads on the same side of a fence happen in any order.       *)
(*                                                                         *)
(* The sequence is a machine word that wraps; the code relies on fewer     *)
(* than half a cycle of updates in the life of a reader (2^31 updates in   *)
(* at most 900 s).                                                         *)
(***************************************************************************)
EXTENDS Integers

CONSTANTS Cycle,       \* 2^32 in the code
          MaxUpdates,  \* updates of the page in the life of the reader
          MaxReads     \* bound on the reads

ASSUME CycleAssumption == Cycle \in Nat /\ Cycle % 2 = 0
ASSUME MaxUpdatesAssumption == MaxUpdates \in Nat /\ 2 * MaxUpdates < Cycle
ASSUME MaxReadsAssumption == MaxReads \in Nat

Words    == {"enforcing", "policyload", "denyUnknown"}
Contents == [Words -> Nat]

\* The loads of one read; "copy" is the sequence inside the 20 copied bytes.
Loads == Words \cup {"before", "copy", "after"}

None == -1

VARIABLES
    page,        \* the words of the page as they are in memory
    seq,         \* the sequence word
    count,       \* updates completed
    writing,     \* an update is in progress
    versions,    \* history: the content after each number of updates
    next,        \* what the update in progress is to write
    pin,         \* sequence the signed record pins; its content is versions[0]
    status,      \* the reader: "idle", "reading", "read", "held" or "failed"
    got,         \* values loaded in this read
    fences,      \* fences passed in this read
    registered,  \* self.registered
    reads,       \* reads begun
    began,       \* history: updates completed when this read began
    base         \* history: updates completed when "before" was loaded

kernel == <<page, seq, count, writing, versions, next, pin>>
reader == <<status, got, fences, registered, reads, began, base>>
vars == <<kernel, reader>>

\* The host was qualified, and the record signed, with the page as it is.
Init ==
    /\ page = [w \in Words |-> 1]  \* enforcing, first policy, unknown denied
    /\ seq \in 0..(Cycle - 1) /\ seq % 2 = 0 /\ pin = seq
    /\ count = 0 /\ writing = FALSE /\ next = page
    /\ versions = [k \in 0..MaxUpdates |-> page]
    /\ status = "idle" /\ got = [l \in Loads |-> None] /\ fences = 0
    /\ registered = FALSE /\ reads = 0 /\ began = 0 /\ base = 0

-----------------------------------------------------------------------------
(* The kernel.                                                             *)

Bump(s) == IF s + 1 = Cycle THEN 0 ELSE s + 1

BeginUpdate ==
    /\ ~writing /\ count < MaxUpdates
    /\ \E c \in [Words -> {0, 1}] :
           next' = [c EXCEPT !["policyload"] = page["policyload"] + @]
    /\ writing' = TRUE /\ seq' = Bump(seq)
    /\ UNCHANGED <<page, count, versions, pin, reader>>

WriteWord ==
    /\ writing
    /\ \E w \in Words : page[w] # next[w] /\ page' = [page EXCEPT ![w] = next[w]]
    /\ UNCHANGED <<seq, count, writing, versions, next, pin, reader>>

EndUpdate ==
    /\ writing /\ page = next
    /\ writing' = FALSE /\ seq' = Bump(seq) /\ count' = count + 1
    /\ versions' = [versions EXCEPT ![count + 1] = page]
    /\ UNCHANGED <<page, next, pin, reader>>

-----------------------------------------------------------------------------
(* The reader.                                                             *)

StartRead ==
    /\ status \in {"idle", "held"} /\ reads < MaxReads
    /\ status' = "reading" /\ got' = [l \in Loads |-> None] /\ fences' = 0
    /\ reads' = reads + 1 /\ began' = count /\ base' = count
    /\ UNCHANGED <<kernel, registered>>

\* As if the second fence were missing: the copy may sink below "after".
OneFence(l) == IF l = "before" THEN 0 ELSE 1

\* How many fences precede a load in the program.
FencesBefore(l) == IF l = "before" THEN 0 ELSE IF l = "after" THEN 2 ELSE 1

InMemory(l) == IF l \in Words THEN page[l] ELSE seq

Load(l) ==
    /\ status = "reading" /\ got[l] = None
    /\ FencesBefore(l) <= fences
    /\ got' = [got EXCEPT ![l] = InMemory(l)]
    /\ base' = IF l = "before" THEN count ELSE base
    /\ UNCHANGED <<kernel, status, fences, registered, reads, began>>

\* The first fence also registers the process for private barriers.  It
\* follows the test that the sequence is even, and completes earlier loads.
Fence ==
    /\ status = "reading" /\ fences < 2
    /\ \A l \in Loads : FencesBefore(l) <= fences => got[l] # None
    /\ got["before"] % 2 = 0
    /\ fences' = fences + 1 /\ registered' = TRUE
    /\ UNCHANGED <<kernel, status, got, reads, began, base>>

\* _selinux_status_fields accepts what was copied.
Decodes ==
    /\ got["copy"] % 2 = 0
    /\ got["enforcing"] = 1 /\ got["denyUnknown"] = 1 /\ got["policyload"] > 0

Stable == got["after"] = got["before"] /\ got["copy"] = got["before"]

Fields == [w \in Words |-> got[w]]

Finish ==
    /\ status = "reading" /\ \A l \in Loads : got[l] # None
    /\ status' = IF Decodes /\ Stable THEN "read" ELSE "failed"
    /\ UNCHANGED <<kernel, got, fences, registered, reads, began, base>>

\* As if the policy view did not pin the sequence.
MatchesWords == Fields = versions[0]

\* The policy view compares every field with the record.
MatchesPin == Fields = versions[0] /\ got["copy"] = pin

Compare ==
    /\ status = "read"
    /\ status' = IF MatchesPin THEN "held" ELSE "failed"
    /\ UNCHANGED <<kernel, got, fences, registered, reads, began, base>>

\* An odd sequence, a barrier that is refused, a deadline, an I/O error.
Refuse ==
    /\ status = "reading"
    /\ status' = "failed"
    /\ UNCHANGED <<kernel, got, fences, registered, reads, began, base>>

Next == \/ BeginUpdate \/ WriteWord \/ EndUpdate
        \/ StartRead \/ (\E l \in Loads : Load(l)) \/ Fence \/ Finish \/ Compare \/ Refuse

Spec == Init /\ [][Next]_vars

-----------------------------------------------------------------------------
(* Properties.                                                             *)

Wrap(t) == IF t < Cycle THEN t ELSE t - Cycle

\* The sequence word after k updates, and during the one that follows.
SeqAt(k)  == Wrap(pin + 2 * k)
SeqNow    == Wrap(pin + 2 * count + (IF writing THEN 1 ELSE 0))

\* The words, the counters and the reader's state keep their types; a read passes
\* at most two fences.
TypeOK ==
    /\ page \in Contents /\ next \in Contents
    /\ seq \in 0..(Cycle - 1) /\ pin \in 0..(Cycle - 1)
    /\ count \in 0..MaxUpdates /\ writing \in BOOLEAN
    /\ versions \in [0..MaxUpdates -> Contents]
    /\ status \in {"idle", "reading", "read", "held", "failed"}
    /\ got \in [Loads -> Int] /\ fences \in 0..2 /\ registered \in BOOLEAN
    /\ reads \in 0..MaxReads /\ began \in 0..count /\ base \in 0..count

\* A read that is accepted returns words of one version of the page, never a
\* mixture of two, with the sequence that belongs to that version, and the
\* version was current at some moment of this read: not older than the read.
NoTornRead ==
    status \in {"read", "held"} =>
        \E k \in began..count : Fields = versions[k] /\ got["copy"] = SeqAt(k)

\* When a read matches the record, no update of the page had been completed
\* since the record was signed up to the load that opened this read: not even
\* one that was undone by another (the policy cannot change and change back
\* between two reads that match).
HeldMeansUntouched == status = "held" => base = 0

-----------------------------------------------------------------------------
(* The inductive invariant behind the two properties, proved inductive in  *)
(* KernelInspectionProofs.                                                 *)

SeqInv  == seq = SeqNow /\ pin % 2 = 0 /\ (writing => count < MaxUpdates)
PageInv == ~writing => page = versions[count]

\* The page has changed, or is changing, since "before" was loaded.
Moved == writing \/ count > base

\* The fences order the loads.
OrderInv ==
    /\ began <= base
    /\ fences > 0 => got["before"] # None /\ got["before"] % 2 = 0
    /\ \A l \in Loads \ {"before"} : got[l] # None => fences > 0
    /\ fences = 2 => \A l \in Loads \ {"after"} : got[l] # None
    /\ got["after"] # None => fences = 2

\* While the page has not moved, what was copied is the version at "before";
\* and it did not move if "after" turns out to be the same sequence.
CopyInv ==
    /\ got["before"] # None /\ got["before"] % 2 = 0 => got["before"] = SeqAt(base)
    /\ \A w \in Words : got[w] # None => Moved \/ got[w] = versions[base][w]
    /\ got["after"] # None /\ got["after"] = got["before"] =>
           \A w \in Words : got[w] = versions[base][w]

StatusInv ==
    /\ status \in {"read", "held"} => Stable /\ \A l \in Loads : got[l] # None
    /\ status = "held" => MatchesPin

IInv == TypeOK /\ SeqInv /\ PageInv /\ OrderInv /\ CopyInv /\ StatusInv
=============================================================================
