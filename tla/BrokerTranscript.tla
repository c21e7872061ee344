-------------------------- MODULE BrokerTranscript --------------------------
(***************************************************************************)
(* BrokerTranscript of live_mutation_admission.py: the incremental parser  *)
(* of the frames a broker and the server exchange about one dispatch.  It  *)
(* is fed whatever the two ends produce, one frame at a time, and a frame  *)
(* it refuses poisons it for good.                                         *)
(*                                                                         *)
(* Digests are collision-free names: previousDigest is the number of the   *)
(* accepted frame it is the digest of, or Other; receiptDigest is the      *)
(* sequence of chunks it is the digest of.  The chunks are of unit size.   *)
(***************************************************************************)
EXTENDS Integers, Sequences, FiniteSets

CONSTANTS
  ActionIds,    \* actionId values the broker may use
  Owned,        \* manifest digests that belong to the dispatched case
  Foreign,      \* ... and to other cases
  Executions,   \* executionId values
  None,         \* no execution yet
  Data,         \* contents of a chunk
  Receipts,     \* digests a TERMINAL may name (sequences of Data)
  MaxReceipt,   \* the receipt is at most this long (4 MiB)
  MaxFrames     \* the schema's limit on sequence (2048)

ASSUME MaxReceiptAssumption == MaxReceipt \in Nat
ASSUME MaxFramesAssumption == MaxFrames \in Nat
ASSUME NoneAssumption == None \notin Executions
ASSUME ReceiptsAssumption == Receipts \subseteq Seq(Data)

Other == -1     \* a digest of nothing in this transcript
NoPayload == [kind |-> "NONE"]

VARIABLES
  sequence, previous, execution, pending, cleanup, terminal,
  actions, chunks, failed_action, poisoned,
  log           \* the accepted frames (history)

allvars == <<sequence, previous, execution, pending, cleanup, terminal,
             actions, chunks, failed_action, poisoned, log>>

\* The frame was refused, or told to abort.
Poison ==
  /\ poisoned' = TRUE
  /\ UNCHANGED <<sequence, previous, execution, pending, cleanup, terminal,
                 actions, chunks, failed_action, log>>

TranscriptInit ==
  /\ sequence = 0 /\ previous = 0
  /\ execution = None
  /\ pending = NoPayload /\ cleanup = NoPayload /\ terminal = NoPayload
  /\ actions = {} /\ chunks = <<>>
  /\ failed_action = FALSE /\ poisoned = FALSE
  /\ log = <<>>

-----------------------------------------------------------------------------
(* What the broker schema admits as a payload, by kind. *)

Verbs == {"CREATE", "GET", "DELETE"}
Outcomes == {"CREATED", "PRESENT", "ABSENT", "DELETED", "DENIED", "AMBIGUOUS"}

\* One remaining resource: its kind, namespace and name, the manifest it came
\* from, its uid known or not.  A list of them may name one resource twice.
Remaining == [key : 1..2, manifest : Owned \cup Foreign, uid : BOOLEAN,
              reasonCode : {"IO_AMBIGUOUS", "DEADLINE"}]
Leftovers == {<<>>} \cup {<<r>> : r \in {x \in Remaining : x.key = 1}}
               \cup {<<r, q>> : r, q \in {x \in Remaining : x.manifest \in Owned /\ x.uid
                                                           /\ x.reasonCode = "DEADLINE"}}

Payloads ==
  [kind : {"STARTED", "ABORT", "REFUSED"}]
    \cup [kind : {"RESOURCE_ACTION"}, actionId : ActionIds, verb : Verbs,
          manifest : Owned \cup Foreign]
    \cup [kind : {"RESOURCE_RESULT"}, actionId : ActionIds, outcome : Outcomes, object : BOOLEAN]
    \cup [kind : {"RECEIPT_CHUNK"}, index : 0..MaxReceipt, data : Data]
    \cup [kind : {"CLEANUP_RECORDED"}, state : {"CLEAN", "CLEANUP_PENDING"},
          remaining : Leftovers, digest : {1, 2}]
    \cup [kind : {"TERMINAL"}, status : {"COMPLETED", "FAILED", "UNAVAILABLE"}, receiptSize : 1..MaxReceipt,
          receiptDigest : Receipts, cleanupDigest : {1, 2}]

\* Headers around the next one: the right one, a repeat, a wrong link, and one
\* whose common fields (binding, case, generation, challenge...) are another's.
Headers ==
  [dispatch : {"ours"}, executionId : Executions, sequence : {sequence + 1},
   previousDigest : {previous, Other}]
    \cup [dispatch : {"ours"}, executionId : Executions, sequence : {sequence},
          previousDigest : {previous}]
    \cup [dispatch : {"another"}, executionId : Executions, sequence : {sequence + 1},
          previousDigest : {previous}]

Frames == {[header |-> h, payload |-> p] : h \in Headers, p \in Payloads}

-----------------------------------------------------------------------------
(* The checks of accept, in the code's order. *)

Directed(kind, sender) ==
  (sender = "SERVER") <=> (kind \in {"RESOURCE_RESULT", "CLEANUP_RECORDED", "ABORT"})

Linked(h) ==
  /\ h.dispatch = "ours"
  /\ h.sequence = sequence + 1
  /\ h.sequence <= MaxFrames
  /\ h.previousDigest = previous

\* The first frame is STARTED and fixes the execution; no other frame is.
InExecution(h, kind) ==
  IF execution = None THEN kind = "STARTED"
                      ELSE kind # "STARTED" /\ h.executionId = execution

\* Mutant of ActionAccepted: an action may use an identifier again.
ActionReused(p) == pending = NoPayload /\ chunks = <<>> /\ cleanup = NoPayload /\ p.manifest \in Owned

ActionAccepted(p) ==
  /\ pending = NoPayload /\ chunks = <<>> /\ cleanup = NoPayload
  /\ p.actionId \notin actions
  /\ p.manifest \in Owned

Permitted(verb) ==
  CASE verb = "CREATE" -> {"CREATED"}
    [] verb = "GET" -> {"PRESENT", "ABSENT"}
    [] verb = "DELETE" -> {"DELETED"}

ResultAccepted(p) ==
  /\ pending # NoPayload
  /\ p.actionId = pending.actionId
  /\ p.outcome \in Permitted(pending.verb) \cup {"DENIED", "AMBIGUOUS"}
  /\ p.object = (p.outcome \in {"CREATED", "PRESENT"})

ChunkAccepted(p) ==
  /\ pending = NoPayload /\ cleanup = NoPayload
  /\ p.index = Len(chunks)
  /\ Len(chunks) < MaxReceipt

CleanupAccepted(p) ==
  /\ pending = NoPayload /\ chunks # <<>> /\ cleanup = NoPayload
  /\ (p.state = "CLEAN") <=> (p.remaining = <<>>)
  /\ \A i, j \in DOMAIN p.remaining : p.remaining[i].key = p.remaining[j].key => i = j
  /\ \A i \in DOMAIN p.remaining :
       /\ p.remaining[i].manifest \in Owned
       /\ p.remaining[i].uid \/ p.remaining[i].reasonCode = "IO_AMBIGUOUS"

\* Mutant of TerminalAccepted: completion does not ask for a clean cleanup.
TerminalUnclean(p) ==
  /\ pending = NoPayload /\ cleanup # NoPayload
  /\ p.receiptSize = Len(chunks)
  /\ p.receiptDigest = chunks
  /\ p.cleanupDigest = cleanup.digest
  /\ p.status = "COMPLETED" => ~failed_action

TerminalAccepted(p) ==
  /\ pending = NoPayload /\ cleanup # NoPayload
  /\ p.receiptSize = Len(chunks)
  /\ p.receiptDigest = chunks
  /\ p.cleanupDigest = cleanup.digest
  /\ p.status = "COMPLETED" => cleanup.state = "CLEAN" /\ ~failed_action

Accepted(h, p, sender) ==
  /\ Directed(p.kind, sender)
  /\ Linked(h)
  /\ InExecution(h, p.kind)
  /\ CASE p.kind = "STARTED" -> TRUE
       [] p.kind = "RESOURCE_ACTION" -> ActionAccepted(p)
       [] p.kind = "RESOURCE_RESULT" -> ResultAccepted(p)
       [] p.kind = "RECEIPT_CHUNK" -> ChunkAccepted(p)
       [] p.kind = "CLEANUP_RECORDED" -> CleanupAccepted(p)
       [] p.kind = "TERMINAL" -> TerminalAccepted(p)
       [] p.kind \in {"ABORT", "REFUSED"} -> FALSE

accept(f, sender) ==
  LET h == f.header
      p == f.payload
  IN  /\ ~poisoned /\ terminal = NoPayload
      /\ \/ /\ ~Accepted(h, p, sender)
            /\ Poison
         \/ /\ Accepted(h, p, sender)
            /\ sequence' = h.sequence
            /\ previous' = h.sequence
            /\ execution' = h.executionId
            /\ pending' = IF p.kind = "RESOURCE_ACTION" THEN p ELSE NoPayload
            /\ actions' = IF p.kind = "RESOURCE_ACTION" THEN actions \cup {p.actionId} ELSE actions
            /\ failed_action' = (failed_action \/ (p.kind = "RESOURCE_RESULT"
                                                   /\ p.outcome \in {"DENIED", "AMBIGUOUS"}))
            /\ chunks' = IF p.kind = "RECEIPT_CHUNK" THEN Append(chunks, p.data) ELSE chunks
            /\ cleanup' = IF p.kind = "CLEANUP_RECORDED" THEN p ELSE cleanup
            /\ terminal' = IF p.kind = "TERMINAL" THEN p ELSE terminal
            /\ log' = Append(log, f)
            /\ UNCHANGED poisoned

\* server_frame: the server builds the frame itself and passes it to accept.
server_frame(p) ==
  /\ execution # None
  /\ accept([header |-> [dispatch |-> "ours", executionId |-> execution,
                          sequence |-> sequence + 1, previousDigest |-> previous],
             payload |-> p], "SERVER")

TranscriptNext ==
  \/ \E f \in Frames, sender \in {"BROKER", "SERVER"} : accept(f, sender)
  \/ \E p \in Payloads : server_frame(p)

TranscriptSpec == TranscriptInit /\ [][TranscriptNext]_allvars

-----------------------------------------------------------------------------
Kind(i) == log[i].payload.kind
Of(kind) == {i \in DOMAIN log : Kind(i) = kind}

\* Reference grammar, stated on the accepted frames instead of the parser's
\* fields: the frame at a place fits the ones before it.
FrameFits(i) ==
  /\ log[i].header.dispatch = "ours"
  /\ log[i].header.sequence = i
  /\ log[i].header.previousDigest = i - 1
  /\ log[i].header.executionId = log[1].header.executionId
  /\ (Kind(i) = "STARTED") <=> (i = 1)
  /\ Kind(i) = "RESOURCE_ACTION" => Kind(i - 1) \in {"STARTED", "RESOURCE_RESULT"}
  /\ Kind(i) = "RESOURCE_RESULT" =>
       /\ Kind(i - 1) = "RESOURCE_ACTION"
       /\ log[i].payload.actionId = log[i - 1].payload.actionId
  /\ Kind(i) = "RECEIPT_CHUNK" =>
       /\ Kind(i - 1) \in {"STARTED", "RESOURCE_RESULT", "RECEIPT_CHUNK"}
       /\ log[i].payload.index = Cardinality({j \in Of("RECEIPT_CHUNK") : j < i})
  /\ Kind(i) = "CLEANUP_RECORDED" => Kind(i - 1) = "RECEIPT_CHUNK"
  /\ Kind(i) = "TERMINAL" => Kind(i - 1) = "CLEANUP_RECORDED"
  /\ Kind(i) \notin {"ABORT", "REFUSED"}

\* No identifier twice.
ActionsDiffer ==
  \A i, j \in Of("RESOURCE_ACTION") :
    log[i].payload.actionId = log[j].payload.actionId => i = j

\* The accepted frames are a transcript: STARTED, (RESOURCE_ACTION
\* RESOURCE_RESULT)*, RECEIPT_CHUNK+, CLEANUP_RECORDED, TERMINAL, or a prefix of
\* that; one dispatch, chain and execution, every result answers the action just before
\* it, no identifier twice, chunks numbered from 0 and within the receipt's limit.
WellFormed ==
  /\ \A i \in DOMAIN log : FrameFits(i)
  /\ ActionsDiffer
  /\ Cardinality(Of("RECEIPT_CHUNK")) <= MaxReceipt

\* No false completion: a transcript that ends COMPLETED had every action of
\* the case answered without a denial or an ambiguity, left nothing behind,
\* and its terminal frame names exactly the chunks that were accepted.
CompletedIsHonest ==
  terminal # NoPayload /\ terminal.status = "COMPLETED" =>
    /\ \A i \in Of("RESOURCE_ACTION") :
         /\ log[i].payload.manifest \in Owned
         /\ Kind(i + 1) = "RESOURCE_RESULT"
         /\ log[i + 1].payload.outcome \in Permitted(log[i].payload.verb)
    /\ \A i \in Of("CLEANUP_RECORDED") : log[i].payload.remaining = <<>>
    /\ Len(terminal.receiptDigest) = Cardinality(Of("RECEIPT_CHUNK"))
    /\ \A i \in Of("RECEIPT_CHUNK") :
         log[i].payload.data = terminal.receiptDigest[log[i].payload.index + 1]
============================================================================
