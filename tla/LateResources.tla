--------------------------- MODULE LateResources ---------------------------
(***************************************************************************)
(* The late custody of one native session: _LateResources of               *)
(* live_linux_boundary.py, driven by _NativeChannel.execute and the fixed  *)
(* proxy client execute_protected, and closed by the supervisor's cleanup. *)
(* It owns the client credential's ancestry descriptors across operations  *)
(* and, inside one operation, a sealed memfd and a TCP socket.             *)
(*                                                                         *)
(* Every check (owner, thread, peer, policy, identity of a descriptor) may *)
(* fail where it stands, and so may every close: an operating system error *)
(* or a descriptor number that is no longer ours.                          *)
(***************************************************************************)
EXTENDS Naturals

CONSTANTS
  CASES,        \* the fixed operations
  NoCase,       \* no operation is active
  Ancestry      \* the directories from / to the credential, and the file

ASSUME NoCaseAssumption == NoCase \notin CASES
ASSUME AncestryAssumption == {"memfd", "transport"} \cap Ancestry = {}

Transient == {"memfd", "transport"}
Descriptors == Ancestry \cup Transient

VARIABLES
  state, operation, raw,   \* state, operation, raw is not None
  handles, io,             \* descriptors in self.handles and in self.io
  cleanup_failure,         \* cleanup_failure is not None
  pc, case_id,             \* position in execute_fixed and below, its argument
  done,                    \* operations with an accepted receipt
  claim,                   \* what _terminate did: "open", "claimed", "withheld"
  reads,                   \* how often the credential file was read (history)
  lost                     \* descriptors whose close failed (history)

custody == <<state, operation, raw, handles, io, cleanup_failure>>
vars == <<custody, pc, case_id, done, claim, reads, lost>>

States == {"ABSENT", "IO_ACTIVE", "RETAINED", "CLOSED", "FAILED"}
Ended == {"CLOSED", "FAILED"}
Positions == {"idle", "credential", "memfd", "closememfd", "closeraised", "transport",
              "exchange", "finish", "receipt", "raised", "terminate"}

Init ==
  /\ state = "ABSENT" /\ operation = NoCase /\ raw = FALSE
  /\ handles = {} /\ io = {} /\ cleanup_failure = FALSE
  /\ pc = "idle" /\ case_id = NoCase
  /\ done = {}
  /\ claim = "open"
  /\ reads = 0
  /\ lost = {}

-----------------------------------------------------------------------------
(* close() with opened still to close: everything is forgotten first, every *)
(* close is tried once, those in F fail and the failure stays.  missed is    *)
(* what a caller dropped from its rows before a close that failed.           *)
CloseAll(opened, F, missed) ==
  /\ F \subseteq opened
  /\ operation' = NoCase
  /\ raw' = FALSE
  /\ handles' = {}
  /\ io' = {}
  /\ cleanup_failure' = (cleanup_failure \/ F # {})
  /\ lost' = lost \cup F \cup missed

\* _fail() after a primitive opened the descriptors in S: close(), whatever it
\* raises, and the state is FAILED.
Fail(S) ==
  /\ state' = "FAILED"
  /\ IF state \in Ended
     THEN UNCHANGED <<operation, raw, handles, io, cleanup_failure, lost>>
     ELSE \E F \in SUBSET Descriptors : CloseAll(handles \cup io \cup S, F, {})

\* The exception reaches execute, which calls _fail again, and execute_fixed.
Raise == pc' = "raised"

-----------------------------------------------------------------------------
(* _begin_fixed_resources; its last check runs after the transition.        *)
Begin(c) ==
  /\ pc = "idle" /\ claim = "open"
  /\ state \in {"ABSENT", "RETAINED"} /\ operation = NoCase /\ io = {}
  /\ c \notin done
  /\ operation' = c /\ case_id' = c
  /\ state' = "IO_ACTIVE"
  /\ pc' \in {"credential", "terminate"}
  /\ UNCHANGED <<raw, handles, io, cleanup_failure, done, claim, reads, lost>>

\* A check between two primitives raised: inputs and request, certificate,
\* connection and exchange, peer and policy.
Refused ==
  /\ pc \in {"credential", "memfd", "exchange", "finish"}
  /\ Raise
  /\ UNCHANGED <<custody, case_id, done, claim, reads, lost>>

\* credential_bytes: the retained bytes, or the one read down the ancestry.
CredentialBytes ==
  /\ pc = "credential"
  /\ \/ /\ raw
        /\ pc' = "memfd"
        /\ UNCHANGED <<custody, reads, lost>>
     \/ /\ ~raw
        /\ raw' = TRUE
        /\ handles' = Ancestry
        /\ reads' = reads + 1
        /\ pc' = "memfd"
        /\ UNCHANGED <<state, operation, io, cleanup_failure, lost>>
     \/ /\ Raise
        /\ \E S \in SUBSET (Ancestry \ handles) : Fail(S)
        /\ reads' \in IF raw THEN {reads} ELSE {reads, reads + 1}
  /\ UNCHANGED <<case_id, done, claim>>

\* tls_memfd: create, write, seal; then tls_context, which may raise.
TlsMemfd ==
  /\ pc = "memfd"
  /\ \/ /\ io' = io \cup {"memfd"}
        /\ pc' \in {"closememfd", "closeraised"}
        /\ UNCHANGED <<state, operation, raw, handles, cleanup_failure, lost>>
     \/ /\ Raise
        /\ \E S \in {{}, {"memfd"}} : Fail(S)
  /\ UNCHANGED <<case_id, done, claim, reads>>

\* close_memfd, in the client's finally.  The row is dropped before the close:
\* when the close raises, _fail no longer finds it.
CloseMemfd ==
  /\ pc \in {"closememfd", "closeraised"}
  /\ \/ /\ io' = io \ {"memfd"}
        /\ pc' = IF pc = "closememfd" THEN "transport" ELSE "raised"
        /\ UNCHANGED <<state, operation, raw, handles, cleanup_failure, lost>>
     \/ /\ Raise
        /\ \/ Fail({})                               \* the guard before it
           \/ /\ state' = "FAILED"                   \* the close, or the guard after
              /\ \E F \in SUBSET handles, missed \in {{}, {"memfd"}} :
                   CloseAll(handles, F, missed)
  /\ UNCHANGED <<case_id, done, claim, reads>>

Transport ==
  /\ pc = "transport"
  /\ \/ /\ io' = io \cup {"transport"}
        /\ pc' = "exchange"
        /\ UNCHANGED <<state, operation, raw, handles, cleanup_failure, lost>>
     \/ /\ Raise
        /\ \E S \in {{}, {"transport"}} : Fail(S)
  /\ UNCHANGED <<case_id, done, claim, reads>>

\* Connect, handshake, request and response over the owned socket.
Exchange ==
  /\ pc = "exchange"
  /\ pc' = "finish"
  /\ UNCHANGED <<custody, case_id, done, claim, reads, lost>>

\* Mutant of Finish: the socket is left to the next operation.
FinishKeeps ==
  /\ pc = "finish"
  /\ operation' = NoCase
  /\ state' = "RETAINED"
  /\ pc' = "receipt"
  /\ UNCHANGED <<raw, handles, io, cleanup_failure, lost, case_id, done, claim, reads>>

\* finish: transient descriptors go before the receipt counts.
Finish ==
  /\ pc = "finish"
  /\ \/ /\ io' = {}
        /\ operation' = NoCase
        /\ state' = IF raw THEN "RETAINED" ELSE "ABSENT"
        /\ pc' = "receipt"
        /\ UNCHANGED <<raw, handles, cleanup_failure, lost>>
     \/ /\ Raise           \* a close failed: close() forgets the rest
        /\ state' = "FAILED"
        /\ \E F \in SUBSET (handles \cup io) :
             F \cap io # {} /\ CloseAll(handles \cup io, F, {})
     \/ /\ Raise           \* the check after the closes
        /\ io' = {}
        /\ UNCHANGED <<state, operation, raw, handles, cleanup_failure, lost>>
  /\ UNCHANGED <<case_id, done, claim, reads>>

\* execute_fixed takes the receipt; one that did not pass, or the last case,
\* ends the session.
Receipt ==
  /\ pc = "receipt"
  /\ done' = done \cup {case_id}
  /\ pc' \in {IF done' = CASES THEN "terminate" ELSE "idle", "terminate"}
  /\ UNCHANGED <<custody, case_id, claim, reads, lost>>

\* execute's last peer check raised, or execute_fixed refused the receipt.
ReceiptRefused ==
  /\ pc = "receipt"
  /\ Raise \/ pc' = "terminate"
  /\ UNCHANGED <<custody, case_id, done, claim, reads, lost>>

\* execute's except clause.
Unwind ==
  /\ pc = "raised"
  /\ Fail({})
  /\ pc' = "terminate"
  /\ UNCHANGED <<case_id, done, claim, reads>>

\* cancel, close, or a call refused before it reached the resources.
EndSession ==
  /\ pc = "idle" /\ claim = "open"
  /\ pc' = "terminate"
  /\ UNCHANGED <<custody, case_id, done, claim, reads, lost>>

\* Mutant of Terminate: a second close() forgets how the first one ended.
TerminateForgets ==
  /\ pc = "terminate"
  /\ pc' = "idle"
  /\ state \in Ended
  /\ claim' = "claimed"
  /\ UNCHANGED <<custody, case_id, done, reads, lost>>

\* _terminate: cleanup closes the custody and with it the late resources; the
\* terminal row is claimed only if nothing raised.
Terminate ==
  /\ pc = "terminate"
  /\ pc' = "idle"
  /\ \/ /\ state \in Ended
        /\ UNCHANGED <<custody, lost>>
     \/ /\ state \notin Ended
        /\ \E F \in SUBSET (handles \cup io) : CloseAll(handles \cup io, F, {})
        /\ state' = IF cleanup_failure' THEN "FAILED" ELSE "CLOSED"
  /\ claim' \in IF cleanup_failure' THEN {"withheld"} ELSE {"claimed", "withheld"}
  /\ UNCHANGED <<case_id, done, reads>>

Next ==
  \/ \E c \in CASES : Begin(c)
  \/ Refused \/ CredentialBytes \/ TlsMemfd \/ CloseMemfd \/ Transport \/ Exchange
  \/ Finish \/ Receipt \/ ReceiptRefused \/ Unwind \/ EndSession \/ Terminate

Spec == Init /\ [][Next]_vars

-----------------------------------------------------------------------------
\* "No transport or secret memfd survives a returned receipt": outside an
\* operation no transient descriptor is owned, the credential is retained
\* exactly with its whole ancestry, and a failed or closed object owns and
\* remembers nothing, on every path an exception can take.  The credential is
\* read at most once, over any number of operations ("retain one read").
NothingSurvives ==
  /\ state # "IO_ACTIVE" => io = {} /\ operation = NoCase
  /\ pc \in {"receipt", "idle"} => io = {}
  /\ handles = IF raw THEN Ancestry ELSE {}
  /\ state \in Ended => ~raw
  /\ reads <= 1

\* A close that failed withholds the terminal claim, wherever it happened;
\* the one exception is the memfd (see NoClaimWhenUnproven).
LossIsReported == claim = "claimed" => lost \subseteq {"memfd"}

\* live_supervisor.py: "Consumed nonce, no terminal claim when time or cleanup
\* is unproven".  The code breaks it: a close that fails inside close_memfd
\* has left the rows _fail looks at, so cleanup_failure stays unset, the
\* custody closes without an error, and the terminal row is written.
NoClaimWhenUnproven == claim = "claimed" => lost = {}
============================================================================
