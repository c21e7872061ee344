------------------------- MODULE ProxyClientProofs --------------------------
(***************************************************************************)
(* Proofs about the client's end of an operation: what it holds            *)
(* (LateResources), for every set of operations and every ancestry of the  *)
(* credential, and how it and the server read a message (HttpExchange),    *)
(* for every limit, message, division into records and clock.              *)
(*                                                                         *)
(* The resources. Wherever an exception may be in flight the object is     *)
(* still IO_ACTIVE, so that the outer handler does clean up.               *)
(*                                                                         *)
(* The messages. What was decrypted is a prefix of the message: record by  *)
(* record the bytes go from peer to network to TLS to reader and none is   *)
(* skipped. So each loop of read_http knows exactly which part of the      *)
(* message it has, and its verdict is about the whole.                     *)
(***************************************************************************)
EXTENDS LateResources, HttpExchange, WellFoundedInduction, TLAPS

-----------------------------------------------------------------------------
(* The inductive invariant. *)

FlagsOK == raw \in BOOLEAN /\ cleanup_failure \in BOOLEAN

TypeOK ==
  /\ state \in States
  /\ operation \in CASES \cup {NoCase} /\ case_id \in CASES \cup {NoCase}
  /\ handles \in SUBSET Ancestry /\ io \in SUBSET Transient
  /\ pc \in Positions
  /\ done \in SUBSET CASES
  /\ claim \in {"open", "claimed", "withheld"}
  /\ reads \in Nat
  /\ lost \in SUBSET Descriptors

\* Between _begin_fixed_resources and finish no primitive has failed yet: an
\* exception has not been swallowed on the way.
ActiveInv ==
  /\ pc \in {"credential", "memfd", "closememfd", "closeraised", "transport", "exchange",
             "finish"} => state = "IO_ACTIVE" /\ case_id \in CASES
  /\ pc = "receipt" => state \in {"ABSENT", "RETAINED"} /\ case_id \in CASES
  /\ pc \in {"idle", "receipt"} => io = {}
  /\ state # "IO_ACTIVE" => io = {} /\ operation = NoCase
  /\ claim # "open" => pc = "idle" /\ state \in Ended

\* The credential is with its ancestry or gone, and then for good.
CredentialInv ==
  /\ handles = IF raw THEN Ancestry ELSE {}
  /\ state \in Ended => ~raw
  /\ raw => reads = 1
  /\ ~raw /\ state \notin Ended => reads = 0
  /\ reads <= 1

\* Every close that failed is in cleanup_failure, the memfd's excepted.
LossInv ==
  /\ ~cleanup_failure => lost \subseteq {"memfd"}
  /\ claim = "claimed" => lost \subseteq {"memfd"}

IInv == FlagsOK /\ TypeOK /\ ActiveInv /\ CredentialInv /\ LossInv

-----------------------------------------------------------------------------
\* A custody object that was just made satisfies the invariant.
LEMMA InitIInv == Init => IInv
  <1>1. Init => FlagsOK
    BY Zenon DEF Init, FlagsOK
  <1>2. Init => TypeOK /\ ActiveInv /\ CredentialInv /\ LossInv
    BY DEF Init, TypeOK, ActiveInv, CredentialInv, LossInv, States, Ended, Positions
  <1> QED
    BY <1>1, <1>2 DEF IInv

\* What close() leaves, whichever of its closes fail: nothing is owned or
\* remembered, and what failed is kept in cleanup_failure.
LEMMA CloseAllLeaves ==
    ASSUME TypeOK, LossInv, NEW held \in SUBSET Descriptors, NEW F,
           NEW missed \in SUBSET {"memfd"}, CloseAll(held, F, missed)
    PROVE  /\ operation' = NoCase /\ ~raw' /\ handles' = {} /\ io' = {}
           /\ FlagsOK'
           /\ lost' \in SUBSET Descriptors
           /\ ~cleanup_failure' => lost' \subseteq {"memfd"}
  <1>1. FlagsOK'
    BY Zenon DEF CloseAll, FlagsOK
  <1>2. lost' \in SUBSET Descriptors
    BY DEF CloseAll, TypeOK, Descriptors, Transient
  <1>3. ~cleanup_failure' => lost' \subseteq {"memfd"}
    BY DEF CloseAll, LossInv
  <1> QED
    BY <1>1, <1>2, <1>3 DEF CloseAll

\* What _fail leaves: the state FAILED, nothing owned, no failure forgotten.
LEMMA FailLeaves ==
    ASSUME IInv, NEW S \in SUBSET Descriptors, Fail(S)
    PROVE  /\ state' = "FAILED"
           /\ operation' = NoCase /\ ~raw' /\ handles' = {} /\ io' = {}
           /\ FlagsOK'
           /\ lost' \in SUBSET Descriptors
           /\ ~cleanup_failure' => lost' \subseteq {"memfd"}
  <1> USE DEF IInv
  <1>0. state' = "FAILED"
    BY DEF Fail
  <1>1. CASE state \in Ended
    BY <1>0, <1>1 DEF Fail, TypeOK, FlagsOK, ActiveInv, CredentialInv, LossInv, Ended
  <1>2. CASE state \notin Ended
    <2>1. PICK F \in SUBSET Descriptors : CloseAll(handles \cup io \cup S, F, {})
      BY <1>2 DEF Fail
    <2>2. handles \cup io \cup S \in SUBSET Descriptors /\ {} \in SUBSET {"memfd"}
      BY DEF TypeOK, Descriptors
    <2> QED
      BY <1>0, <2>1, <2>2, CloseAllLeaves
  <1> QED
    BY <1>1, <1>2

\* After an exception that went through close or _fail the invariant holds.
LEMMA RaiseIInv ==
    ASSUME IInv, state' = "FAILED", operation' = NoCase, ~raw', handles' = {}, io' = {},
           FlagsOK', lost' \in SUBSET Descriptors, ~cleanup_failure' => lost' \subseteq {"memfd"},
           Raise, claim = "open", reads' \in {0, 1}, UNCHANGED <<case_id, done, claim>>
    PROVE  IInv'
  <1> USE DEF IInv
  <1>1. TypeOK'
    BY DEF TypeOK, Raise, States, Positions
  <1>2. ActiveInv' /\ CredentialInv' /\ LossInv'
    BY DEF ActiveInv, CredentialInv, LossInv, Raise, Ended
  <1> QED
    BY <1>1, <1>2

-----------------------------------------------------------------------------
(* One lemma per primitive that can fail in the middle. *)

\* credential_bytes reads the file once, or ends the object.
LEMMA CredentialBytesIInv == IInv /\ CredentialBytes => IInv'
  <1> SUFFICES ASSUME IInv, CredentialBytes PROVE IInv'
    OBVIOUS
  <1> USE DEF IInv
  <1>0. state = "IO_ACTIVE" /\ claim = "open"
    BY DEF CredentialBytes, ActiveInv
  <1>1. CASE raw /\ pc' = "memfd" /\ UNCHANGED <<custody, reads, lost>>
    <2>1. FlagsOK'
      BY <1>1, Zenon DEF FlagsOK, custody
    <2>2. TypeOK' /\ ActiveInv' /\ CredentialInv' /\ LossInv'
      BY <1>0, <1>1 DEF CredentialBytes, TypeOK, ActiveInv, CredentialInv, LossInv, custody,
                        Positions
    <2> QED
      BY <2>1, <2>2
  <1>2. CASE /\ ~raw /\ raw' = TRUE /\ handles' = Ancestry /\ reads' = reads + 1
             /\ pc' = "memfd"
             /\ UNCHANGED <<state, operation, io, cleanup_failure, lost>>
    <2>1. FlagsOK'
      BY <1>2, Zenon DEF FlagsOK
    <2>2. TypeOK'
      BY <1>0, <1>2 DEF CredentialBytes, TypeOK, CredentialInv, Positions
    <2>3. ActiveInv' /\ CredentialInv' /\ LossInv'
      BY <1>0, <1>2 DEF CredentialBytes, ActiveInv, CredentialInv, LossInv, Ended
    <2> QED
      BY <2>1, <2>2, <2>3
  <1>3. CASE /\ Raise
             /\ \E S \in SUBSET (Ancestry \ handles) : Fail(S)
             /\ reads' \in IF raw THEN {reads} ELSE {reads, reads + 1}
    <2>1. PICK S \in SUBSET (Ancestry \ handles) : Fail(S)
      BY <1>3
    <2>2. S \in SUBSET Descriptors
      BY DEF Descriptors
    <2>3. reads' \in {0, 1}
      BY <1>0, <1>3 DEF CredentialInv, Ended
    <2> QED
      BY <1>0, <1>3, <2>1, <2>2, <2>3, FailLeaves, RaiseIInv DEF CredentialBytes
  <1> QED
    BY <1>1, <1>2, <1>3 DEF CredentialBytes

\* tls_memfd and transport add one descriptor, or end the object.
LEMMA AddsIoIInv ==
    ASSUME IInv, NEW fd \in Transient, state = "IO_ACTIVE", claim = "open", case_id \in CASES,
           UNCHANGED <<case_id, done, claim, reads>>,
           \/ /\ io' = io \cup {fd}
              /\ pc' \in {"closememfd", "closeraised", "exchange"}
              /\ UNCHANGED <<state, operation, raw, handles, cleanup_failure, lost>>
           \/ Raise /\ \E S \in {{}, {fd}} : Fail(S)
    PROVE  IInv'
  <1> USE DEF IInv
  <1>1. CASE /\ io' = io \cup {fd}
             /\ pc' \in {"closememfd", "closeraised", "exchange"}
             /\ UNCHANGED <<state, operation, raw, handles, cleanup_failure, lost>>
    <2>1. FlagsOK'
      BY <1>1, Zenon DEF FlagsOK
    <2>2. TypeOK'
      BY <1>1 DEF TypeOK, Positions
    <2>3. ActiveInv' /\ CredentialInv' /\ LossInv'
      BY <1>1 DEF ActiveInv, CredentialInv, LossInv
    <2> QED
      BY <2>1, <2>2, <2>3
  <1>2. CASE Raise /\ \E S \in {{}, {fd}} : Fail(S)
    <2>1. PICK S \in {{}, {fd}} : Fail(S)
      BY <1>2
    <2>2. S \in SUBSET Descriptors
      BY DEF Descriptors
    <2>3. reads' \in {0, 1}
      BY DEF CredentialInv, TypeOK
    <2> QED
      BY <1>2, <2>1, <2>2, <2>3, FailLeaves, RaiseIInv
  <1> QED
    BY <1>1, <1>2

\* close_memfd drops the row first: what it then fails to close is the one
\* loss that cleanup_failure does not know of.
LEMMA CloseMemfdIInv == IInv /\ CloseMemfd => IInv'
  <1> SUFFICES ASSUME IInv, CloseMemfd PROVE IInv'
    OBVIOUS
  <1> USE DEF IInv
  <1>0. /\ state = "IO_ACTIVE" /\ claim = "open" /\ reads' \in {0, 1}
        /\ UNCHANGED <<case_id, done, claim>>
    BY DEF CloseMemfd, ActiveInv, CredentialInv, TypeOK
  <1>1. CASE /\ io' = io \ {"memfd"}
             /\ pc' = IF pc = "closememfd" THEN "transport" ELSE "raised"
             /\ UNCHANGED <<state, operation, raw, handles, cleanup_failure, lost>>
    <2>1. FlagsOK'
      BY <1>1, Zenon DEF FlagsOK
    <2>2. TypeOK'
      BY <1>1 DEF TypeOK, Positions, CloseMemfd
    <2>3. ActiveInv' /\ CredentialInv' /\ LossInv'
      BY <1>0, <1>1 DEF ActiveInv, CredentialInv, LossInv, CloseMemfd
    <2> QED
      BY <2>1, <2>2, <2>3
  <1>2. CASE Raise /\ Fail({})
    <2>1. {} \in SUBSET Descriptors
      OBVIOUS
    <2> QED
      BY <1>0, <1>2, <2>1, FailLeaves, RaiseIInv
  <1>3. CASE /\ Raise /\ state' = "FAILED"
             /\ \E F \in SUBSET handles, missed \in {{}, {"memfd"}} :
                  CloseAll(handles, F, missed)
    <2>1. PICK F \in SUBSET handles, missed \in {{}, {"memfd"}} : CloseAll(handles, F, missed)
      BY <1>3
    <2>2. handles \in SUBSET Descriptors /\ missed \in SUBSET {"memfd"}
      BY DEF TypeOK, Descriptors
    <2> QED
      BY <1>0, <1>3, <2>1, <2>2, CloseAllLeaves, RaiseIInv
  <1> QED
    BY <1>1, <1>2, <1>3 DEF CloseMemfd

\* finish gives the transient descriptors back before the receipt counts.
LEMMA FinishIInv == IInv /\ Finish => IInv'
  <1> SUFFICES ASSUME IInv, Finish PROVE IInv'
    OBVIOUS
  <1> USE DEF IInv
  <1>0. /\ state = "IO_ACTIVE" /\ claim = "open" /\ reads' \in {0, 1} /\ case_id \in CASES
        /\ UNCHANGED <<case_id, done, claim, reads>>
    BY DEF Finish, ActiveInv, CredentialInv, TypeOK
  <1>1. CASE /\ io' = {} /\ operation' = NoCase
             /\ state' = IF raw THEN "RETAINED" ELSE "ABSENT"
             /\ pc' = "receipt"
             /\ UNCHANGED <<raw, handles, cleanup_failure, lost>>
    <2>1. FlagsOK'
      BY <1>1, Zenon DEF FlagsOK
    <2>2. TypeOK'
      BY <1>0, <1>1 DEF TypeOK, Positions, States
    <2>3. ActiveInv' /\ CredentialInv' /\ LossInv'
      BY <1>0, <1>1 DEF ActiveInv, CredentialInv, LossInv, Ended
    <2> QED
      BY <2>1, <2>2, <2>3
  <1>2. CASE /\ Raise /\ state' = "FAILED"
             /\ \E F \in SUBSET (handles \cup io) :
                  F \cap io # {} /\ CloseAll(handles \cup io, F, {})
    <2>1. PICK F \in SUBSET (handles \cup io) : CloseAll(handles \cup io, F, {})
      BY <1>2
    <2>2. handles \cup io \in SUBSET Descriptors /\ {} \in SUBSET {"memfd"}
      BY DEF TypeOK, Descriptors
    <2> QED
      BY <1>0, <1>2, <2>1, <2>2, CloseAllLeaves, RaiseIInv
  <1>3. CASE /\ Raise /\ io' = {}
             /\ UNCHANGED <<state, operation, raw, handles, cleanup_failure, lost>>
    <2>1. FlagsOK'
      BY <1>3, Zenon DEF FlagsOK
    <2>2. TypeOK' /\ ActiveInv' /\ CredentialInv' /\ LossInv'
      BY <1>0, <1>3 DEF TypeOK, ActiveInv, CredentialInv, LossInv, Positions, Raise
    <2> QED
      BY <2>1, <2>2
  <1> QED
    BY <1>1, <1>2, <1>3 DEF Finish

\* _terminate closes what is left and claims only if nothing raised.
LEMMA TerminateIInv == IInv /\ Terminate => IInv'
  <1> SUFFICES ASSUME IInv, Terminate PROVE IInv'
    OBVIOUS
  <1> USE DEF IInv
  <1>1. CASE state \in Ended /\ UNCHANGED <<custody, lost>>
    <2>1. FlagsOK'
      BY <1>1, Zenon DEF FlagsOK, custody
    <2>2. TypeOK'
      BY <1>1 DEF TypeOK, Positions, Terminate, custody
    <2>3. ActiveInv' /\ CredentialInv' /\ LossInv'
      BY <1>1 DEF ActiveInv, CredentialInv, LossInv, Ended, Terminate, custody
    <2> QED
      BY <2>1, <2>2, <2>3
  <1>2. CASE /\ state \notin Ended
             /\ \E F \in SUBSET (handles \cup io) : CloseAll(handles \cup io, F, {})
             /\ state' = IF cleanup_failure' THEN "FAILED" ELSE "CLOSED"
    <2>1. PICK F \in SUBSET (handles \cup io) : CloseAll(handles \cup io, F, {})
      BY <1>2
    <2>2. handles \cup io \in SUBSET Descriptors /\ {} \in SUBSET {"memfd"}
      BY DEF TypeOK, Descriptors
    <2>3. /\ operation' = NoCase /\ ~raw' /\ handles' = {} /\ io' = {} /\ FlagsOK'
          /\ lost' \in SUBSET Descriptors
          /\ ~cleanup_failure' => lost' \subseteq {"memfd"}
      BY <2>1, <2>2, CloseAllLeaves
    <2>4. state' \in Ended
      BY <1>2 DEF Ended
    <2>5. TypeOK'
      BY <2>3, <2>4 DEF TypeOK, Positions, States, Ended, Terminate
    <2>6. ActiveInv' /\ CredentialInv' /\ LossInv'
      BY <2>3, <2>4 DEF TypeOK, ActiveInv, CredentialInv, LossInv, Ended, Terminate
    <2> QED
      BY <2>3, <2>5, <2>6
  <1> QED
    BY <1>1, <1>2 DEF Terminate

-----------------------------------------------------------------------------
\* Every step of the custody and of its callers keeps the invariant.
LEMMA NextIInv == IInv /\ [Next]_vars => IInv'
  <1> SUFFICES ASSUME IInv, [Next]_vars PROVE IInv'
    OBVIOUS
  <1> USE DEF IInv
  <1>1. ASSUME NEW c \in CASES, Begin(c) PROVE IInv'
    <2>1. FlagsOK'
      BY <1>1, Zenon DEF FlagsOK, Begin
    <2>2. TypeOK'
      BY <1>1 DEF TypeOK, Begin, Positions, States
    <2>3. ActiveInv' /\ CredentialInv' /\ LossInv'
      BY <1>1 DEF ActiveInv, CredentialInv, LossInv, Begin, Ended
    <2> QED
      BY <2>1, <2>2, <2>3
  <1>2. ASSUME UNCHANGED <<custody, case_id, claim, reads, lost>>, claim = "open",
               done' \in SUBSET CASES,
               \/ pc' \in {"raised", "terminate"}
               \/ pc' = "finish" /\ pc = "exchange"
               \/ pc' = "idle" /\ io = {}
        PROVE  IInv'
    <2>1. FlagsOK'
      BY <1>2, Zenon DEF FlagsOK, custody
    <2>2. TypeOK'
      BY <1>2 DEF TypeOK, Positions, custody
    <2>3. ActiveInv' /\ CredentialInv' /\ LossInv'
      BY <1>2 DEF ActiveInv, CredentialInv, LossInv, Ended, custody
    <2> QED
      BY <2>1, <2>2, <2>3
  <1>3. CASE Refused \/ Exchange \/ ReceiptRefused \/ EndSession
    BY <1>2, <1>3 DEF Refused, Exchange, ReceiptRefused, EndSession, Raise, ActiveInv, TypeOK
  <1>4. CASE Receipt
    <2>1. case_id \in CASES
      BY <1>4 DEF Receipt, ActiveInv
    <2> QED
      BY <1>2, <1>4, <2>1 DEF Receipt, ActiveInv, TypeOK
  <1>5. CASE TlsMemfd
    <2>1. state = "IO_ACTIVE" /\ claim = "open" /\ case_id \in CASES /\ "memfd" \in Transient
      BY <1>5 DEF TlsMemfd, ActiveInv, Transient
    <2> QED
      BY <1>5, <2>1, AddsIoIInv DEF TlsMemfd
  <1>6. CASE Transport
    <2>1. state = "IO_ACTIVE" /\ claim = "open" /\ case_id \in CASES /\ "transport" \in Transient
      BY <1>6 DEF Transport, ActiveInv, Transient
    <2> QED
      BY <1>6, <2>1, AddsIoIInv DEF Transport
  <1>7. CASE Unwind
    <2>1. /\ state' = "FAILED" /\ operation' = NoCase /\ ~raw' /\ handles' = {} /\ io' = {}
          /\ FlagsOK' /\ lost' \in SUBSET Descriptors
          /\ ~cleanup_failure' => lost' \subseteq {"memfd"}
      <3>1. {} \in SUBSET Descriptors
        OBVIOUS
      <3> QED
        BY <1>7, <3>1, FailLeaves DEF Unwind
    <2>2. TypeOK'
      BY <1>7, <2>1 DEF Unwind, TypeOK, States, Positions
    <2>3. ActiveInv' /\ CredentialInv' /\ LossInv'
      BY <1>7, <2>1 DEF Unwind, TypeOK, ActiveInv, CredentialInv, LossInv, Ended
    <2> QED
      BY <2>1, <2>2, <2>3
  <1>8. CASE UNCHANGED vars
    <2>1. FlagsOK'
      BY <1>8, Zenon DEF FlagsOK, vars, custody
    <2>2. TypeOK' /\ ActiveInv' /\ CredentialInv' /\ LossInv'
      BY <1>8 DEF TypeOK, ActiveInv, CredentialInv, LossInv, vars, custody
    <2> QED
      BY <2>1, <2>2
  <1> QED
    BY <1>1, <1>3, <1>4, <1>5, <1>6, <1>7, <1>8, CredentialBytesIInv, CloseMemfdIInv,
       FinishIInv, TerminateIInv DEF Next

\* The inductive invariant of the late custody: where an exception may be in
\* flight the object is still active, the credential is with its ancestry or
\* gone for good, and cleanup_failure knows every loss but the memfd's.
THEOREM LateInvariance == Spec => []IInv
  BY InitIInv, NextIInv, PTL DEF Spec

\* No transport, memfd or credential survives its operation, on any path an
\* exception can take through tls_memfd, close_memfd, transport, finish, _fail
\* and _terminate, and credential_bytes reads the file at most once.
THEOREM NothingSurvivesAnOperation == Spec => []NothingSurvives
  <1>1. IInv => NothingSurvives
    BY DEF IInv, ActiveInv, CredentialInv, NothingSurvives
  <1> QED
    BY <1>1, LateInvariance, PTL

\* A close that failed withholds the terminal claim of _terminate, except the
\* close inside close_memfd.
THEOREM LossesAreReported == Spec => []LossIsReported
  <1>1. IInv => LossIsReported
    BY DEF IInv, LossInv, LossIsReported
  <1> QED
    BY <1>1, LateInvariance, PTL

-----------------------------------------------------------------------------
(***************************************************************************)
(* The reading of messages: HttpExchange.                                  *)
(***************************************************************************)

\* What the variables hold.
HttpType ==
  /\ kind \in {"request", "response"} /\ msg \in Messages
  /\ ends \subseteq 1..Stream(msg) /\ {Length(msg), Stream(msg)} \subseteq ends
  /\ sent \in Nat /\ received \in Nat /\ opened \in Nat /\ data \in Nat /\ now \in Nat
  /\ at \in {"header", "body", "end"} \cup Outcomes

\* The stream goes through the hands of peer, network and TLS in its order, and no
\* record holds a part of the body and the close_notify.
StreamInv ==
  /\ data <= opened /\ opened <= received /\ received <= sent /\ sent <= Stream(msg)
  /\ opened <= Length(msg)

\* What read_http knows of the message at each of its loops.
LoopInv ==
  /\ at = "header" => data < msg.header /\ data < HeaderLimit
  /\ at = "body" => WellFormed /\ msg.header <= data /\ data < msg.header + msg.size
  /\ at = "end" => /\ WellFormed /\ kind = "response"
                   /\ data = msg.header + msg.size /\ opened = data
  /\ until # NotWaiting => at \notin Outcomes

HttpInv == HttpType /\ StreamInv /\ LoopInv /\ VerdictFitsMessage

\* A set of naturals that is not empty has a least element, and Min is it.
LEMMA LeastOfNaturals ==
    ASSUME NEW S, S \subseteq Nat, S # {}
    PROVE  Min(S) \in S /\ \A y \in S : Min(S) <= y
  <1>1. PICK R : R = OpToRel(<, Nat)
    OBVIOUS
  <1>2. IsWellFoundedOn(R, Nat)
    BY <1>1, NatLessThanWellFounded
  <1>3. PICK x \in S : \A y \in S : ~(<<y, x>> \in R)
    BY <1>2, WFMin
  <1>4. \A a, b \in Nat : a < b => <<a, b>> \in R
    BY <1>1 DEF OpToRel
  <1>5. \A y \in S : ~(y < x)
    BY <1>3, <1>4
  <1>6. x \in Nat /\ \A y \in S : y \in Nat
    OBVIOUS
  <1>7. \A y \in S : x <= y
    BY <1>5, <1>6
  <1>8. \E z \in S : \A y \in S : z <= y
    BY <1>7
  <1> QED
    BY <1>8 DEF Min

\* The smaller of two numbers.
LEMMA LeastOfTwo ==
    ASSUME NEW a \in Int, NEW b \in Int
    PROVE  /\ Min({a, b}) \in {a, b} /\ Min({a, b}) <= a /\ Min({a, b}) <= b
  <1>1. \E z \in {a, b} : \A y \in {a, b} : z <= y
    <2>1. CASE a <= b
      BY <2>1
    <2>2. CASE b <= a
      BY <2>2
    <2> QED
      BY <2>1, <2>2
  <1> QED
    BY <1>1 DEF Min

\* Where a message and its stream end.
LEMMA MessageFacts ==
    ASSUME HttpType
    PROVE  /\ msg.header \in Nat \ {0} /\ msg.size \in Nat /\ msg.body \in Nat /\ msg.notify \in BOOLEAN
           /\ Length(msg) = msg.header + msg.body /\ Length(msg) \in Nat
           /\ Stream(msg) \in Nat /\ Length(msg) <= Stream(msg)
           /\ ~msg.notify => Stream(msg) = Length(msg)
           /\ HeaderLimit \in Nat \ {0} /\ HeaderChunk \in Nat \ {0} /\ BodyLimit \in Nat
           /\ \A e \in ends : e \in Nat /\ 1 <= e /\ e <= Stream(msg)
           /\ Length(msg) \in ends
  <1>1. HeaderLimit \in Nat \ {0} /\ HeaderChunk \in Nat \ {0} /\ BodyLimit \in Nat
    BY LimitAssumption
  <1>2. msg.header \in 1..(HeaderLimit + 1) /\ msg.size \in 0..(BodyLimit + 1)
        /\ msg.body \in 0..(BodyLimit + 1) /\ msg.notify \in BOOLEAN
    BY DEF HttpType, Messages
  <1>3. /\ msg.header \in Nat \ {0} /\ msg.size \in Nat /\ msg.body \in Nat
    BY <1>1, <1>2
  <1>4. /\ Length(msg) = msg.header + msg.body /\ Length(msg) \in Nat
    BY <1>3 DEF Length
  <1>5. /\ Stream(msg) \in Nat /\ Length(msg) <= Stream(msg)
        /\ ~msg.notify => Stream(msg) = Length(msg)
    BY <1>4 DEF Stream
  <1>6. /\ \A e \in ends : e \in Nat /\ 1 <= e /\ e <= Stream(msg)
        /\ Length(msg) \in ends
    BY <1>5 DEF HttpType
  <1> QED
    BY <1>1, <1>2, <1>3, <1>4, <1>5, <1>6

\* What ssl.read returns: a part of one record, which lies in the message unless the
\* close_notify is next.
LEMMA RecordFacts ==
    ASSUME HttpInv, Readable, ~AtNotify, NEW maximum \in Nat \ {0},
           NEW record, record = IF data < opened THEN opened ELSE NextRecord
    PROVE  /\ record \in Nat /\ record <= received /\ record <= Length(msg)
           /\ Returned(maximum) \in Nat \ {0} /\ Returned(maximum) <= maximum
           /\ data + Returned(maximum) <= record
  <1>0. /\ Length(msg) \in Nat /\ (~msg.notify => Stream(msg) = Length(msg))
        /\ (\A e \in ends : e \in Nat) /\ Length(msg) \in ends /\ Stream(msg) \in Nat
    BY MessageFacts DEF HttpInv
  <1>1. /\ data \in Nat /\ opened \in Nat /\ received \in Nat /\ sent \in Nat
        /\ data <= opened /\ opened <= received /\ received <= sent /\ sent <= Stream(msg)
        /\ opened <= Length(msg)
    BY DEF HttpInv, HttpType, StreamInv
  <1>2. /\ record \in Nat /\ data < record /\ record <= received /\ record <= Length(msg)
    <2>1. CASE data < opened
      BY <1>0, <1>1, <2>1
    <2>2. CASE ~(data < opened)
      <3>1. PICK e \in ends : opened < e /\ e <= received
        BY <2>2 DEF Readable
      <3> DEFINE S == {x \in ends : x > opened}
      <3>2. S \subseteq Nat /\ e \in S
        BY <1>0, <3>1
      <3>3. NextRecord \in S /\ \A y \in S : NextRecord <= y
        BY <3>2, LeastOfNaturals DEF NextRecord
      <3>4. NextRecord \in Nat /\ opened < NextRecord /\ NextRecord <= e
        BY <1>0, <1>1, <3>2, <3>3
      <3>5. opened < Length(msg)
        <4>1. CASE msg.notify
          BY <1>0, <1>1, <2>2, <4>1 DEF AtNotify
        <4>2. CASE ~msg.notify
          BY <1>0, <1>1, <3>1, <4>2
        <4> QED
          BY <4>1, <4>2
      <3>6. Length(msg) \in S
        BY <1>0, <1>1, <3>5
      <3>7. NextRecord <= Length(msg)
        BY <3>3, <3>6
      <3> QED
        BY <1>0, <1>1, <2>2, <3>1, <3>4, <3>7
    <2> QED
      BY <2>1, <2>2
  <1>3. Returned(maximum) = Min({maximum, record - data})
    BY DEF Returned
  <1>4. PICK d \in Int : d = record - data
    <2>1. record - data \in Int
      BY <1>1, <1>2
    <2> QED
      BY <2>1
  <1>5. Returned(maximum) \in {maximum, d} /\ Returned(maximum) <= maximum /\ Returned(maximum) <= d
    <2>1. maximum \in Int /\ Returned(maximum) = Min({maximum, d})
      BY <1>3, <1>4
    <2> QED
      BY <1>4, <2>1, LeastOfTwo
  <1> QED
    BY <1>1, <1>2, <1>4, <1>5

\* How many units read_http asks for.
LEMMA ReadSizeFacts ==
    ASSUME HttpInv, at \in {"header", "body", "end"}
    PROVE  /\ ReadSize \in Nat \ {0}
           /\ at = "header" => data + ReadSize <= HeaderLimit
  <1> USE MessageFacts DEF HttpInv
  <1>1. data \in Nat
    BY DEF HttpType
  <1>2. CASE at = "header"
    <2>1. ReadSize = Min({HeaderChunk, HeaderLimit - data})
      BY <1>2 DEF ReadSize
    <2>2. data < HeaderLimit
      BY <1>2 DEF LoopInv
    <2>3. HeaderLimit - data \in Int /\ HeaderChunk \in Int
      BY <1>1
    <2>4. /\ ReadSize \in {HeaderChunk, HeaderLimit - data}
          /\ ReadSize <= HeaderLimit - data
      BY <2>1, <2>3, LeastOfTwo
    <2> QED
      BY <1>1, <2>2, <2>4
  <1>3. CASE at = "body"
    <2>1. ReadSize = msg.size + 1 - (data - msg.header)
      BY <1>3 DEF ReadSize
    <2>2. msg.header <= data /\ data < msg.header + msg.size
      BY <1>3 DEF LoopInv
    <2> QED
      BY <1>1, <1>3, <2>1, <2>2
  <1>4. CASE at = "end"
    BY <1>4 DEF ReadSize
  <1> QED
    BY <1>2, <1>3, <1>4

\* A connection that was just made: nothing has been read.
LEMMA HttpStarts == ASSUME HttpInit PROVE HttpInv
  <1>1. HttpType
    BY DEF HttpInit, HttpType, Outcomes
  <1>2. data = 0 /\ opened = 0 /\ received = 0 /\ sent = 0 /\ at = "header" /\ until = NotWaiting
    BY DEF HttpInit
  <1>3. StreamInv
    BY <1>1, <1>2, MessageFacts DEF StreamInv
  <1>4. LoopInv
    BY <1>1, <1>2, MessageFacts DEF LoopInv
  <1>5. VerdictFitsMessage
    BY <1>2 DEF VerdictFitsMessage
  <1> QED
    BY <1>1, <1>3, <1>4, <1>5 DEF HttpInv

\* The end of a read that tells nothing of the message: late, broken, stopped.
LEMMA EndStep ==
    ASSUME HttpInv, NEW outcome \in {"late", "broken", "stopped"}, End(outcome)
    PROVE  HttpInv'
  <1>1. /\ at' = outcome /\ until' = NotWaiting
        /\ UNCHANGED <<kind, msg, ends, sent, open, received, opened, data, now>>
    BY DEF End, peer
  <1>2. HttpType'
    BY <1>1 DEF HttpInv, HttpType, Outcomes
  <1>3. StreamInv'
    BY <1>1 DEF HttpInv, StreamInv
  <1>4. LoopInv' /\ VerdictFitsMessage'
    BY <1>1 DEF LoopInv, VerdictFitsMessage
  <1> QED
    BY <1>2, <1>3, <1>4 DEF HttpInv

\* recv is asked again, on the same budget.
LEMMA AgainStep == ASSUME HttpInv, at \notin Outcomes, End(at) PROVE HttpInv'
  <1>1. /\ at' = at /\ until' = NotWaiting
        /\ UNCHANGED <<kind, msg, ends, sent, open, received, opened, data, now>>
    BY DEF End, peer
  <1>2. HttpType' /\ StreamInv'
    BY <1>1 DEF HttpInv, HttpType, StreamInv
  <1>3. LoopInv' /\ VerdictFitsMessage'
    BY <1>1 DEF HttpInv, LoopInv, VerdictFitsMessage, WellFormed
  <1> QED
    BY <1>2, <1>3 DEF HttpInv

\* read_http after a part of the plaintext: the loop it goes to, or its verdict, is that
\* of the message.
LEMMA ReadPartStep == ASSUME HttpInv, ReadPart PROVE HttpInv'
  <1> USE MessageFacts DEF HttpInv
  <1>1. PICK position, record :
          /\ record = (IF data < opened THEN opened ELSE NextRecord)
          /\ position = data + Returned(ReadSize)
          /\ data' = position /\ opened' = record /\ at' = AfterPart(position, record)
          /\ Reading /\ Readable /\ ~AtNotify
          /\ UNCHANGED <<kind, msg, ends, sent, open, received, until, now>>
    BY DEF ReadPart, peer
  <1>2. at \in {"header", "body", "end"} /\ until = NotWaiting
    BY <1>1 DEF Reading, HttpType
  <1>3. ReadSize \in Nat \ {0} /\ (at = "header" => data + ReadSize <= HeaderLimit)
    BY <1>2, ReadSizeFacts
  <1>4. /\ data \in Nat /\ opened \in Nat /\ received \in Nat /\ sent \in Nat
        /\ data <= opened /\ opened <= received /\ received <= sent /\ sent <= Stream(msg)
    BY DEF HttpType, StreamInv
  <1>5. /\ record \in Nat /\ record <= received /\ record <= Length(msg)
        /\ position \in Nat /\ data < position /\ position <= record
        /\ at = "header" => position <= HeaderLimit
    <2>1. /\ record \in Nat /\ record <= received /\ record <= Length(msg)
          /\ Returned(ReadSize) \in Nat \ {0} /\ Returned(ReadSize) <= ReadSize
          /\ data + Returned(ReadSize) <= record
      BY <1>1, <1>3, RecordFacts
    <2> QED
      BY <1>1, <1>3, <1>4, <2>1
  <1>6. StreamInv'
    BY <1>1, <1>4, <1>5 DEF StreamInv
  <1>7. \/ at' = "refused" /\ at = "end"
        \/ at' = "header" /\ at # "end" /\ position < msg.header /\ position < HeaderLimit
        \/ at' = "refused" /\ at # "end" /\ position < msg.header /\ HeaderLimit <= position
        \/ at' = "refused" /\ at # "end" /\ msg.header <= position /\ at = "header" /\ msg.size \notin 1..BodyLimit
        \/ /\ at # "end" /\ msg.header <= position /\ (at = "header" => msg.size \in 1..BodyLimit)
           /\ \/ at' = "refused" /\ position - msg.header > msg.size
              \/ at' = "body" /\ position - msg.header < msg.size
              \/ /\ position - msg.header = msg.size
                 /\ \/ at' = "refused" /\ record # position
                    \/ at' = "end" /\ kind = "response" /\ record = position
                    \/ at' = "refused" /\ kind # "response" /\ received # record /\ record = position
                    \/ at' = "done" /\ kind # "response" /\ received = record /\ record = position
    BY <1>1, <1>5 DEF AfterPart, AfterBody
  <1>8. at' \in {"header", "body", "end"} \cup Outcomes /\ HttpType'
    BY <1>1, <1>5, <1>7 DEF HttpType, Outcomes
  <1>9. at # "end" /\ msg.header <= position /\ (at = "header" => msg.size \in 1..BodyLimit) => WellFormed
    <2>1. CASE at = "header"
      BY <1>5, <2>1 DEF WellFormed
    <2>2. CASE at = "body"
      BY <2>2 DEF LoopInv
    <2> QED
      BY <1>2, <2>1, <2>2
  <1>10. WellFormed' <=> WellFormed
    BY <1>1 DEF WellFormed
  <1>11. LoopInv'
    BY <1>1, <1>2, <1>5, <1>7, <1>9, <1>10 DEF LoopInv
  <1>12. at' = "refused" => ~(WellFormed /\ msg.body = msg.size /\ (msg.notify <=> kind = "response"))
    <2> SUFFICES ASSUME at' = "refused", WellFormed, msg.body = msg.size, msg.notify <=> kind = "response"
                 PROVE  FALSE
      OBVIOUS
    <2>1. /\ msg.header <= HeaderLimit /\ msg.size \in 1..BodyLimit
          /\ Length(msg) = msg.header + msg.size
      BY DEF WellFormed
    <2>2. at # "end"
      <3> SUFFICES ASSUME at = "end" PROVE FALSE
        OBVIOUS
      <3>1. msg.notify /\ opened = Length(msg) /\ data = opened
        BY <2>1 DEF LoopInv
      <3> QED
        BY <1>1, <3>1 DEF AtNotify
    <2>3. position <= msg.header + msg.size
      BY <1>5, <2>1
    <2>4. /\ position = msg.header + msg.size
          /\ (record # position \/ (kind # "response" /\ received # record))
      BY <1>5, <1>7, <2>1, <2>2, <2>3
    <2>5. record = position
      BY <1>5, <2>1, <2>4
    <2>6. received <= Length(msg)
      BY <1>4, <2>4, <2>5
    <2> QED
      BY <1>4, <1>5, <2>1, <2>4, <2>5, <2>6
  <1>13. VerdictFitsMessage'
    <2>1. at' = "done" => WellFormed /\ position = msg.header + msg.size /\ kind = "request" /\ received = position
      BY <1>5, <1>7, <1>9 DEF HttpType
    <2> QED
      BY <1>1, <1>10, <1>12, <2>1 DEF VerdictFitsMessage
  <1> QED
    BY <1>6, <1>8, <1>11, <1>13

\* close_notify: the end only where it is expected, and then of the whole message.
LEMMA ReadNothingStep == ASSUME HttpInv, ReadNothing PROVE HttpInv'
  <1> USE MessageFacts DEF HttpInv
  <1>1. /\ msg.notify /\ opened = Length(msg) /\ data = opened
        /\ at \notin Outcomes /\ at' = (IF at = "end" THEN "done" ELSE "refused") /\ until' = NotWaiting
        /\ UNCHANGED <<kind, msg, ends, sent, open, received, opened, data, now>>
    BY DEF ReadNothing, AtNotify, Reading, End, peer
  <1>2. HttpType' /\ StreamInv'
    BY <1>1 DEF HttpType, StreamInv, Outcomes
  <1>3. LoopInv'
    BY <1>1 DEF LoopInv
  <1>4. WellFormed' <=> WellFormed
    BY <1>1 DEF WellFormed
  <1>5. CASE at = "end"
    <2>1. WellFormed /\ kind = "response" /\ data = msg.header + msg.size
      BY <1>5 DEF LoopInv
    <2>2. msg.body = msg.size
      BY <1>1, <2>1
    <2>3. VerdictFitsMessage'
      BY <1>1, <1>4, <1>5, <2>1, <2>2 DEF VerdictFitsMessage
    <2> QED
      BY <1>2, <1>3, <2>3
  <1>6. CASE at # "end"
    <2>1. at \in {"header", "body"}
      BY <1>1, <1>6 DEF HttpType
    <2>2. msg.body # msg.size
      <3>1. CASE at = "header"
        BY <1>1, <3>1 DEF LoopInv, HttpType
      <3>2. CASE at = "body"
        BY <1>1, <3>2 DEF LoopInv, HttpType
      <3> QED
        BY <2>1, <3>1, <3>2
    <2>3. VerdictFitsMessage'
      BY <1>1, <1>6, <2>2 DEF VerdictFitsMessage
    <2> QED
      BY <1>2, <1>3, <2>3
  <1> QED
    BY <1>5, <1>6

\* Steps that change neither what was decrypted and read nor where the reader is.
LEMMA QuietStep ==
    ASSUME HttpInv, UNCHANGED <<kind, msg, ends, at, opened, data>>,
           sent' \in Nat, received' \in Nat, now' \in Nat, received <= received', received' <= sent',
           sent' <= Stream(msg), until' # NotWaiting => at \notin Outcomes,
           received' = received \/ at \notin Outcomes
    PROVE  HttpInv'
  <1> USE DEF HttpInv
  <1>1. HttpType'
    BY DEF HttpType
  <1>2. StreamInv'
    BY DEF StreamInv, HttpType
  <1>3. WellFormed' <=> WellFormed
    BY DEF WellFormed
  <1>4. LoopInv'
    BY <1>3 DEF LoopInv
  <1>5. VerdictFitsMessage'
    BY <1>3 DEF VerdictFitsMessage, Outcomes
  <1> QED
    BY <1>1, <1>2, <1>4, <1>5

\* The peer, the network and the clock.
LEMMA PeerStep == ASSUME HttpInv, Flush \/ CloseSocket \/ Tick \/ Wait PROVE HttpInv'
  <1>1. UNCHANGED <<kind, msg, ends, at, opened, data, received>>
    BY DEF Flush, CloseSocket, Tick, Wait, peer, reader
  <1>2. sent \in Nat /\ received \in Nat /\ now \in Nat /\ received <= sent /\ sent <= Stream(msg)
        /\ Stream(msg) \in Nat
    BY MessageFacts DEF HttpInv, HttpType, StreamInv
  <1>3. sent' \in Nat /\ sent <= sent' /\ sent' <= Stream(msg)
    BY <1>2 DEF Flush, CloseSocket, Tick, Wait, peer
  <1>4. now' \in Nat
    BY <1>2 DEF Flush, CloseSocket, Tick, Wait, peer
  <1>5. until' # NotWaiting => at \notin Outcomes
    BY DEF Flush, CloseSocket, Tick, Wait, peer, reader, Reading, HttpInv, LoopInv
  <1> QED
    BY <1>1, <1>2, <1>3, <1>4, <1>5, QuietStep

\* recv: some of what the network has, or the end of the connection.
LEMMA ReceiveStep == ASSUME HttpInv, Receive PROVE HttpInv'
  <1>1. at \notin Outcomes
    BY DEF Receive, Waiting, HttpInv, LoopInv
  <1>2. CASE End(IF InTime THEN "broken" ELSE "late")
    BY <1>2, EndStep
  <1>3. ASSUME NEW k \in 1..(sent - received), received' = received + k,
               at' = (IF ~InTime THEN "late" ELSE IF received + k > NetLimit THEN "broken" ELSE at),
               until' = NotWaiting, UNCHANGED <<peer, opened, data, now>>
        PROVE  HttpInv'
    <2>1. UNCHANGED <<kind, msg, ends, sent, opened, data, now>>
      BY <1>3 DEF peer
    <2>2. /\ sent \in Nat /\ received \in Nat /\ now \in Nat /\ sent <= Stream(msg) /\ opened <= received
          /\ opened \in Nat
      BY DEF HttpInv, HttpType, StreamInv
    <2>3. received' \in Nat /\ received <= received' /\ received' <= sent'
      BY <1>3, <2>1, <2>2
    <2>4. CASE at' = at
      BY <1>1, <1>3, <2>1, <2>2, <2>3, <2>4, QuietStep
    <2>5. CASE at' \in {"late", "broken"}
      <3>1. HttpType'
        BY <2>1, <2>3, <2>5 DEF HttpInv, HttpType, Outcomes
      <3>2. StreamInv'
        BY <2>1, <2>2, <2>3 DEF HttpInv, StreamInv
      <3>3. LoopInv' /\ VerdictFitsMessage'
        BY <1>3, <2>5 DEF LoopInv, VerdictFitsMessage
      <3> QED
        BY <3>1, <3>2, <3>3 DEF HttpInv
    <2> QED
      BY <1>3, <2>4, <2>5
  <1> QED
    BY <1>2, <1>3 DEF Receive

\* Every step of the peer, the clock and the reader keeps the invariant.
LEMMA HttpKept == ASSUME HttpInv, [HttpNext]_allvars PROVE HttpInv'
  <1>1. CASE Flush \/ CloseSocket \/ Tick \/ Wait
    BY <1>1, PeerStep
  <1>2. CASE ReadPart
    BY <1>2, ReadPartStep
  <1>3. CASE ReadNothing
    BY <1>3, ReadNothingStep
  <1>4. CASE Receive
    BY <1>4, ReceiveStep
  <1>5. CASE ReceiveTimeout
    <2>1. at \notin Outcomes /\ End(IF InTime THEN at ELSE "late")
      BY <1>5 DEF ReceiveTimeout, Waiting, HttpInv, LoopInv
    <2> QED
      BY <2>1, EndStep, AgainStep
  <1>6. CASE Late \/ Stop
    BY <1>6, EndStep DEF Late, Stop
  <1>7. CASE UNCHANGED allvars
    <2>1. UNCHANGED <<kind, msg, ends, sent, at, opened, data, received, now, until>>
      BY <1>7 DEF allvars, peer, reader
    <2>2. sent \in Nat /\ received \in Nat /\ now \in Nat /\ received <= sent /\ sent <= Stream(msg)
      BY DEF HttpInv, HttpType, StreamInv
    <2> QED
      BY <2>1, <2>2, QuietStep DEF HttpInv, LoopInv
  <1> QED
    BY <1>1, <1>2, <1>3, <1>4, <1>5, <1>6, <1>7 DEF HttpNext, Read

\* The verdict of read_http is about the message, for all limits, messages and cuts.
THEOREM VerdictIsOfTheMessage == HttpSpec => []VerdictFitsMessage
  <1>1. HttpInit => HttpInv
    BY HttpStarts
  <1>2. HttpInv /\ [HttpNext]_allvars => HttpInv'
    BY HttpKept
  <1>3. HttpInv => VerdictFitsMessage
    BY DEF HttpInv
  <1> QED
    BY <1>1, <1>2, <1>3, PTL DEF HttpSpec

=============================================================================
