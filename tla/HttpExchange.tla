---------------------------- MODULE HttpExchange ----------------------------
(***************************************************************************)
(* How one end of a protected connection reads the other's one message:    *)
(* _TLS and read_http of live_proxy_client.py, which the client uses for   *)
(* the response and the proxy server for the request.  The stream arrives  *)
(* in pieces that have nothing to do with the message: TLS records cut it  *)
(* one way, the network another, and the read sizes a third.               *)
(*                                                                         *)
(* TCP and TLS keep the order, so a position in the stream stands for all  *)
(* that precedes it.  The peer is authenticated but not trusted: its       *)
(* message may be too long, too short, malformed or cut off.               *)
(***************************************************************************)
EXTENDS Integers, FiniteSets, FiniteSetsExt

CONSTANTS
  HeaderLimit,  \* 16384 bytes
  HeaderChunk,  \* 4096 bytes
  BodyLimit,    \* 4 MiB of a response, 16 KiB of a request
  NetLimit,     \* 8 MiB in all
  HeaderTime,   \* 10 s for the header
  Deadline,     \* the absolute deadline of the session
  Poll,         \* 2 s at most in one recv
  MaxTime       \* bound: the clock

ASSUME LimitAssumption ==
  /\ {HeaderLimit, HeaderChunk, BodyLimit, NetLimit} \subseteq Nat \ {0}
  /\ NetLimit > HeaderLimit + BodyLimit
ASSUME ClockAssumption ==
  /\ {HeaderTime, Deadline, Poll} \subseteq Nat \ {0}
  /\ MaxTime \in Nat /\ MaxTime >= Deadline

VARIABLES
  kind,      \* what is read: "request" or "response"
  msg,       \* what the peer writes: see Messages
  ends,      \* positions at which a TLS record ends
  sent,      \* position up to which the peer's socket took the stream
  open,      \* the peer has not closed its socket
  at,        \* "header", "body", "end", or the outcome
  received,  \* position up to which the input BIO was filled (network_bytes)
  opened,    \* position up to which records were decrypted
  data,      \* position up to which plaintext was returned
  until,     \* when the recv under way times out, or NotWaiting
  now        \* the monotonic clock

peer == <<kind, msg, ends, sent, open>>
reader == <<at, received, opened, data, until>>
allvars == <<peer, reader, now>>

NotWaiting == -1
Outcomes == {"done", "refused", "broken", "late", "stopped"}

\* The header takes `header' units, the last of which is the empty line, and
\* names `size', or 0 if parse_headers refuses it for any other reason; `body'
\* units follow and then close_notify or nothing.
Messages == [header : 1..(HeaderLimit + 1), size : 0..(BodyLimit + 1), body : 0..(BodyLimit + 1),
             notify : BOOLEAN]

Length(m) == m.header + m.body
Stream(m) == Length(m) + IF m.notify THEN 1 ELSE 0

HttpInit ==
  /\ kind \in {"request", "response"}
  /\ msg \in Messages
  /\ ends \in {e \in SUBSET (1..Stream(msg)) : {Length(msg), Stream(msg)} \subseteq e}
  /\ sent = 0 /\ open = TRUE
  /\ at = "header"
  /\ received = 0 /\ opened = 0 /\ data = 0
  /\ until = NotWaiting
  /\ now = 0

-----------------------------------------------------------------------------
(* The peer: write, flush, notify_close, and its owner's close; it matters   *)
(* as long as the reader reads.                                              *)

\* flush: the socket takes some of what is left, never anything twice.
Flush ==
  /\ open /\ at \notin Outcomes
  /\ sent' \in (sent + 1)..Stream(msg)
  /\ UNCHANGED <<kind, msg, ends, open, reader, now>>

\* The message is out, a send raised, or the process died.
CloseSocket ==
  /\ open /\ at \notin Outcomes
  /\ open' = FALSE
  /\ UNCHANGED <<kind, msg, ends, sent, reader, now>>

-----------------------------------------------------------------------------
(* The reader *)

\* Mutant of Budget: the ten seconds begin anew with every read.
BudgetRenewed == IF at = "header" THEN now + HeaderTime ELSE Deadline

\* The header has a budget of its own, fixed when reading begins.
Budget == IF at = "header" THEN Min({Deadline, HeaderTime}) ELSE Deadline

InTime == now < Budget

End(outcome) ==
  /\ at' = outcome
  /\ until' = NotWaiting
  /\ UNCHANGED <<peer, received, opened, data, now>>

Reading == at \notin Outcomes /\ until = NotWaiting

\* check: the clock, wherever it is called.
Late ==
  /\ Reading /\ ~InTime
  /\ End("late")

\* check: the retained transport and its policy refuse.
Stop ==
  /\ Reading
  /\ End("stopped")

\* The next record is complete in the BIO; ssl.read has something to return.
NextRecord == Min({e \in ends : e > opened})
Readable == \/ data < opened
            \/ \E e \in ends : opened < e /\ e <= received

\* The close_notify is next.
AtNotify == msg.notify /\ opened = Length(msg) /\ data = opened

\* How many units ssl.read returns: at most `maximum' of one record.
Returned(maximum) ==
  LET last == IF data < opened THEN opened ELSE NextRecord
  IN  Min({maximum, last - data})

ReadSize ==
  CASE at = "header" -> Min({HeaderChunk, HeaderLimit - data})
    [] at = "body" -> msg.size + 1 - (data - msg.header)
    [] at = "end" -> 1

\* Everything the declared size covers has been read: nothing else may have
\* been decrypted or, in a request, received.
AfterBody(position, record) ==
  IF record # position THEN "refused"
  ELSE IF kind = "response" THEN "end"
  ELSE IF received # record THEN "refused" ELSE "done"

\* read_http, after a part that ends at `position'.
AfterPart(position, record) ==
  IF at = "end" THEN "refused"
  ELSE IF position < msg.header
       THEN IF position < HeaderLimit THEN "header" ELSE "refused"
  ELSE IF at = "header" /\ msg.size \notin 1..BodyLimit THEN "refused"
  ELSE IF position - msg.header > msg.size THEN "refused"
  ELSE IF position - msg.header < msg.size THEN "body"
  ELSE AfterBody(position, record)

\* call(ssl.read): a part of the plaintext ...
ReadPart ==
  /\ Reading /\ InTime /\ Readable /\ ~AtNotify
  /\ LET position == data + Returned(ReadSize)
         record == IF data < opened THEN opened ELSE NextRecord
     IN  /\ data' = position
         /\ opened' = record
         /\ at' = AfterPart(position, record)
  /\ UNCHANGED <<peer, received, until, now>>

\* ... or nothing, after close_notify: the end only if it was expected.
ReadNothing ==
  /\ Reading /\ InTime /\ Readable /\ AtNotify
  /\ End(IF at = "end" THEN "done" ELSE "refused")

\* SSLWantReadError: recv with a timeout that never exceeds the budget.
Wait ==
  /\ Reading /\ InTime /\ ~Readable
  /\ until' = Min({now + Poll, Budget})
  /\ UNCHANGED <<peer, at, received, opened, data, now>>

Waiting == until # NotWaiting

\* Mutant of Receive: the end of the connection ends the message.
ReceiveTrusting ==
  /\ Waiting
  /\ \/ \E k \in 1..(sent - received) :
          /\ received' = received + k
          /\ at' = IF ~InTime THEN "late"
                   ELSE IF received + k > NetLimit THEN "broken" ELSE at
          /\ until' = NotWaiting
          /\ UNCHANGED <<peer, opened, data, now>>
     \/ /\ sent = received /\ ~open
        /\ End(IF ~InTime THEN "late" ELSE IF at = "end" THEN "done" ELSE "broken")

\* recv returned data, of which the total is capped, or nothing at all: the
\* connection ended without close_notify.
Receive ==
  /\ Waiting
  /\ \/ \E k \in 1..(sent - received) :
          /\ received' = received + k
          /\ at' = IF ~InTime THEN "late"
                   ELSE IF received + k > NetLimit THEN "broken" ELSE at
          /\ until' = NotWaiting
          /\ UNCHANGED <<peer, opened, data, now>>
     \/ /\ sent = received /\ ~open
        /\ End(IF InTime THEN "broken" ELSE "late")

\* TimeoutError of recv alone asks again, on the same stream and budget.
ReceiveTimeout ==
  /\ Waiting
  /\ now >= until
  /\ End(IF InTime THEN at ELSE "late")

Tick ==
  /\ now < MaxTime /\ at \notin Outcomes
  /\ now' = now + 1
  /\ UNCHANGED <<peer, reader>>

Read == Late \/ ReadPart \/ ReadNothing \/ Wait \/ Receive \/ ReceiveTimeout

HttpNext == Flush \/ CloseSocket \/ Read \/ Stop \/ Tick

HttpSpec == HttpInit /\ [][HttpNext]_allvars

\* The reading thread runs and time passes; nothing is asked of the peer.
FairSpec == HttpSpec /\ WF_allvars(Read) /\ WF_allvars(Tick)

-----------------------------------------------------------------------------
WellFormed == msg.header <= HeaderLimit /\ msg.size \in 1..BodyLimit

\* The verdict is about the message and not about how it was cut: what is
\* returned is the whole declared body and all that has arrived by then, for a
\* response also all that the peer said, closed by it; and a message that is
\* exactly that is never refused, wherever records, network and read sizes cut it.
VerdictFitsMessage ==
  /\ at = "done" =>
       /\ WellFormed
       /\ data = msg.header + msg.size
       /\ IF kind = "request" THEN received = data
                               ELSE msg.body = msg.size /\ msg.notify
  /\ at = "refused" =>
       ~(WellFormed /\ msg.body = msg.size /\ (msg.notify <=> kind = "response"))

\* Reading ends, whatever the peer does or does not do: neither timeouts of
\* recv nor a trickle of data extends the budget.
ReaderEnds == <>(at \in Outcomes)
=============================================================================
