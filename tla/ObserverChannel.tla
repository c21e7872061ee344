-------------------------- MODULE ObserverChannel ---------------------------
(***************************************************************************)
(* The policy observer channel of the proxy server (live_proxy_server.py,  *)
(* _Observer, and validate_messages of live_mutation_admission.py).        *)
(*                                                                         *)
(* The server keeps one connection to an observer process.  An observation *)
(* is a request with a fresh challenge and the digest of the previous      *)
(* observation, sent at most once, and an answer that must name that       *)
(* request and the same boot and policy generation as the one before.      *)
(*                                                                         *)
(* The observer is external: it answers any request it has received with   *)
(* what it sees at that moment, late, and more than once; it may start     *)
(* over on the same socket, and then counts generations from one again.    *)
(* A digest is the challenge of the observation it was taken of: challenges*)
(* never repeat.  Clocks and deadlines are the choice to raise anywhere.   *)
(***************************************************************************)
EXTENDS Naturals, Sequences, FiniteSets

CONSTANTS MaxObserve,  \* bound on the calls of observe()
          MaxChanges,  \* bound on policy changes and observer restarts
          MaxSurplus,  \* bound on the answers sent and not accepted
          MaxBacklog   \* bound on how many requests back an answer may be for

ASSUME ObserverAssumption ==
    MaxObserve \in Nat /\ MaxChanges \in Nat /\ MaxSurplus \in Nat /\ MaxBacklog \in Nat

ZERO == 0

Resources == {"sock", "pidfd", "inspection"}

VARIABLES
    version,    \* history: the true version of the cluster's policy
    matches,    \* that policy agrees with the signed binding, quota included
    boot, gen,  \* observerBootId and generation the observer would report
    alive,      \* the observer process has not exited
    changes,    \* policy changes and restarts so far
    seen,       \* requests the observer has received
    inbox,      \* answers waiting in the socket
    replies,    \* answers sent so far
    stage,      \* "new", "sock", "pidfd", "idle", "asked", "closing", "over"
    failed,     \* self.failed
    previous,   \* history of the channel: the last accepted observation
    request,    \* the request of the call in progress
    sent,       \* requests sent, in order
    accepted,   \* observations returned to the server, in order
    asked,      \* history: the policy version when the request was sent
    open,       \* resources held
    cleanup     \* self.cleanup_failure is set

observer == <<version, matches, boot, gen, alive, changes>>
wire == <<seen, inbox, replies>>
channel == <<stage, failed, previous, request, sent, accepted, asked>>
custody == <<open, cleanup>>
vars == <<observer, wire, channel, custody>>

NoRequest == [seq |-> 0, challenge |-> 0, previous |-> 0]
NoObservation == [seq |-> 0, challenge |-> ZERO, previous |-> 0, boot |-> 0,
                  gen |-> 0, matches |-> FALSE, version |-> 0]

Init ==
    /\ version = 1 /\ matches \in BOOLEAN /\ boot = 1 /\ gen = 1 /\ alive = TRUE
    /\ changes = 0
    /\ seen = {} /\ inbox = <<>> /\ replies = 0
    /\ stage = "new" /\ failed = FALSE /\ previous = NoObservation
    /\ request = NoRequest /\ sent = <<>> /\ accepted = <<>> /\ asked = 0
    /\ open = {} /\ cleanup = FALSE

-----------------------------------------------------------------------------
(* The observer and the cluster.                                           *)

Change == stage # "over" /\ changes < MaxChanges /\ changes' = changes + 1

PolicyChange ==
    /\ Change
    /\ version' = version + 1 /\ gen' = gen + 1
    /\ matches' \in BOOLEAN
    /\ UNCHANGED <<boot, alive, wire, channel, custody>>

ObserverRestart ==
    /\ Change
    /\ boot' = boot + 1 /\ gen' = 1
    /\ UNCHANGED <<version, matches, alive, wire, channel, custody>>

ObserverExit ==
    /\ Change /\ alive
    /\ alive' = FALSE
    /\ UNCHANGED <<version, matches, boot, gen, wire, channel, custody>>

Reply ==
    /\ alive /\ replies < Len(accepted) + MaxSurplus /\ stage # "over"
    /\ \E q \in {r \in seen : r.challenge > Len(sent) - MaxBacklog} :
         inbox' = Append(inbox, [seq |-> q.seq, challenge |-> q.challenge,
                                 previous |-> q.previous, boot |-> boot, gen |-> gen,
                                 matches |-> matches, version |-> version])
    /\ replies' = replies + 1
    /\ UNCHANGED <<observer, seen, channel, custody>>

-----------------------------------------------------------------------------
(* Connecting.  A resource is retained before anything after it can raise. *)

Acquire(from, r, to) ==
    /\ stage = from
    /\ open' = open \cup {r}
    /\ stage' = to
    /\ UNCHANGED <<observer, wire, failed, previous, request, sent, accepted, asked, cleanup>>

ConnectSocket == alive /\ Acquire("new", "sock", "sock")
OpenPidfd     == alive /\ Acquire("sock", "pidfd", "pidfd")
OpenInspection == alive /\ Acquire("pidfd", "inspection", "idle")

\* The inspection was registered, then its constructor raised.
InspectionRefuses ==
    /\ stage = "pidfd"
    /\ open' = open \cup {"inspection"}
    /\ stage' = "closing" /\ failed' = TRUE
    /\ UNCHANGED <<observer, wire, previous, request, sent, accepted, asked, cleanup>>

\* The constructor raises: it closes what it acquired.
ConnectFails ==
    /\ stage \in {"new", "sock", "pidfd"}
    /\ stage' = "closing" /\ failed' = TRUE
    /\ UNCHANGED <<observer, wire, previous, request, sent, accepted, asked, custody>>

-----------------------------------------------------------------------------
(* observe().                                                              *)

NextRequest == [seq |-> previous.seq + 1, challenge |-> Len(sent) + 1,
                previous |-> previous.challenge]

Send ==
    /\ stage = "idle" /\ ~failed /\ alive /\ Len(sent) < MaxObserve
    /\ request' = NextRequest
    /\ sent' = Append(sent, NextRequest)
    /\ seen' = seen \cup {NextRequest}
    /\ asked' = version
    /\ stage' = "asked"
    /\ UNCHANGED <<observer, inbox, replies, failed, previous, accepted, custody>>

\* _phase: an exception marks the channel failed; the server then closes it.
PhaseFails == stage' = "idle" /\ failed' = TRUE

\* The send is ambiguous or the wait times out: the request may have gone.
ObserveFails ==
    /\ stage = "asked"
    /\ PhaseFails
    /\ UNCHANGED <<observer, wire, previous, request, sent, accepted, asked, custody>>

\* check(), and the checks of the peer before the send: nothing has gone yet.
PeerCheckFails ==
    /\ stage = "idle" /\ ~failed
    /\ PhaseFails
    /\ UNCHANGED <<observer, wire, previous, request, sent, accepted, asked, custody>>

\* As if the answer were not compared with the request.
AnswersAnything(r) == TRUE

\* "response substitution"
Answers(r) ==
    /\ r.seq = request.seq
    /\ r.challenge = request.challenge
    /\ r.previous = request.previous

\* As if the boot of the observer were not compared.
SameGeneration(r) == previous = NoObservation \/ r.gen = previous.gen

\* "restart, drift or reused challenge"
Continues(r) ==
    \/ previous = NoObservation
    \/ r.boot = previous.boot /\ r.gen = previous.gen /\ r.challenge # previous.challenge

Valid(r) == Answers(r) /\ Continues(r) /\ r.matches

Accept ==
    /\ stage = "asked" /\ inbox # <<>> /\ alive
    /\ LET r == Head(inbox)
       IN /\ Valid(r)
          /\ previous' = r
          /\ accepted' = Append(accepted, r)
    /\ inbox' = Tail(inbox)
    /\ stage' = "idle"
    /\ UNCHANGED <<observer, seen, replies, failed, request, sent, asked, custody>>

\* The history keeps the last observation that was valid.
Reject ==
    /\ stage = "asked" /\ inbox # <<>>
    /\ ~Valid(Head(inbox)) \/ ~alive
    /\ inbox' = Tail(inbox)
    /\ PhaseFails
    /\ UNCHANGED <<observer, seen, replies, previous, request, sent, accepted, asked, custody>>

-----------------------------------------------------------------------------
\* close(): the inspection, the pidfd, the socket; each is tried once, and a
\* failure of any of them is kept for whoever closes the channel.
Close ==
    /\ stage \in {"idle", "closing"}
    /\ open' = {}
    /\ cleanup' \in IF open = {} THEN {FALSE} ELSE BOOLEAN
    /\ stage' = "over"
    /\ UNCHANGED <<observer, wire, failed, previous, request, sent, accepted, asked>>

Done == stage = "over" /\ UNCHANGED vars

Environment == PolicyChange \/ ObserverRestart \/ ObserverExit \/ Reply

Channel ==
    \/ ConnectSocket \/ OpenPidfd \/ OpenInspection \/ InspectionRefuses \/ ConnectFails
    \/ Send \/ ObserveFails \/ PeerCheckFails \/ Accept \/ Reject
    \/ Close

Next == Environment \/ Channel \/ Done

Spec == Init /\ [][Next]_vars

-----------------------------------------------------------------------------
(* Properties.                                                             *)

\* What observe() returns was true of the cluster at some moment between this
\* request and its answer: an answer to an earlier request, delayed or
\* repeated by the observer, is never taken for the present one.  And no
\* request is repeated: after an ambiguous send, a timeout or a wrong answer
\* the same place in the chain is not asked for again.
FreshView ==
    [][/\ accepted' # accepted => accepted'[Len(accepted')].version \in asked..version
       /\ sent' # sent => \A i \in 1..Len(sent) : sent[i].seq # sent'[Len(sent')].seq]_vars

\* All observations of a run are of one and the same version of the policy,
\* which agrees with the signed binding: no change between the first and the
\* last goes unnoticed, not even behind a restart of the observer that makes
\* its generation numbers repeat.
OneVersion ==
    \A i, j \in 1..Len(accepted) :
        accepted[i].version = accepted[j].version /\ accepted[i].matches
=============================================================================
