------------------------- MODULE BrokerGuardsProofs -------------------------
(***************************************************************************)
(* Proofs about BrokerGuards over ObserverChannel, for every bound.        *)
(*                                                                         *)
(* The channel.  An answer carries what the observer saw when it answered, *)
(* so (boot, generation) only moves forward, lexicographically, and under  *)
(* one boot the generation and the version of the policy move together.    *)
(* Accepting only answers with the boot and generation of the previous one *)
(* then means accepting only one version.                                  *)
(*                                                                         *)
(* The broker.  In every program an effect is followed by a whole check:   *)
(* base, ledger, peer, observation.  An effect in a world that has left    *)
(* the pin leaves a program that is doomed: whichever comparison will meet *)
(* the reason is still ahead, and the world does not come back.  A doomed  *)
(* program never ends, so it publishes nothing, and never reaches another  *)
(* effect.                                                                 *)
(***************************************************************************)
EXTENDS BrokerGuards, TLAPS

\* What an answer of the observer, and a request to it, may hold.
Observations == [seq : Nat, challenge : Nat, previous : Nat, boot : Nat, gen : Nat,
                 matches : BOOLEAN, version : Nat]
Requests == [seq : Nat, challenge : Nat, previous : Nat]

\* The types of the channel's state; the flags apart, for they need another prover.
ChannelFlags == matches \in BOOLEAN /\ alive \in BOOLEAN /\ failed \in BOOLEAN

ChannelType ==
    /\ version \in Nat /\ boot \in Nat /\ gen \in Nat /\ asked \in Nat
    /\ boot > 0 /\ version > 0
    /\ seen \in SUBSET Requests
    /\ inbox \in Seq(Observations) /\ accepted \in Seq(Observations)
    /\ sent \in Seq(Requests) /\ request \in Requests
    /\ previous \in Observations
    /\ stage \in {"new", "sock", "pidfd", "idle", "asked", "closing", "over"}

\* Requests are numbered by their challenges; the chain has one open place.
ChainInv ==
    /\ \A q \in seen : q.challenge <= Len(sent)
    /\ stage = "asked" => ~failed /\ request.challenge = Len(sent) /\ request.seq = previous.seq + 1
    /\ ~failed => \A i \in 1..Len(sent) :
                    sent[i].seq <= (IF stage = "asked" THEN previous.seq + 1 ELSE previous.seq)

\* What an observation in the socket can say.
Honest(r) ==
    /\ r.challenge <= Len(sent)
    /\ r.version > 0 /\ r.version <= version
    /\ r.boot > 0
    /\ r.boot < boot \/ (r.boot = boot /\ r.gen <= gen)
    /\ r.boot = boot => r.version + gen = version + r.gen

\* Two answers under one boot: as many generations apart as versions.
SamePast(r, s) == r.boot = s.boot => r.version + s.gen = s.version + r.gen

\* The answers in the socket: what is there for the open request was seen after it
\* was sent.
InboxInv ==
    /\ \A i \in 1..Len(inbox) :
         /\ Honest(inbox[i])
         /\ inbox[i].challenge = Len(sent) => inbox[i].version >= asked
    /\ asked <= version
    /\ \A i, j \in 1..Len(inbox) : SamePast(inbox[i], inbox[j])

\* The accepted observations are of the version of the last one.
AcceptedInv ==
    /\ accepted = <<>> => previous = NoObservation
    /\ accepted # <<>> => 
         /\ Honest(previous) /\ previous.matches
         /\ \A i \in 1..Len(inbox) : SamePast(inbox[i], previous)
    /\ \A i \in 1..Len(accepted) : accepted[i].version = previous.version /\ accepted[i].matches

ChannelInv == ChannelFlags /\ ChannelType /\ ChainInv /\ InboxInv /\ AcceptedInv

\* The effects of the programs but the rows, and all instructions.
Acts == {"send", "connect", "handshake", "post", "receive", "action", "closeapi", "retired"}
Instructions == Acts \cup {"row", "readback", "advance", "base", "ledger", "peer", "observe"}

\* A check begins at place k of a program, down to its observation.
CheckAt(s, k) ==
  k + 3 <= Len(s) /\ s[k] = "base" /\ s[k + 1] = "ledger" /\ s[k + 2] = "peer" /\ s[k + 3] = "observe"

\* A program in which every effect is followed by a check, and a row by its
\* readback and the advance of the history.
Guarded(s) ==
  \A i \in 1..Len(s) :
    /\ s[i] \in Acts \cup {"advance"} => CheckAt(s, i + 1)
    /\ s[i] = "row" => i + 1 <= Len(s) /\ s[i + 1] = "readback"
    /\ s[i] = "readback" => i + 1 <= Len(s) /\ s[i + 1] = "advance"
    /\ i + 1 <= Len(s) /\ s[i + 1] = "advance" => s[i] = "readback"

\* What is left of a check.
AtLedger(s) == 3 <= Len(s) /\ s[1] = "ledger" /\ s[2] = "peer" /\ s[3] = "observe"
AtPeer(s) == 2 <= Len(s) /\ s[1] = "peer" /\ s[2] = "observe"
AtObserve(s) == 1 <= Len(s) /\ s[1] = "observe"

\* The types of the broker's state.
BrokerFlags == broken \in BOOLEAN

Rows == {"RUNNING", "FOREIGN", "CREATE_INTENT", "CREATED"}

BrokerType ==
  /\ lost \in SUBSET {"base", "peer"}
  /\ ledger \in Seq(Rows)
  /\ hist \in Seq(Rows)
  /\ pin \in Nat \X Nat
  /\ phase \in Phases \cup {"none"}
  /\ prog \in Seq(Instructions)
  /\ published \in SUBSET Phases
  /\ tainted \in SUBSET Phases
  /\ late \in Nat

\* What is left of the program is guarded; while a phase waits for an answer, it
\* stands at the observation.
ProgramInv ==
  /\ Guarded(prog)
  /\ broken => phase = "none"
  /\ phase # "none" => phase \notin published
  /\ ~broken /\ (phase # "none" \/ published # {}) /\ stage = "asked" => phase # "none" /\ AtObserve(prog)

\* The pin is not ahead of the observer; until it is set, no check is complete and
\* nothing has been done.
PinInv ==
  /\ pin[1] < boot \/ (pin[1] = boot /\ pin[2] <= gen)
  /\ pin = NoPin => published = {} /\ tainted = {} /\ late = 0
  /\ pin = NoPin /\ phase # "none" => CheckAt(prog, 1) \/ AtLedger(prog) \/ AtPeer(prog) \/ AtObserve(prog)

\* Somebody else wrote to the ledger; a row of the phase is written and the history
\* not yet advanced.
Foreign == \E i \in 1..Len(ledger) : ledger[i] = "FOREIGN"
MidRow == phase # "none" /\ prog # <<>> /\ prog[1] \in {"readback", "advance"}
\* The ledger is the history, or one row ahead of it, or shows a foreign row.
LedgerInv ==
  /\ Len(ledger) > 0 
  /\ \A i \in 1..Len(ledger) : ledger[i] = "RUNNING" => i = 1
  /\ \A i \in 1..Len(hist) : hist[i] # "FOREIGN"
  /\ ~broken => \/ Foreign
                \/ ledger = hist /\ ~(phase # "none" /\ prog # <<>> /\ prog[1] = "advance")
                \/ MidRow /\ ledger = Append(hist, RowOf(phase))

\* The world, an answer, is beyond the pin.
Moved == pin[1] < boot \/ (pin[1] = boot /\ pin[2] < gen)
Beyond(r) == pin[1] < r.boot \/ (pin[1] = r.boot /\ pin[2] < r.gen)

\* A reason to refuse is there and the comparison that will meet it is still ahead.
Doomed ==
  \/ /\ (prog # <<>> /\ prog[1] \in {"readback", "advance"}) \/ CheckAt(prog, 1)
     /\ Moved \/ lost # {} \/ Foreign
  \/ AtLedger(prog) /\ (Moved \/ "peer" \in lost \/ Foreign)
  \/ AtPeer(prog) /\ (Moved \/ "peer" \in lost)
  \/ /\ AtObserve(prog) /\ Moved
     /\ stage = "asked" => \A i \in 1..Len(inbox) : inbox[i].challenge = Len(sent) => Beyond(inbox[i])

\* After an effect outside the pinned world: nothing of it is published, and the
\* program in progress is doomed.
TaintInv ==
  /\ published \cap tainted = {}
  /\ late <= 1
  /\ ~broken /\ (tainted # {} \/ late # 0) => phase # "none" /\ Doomed

\* The inductive invariant.
BrokerInv == BrokerFlags /\ BrokerType /\ ProgramInv /\ PinInv /\ LedgerInv /\ TaintInv
IInv == ChannelInv /\ BrokerInv

-----------------------------------------------------------------------------
(* Sequences: what Append and Tail do to an element-wise fact. *)

\* Append keeps the elements and adds one.
LEMMA AppendFacts ==
    ASSUME NEW S, NEW s \in Seq(S), NEW e \in S
    PROVE  /\ Append(s, e) \in Seq(S) /\ Len(Append(s, e)) = Len(s) + 1
           /\ Append(s, e)[Len(s) + 1] = e
           /\ \A i \in 1..Len(s) : Append(s, e)[i] = s[i]
           /\ Append(s, e) # <<>>
  OBVIOUS

\* Tail moves every element one place to the front.
LEMMA TailFacts ==
    ASSUME NEW S, NEW s \in Seq(S), s # <<>>
    PROVE  /\ Tail(s) \in Seq(S) /\ Len(s) \in Nat \ {0} /\ Len(Tail(s)) = Len(s) - 1
           /\ Head(s) = s[1] /\ Head(s) \in S
           /\ \A i \in 1..Len(Tail(s)) : Tail(s)[i] = s[i + 1]
  OBVIOUS

-----------------------------------------------------------------------------
(* The observer channel. *)

Stages == {"new", "sock", "pidfd", "idle", "asked", "closing", "over"}

\* Before the connection there is no request, no answer and no observation.
LEMMA ChannelInit == Init => ChannelInv
  <1> SUFFICES ASSUME Init PROVE ChannelInv
    OBVIOUS
  <1> USE DEF Init
  <1>1. ChannelFlags
    BY Zenon DEF ChannelFlags
  <1>2. NoObservation \in Observations
    <2>1. FALSE \in BOOLEAN
      BY Zenon
    <2> QED
      BY <2>1 DEF NoObservation, Observations, ZERO
  <1>3. ChannelType
    BY <1>2 DEF ChannelType, NoRequest, Requests
  <1>4. ChainInv /\ InboxInv /\ AcceptedInv
    BY DEF ChainInv, InboxInv, AcceptedInv
  <1> QED
    BY <1>1, <1>3, <1>4 DEF ChannelInv

\* A step that neither sends nor takes an answer (connecting, failing, closing).
LEMMA QuietStep ==
    ASSUME ChannelInv,
           UNCHANGED <<version, boot, gen, seen, inbox, previous, request, sent, accepted, asked>>,
           ChannelFlags', stage' \in Stages,
           \/ stage' = stage /\ failed' = failed
           \/ stage' # "asked" /\ failed'
           \/ stage' # "asked" /\ failed' = failed /\ stage # "asked"
    PROVE  ChannelInv'
  <1> USE DEF ChannelInv
  <1>1. ChannelType'
    BY DEF ChannelType, Stages
  <1>2. ChainInv'
    BY DEF ChainInv, ChannelType
  <1>3. InboxInv' /\ AcceptedInv'
    BY DEF InboxInv, AcceptedInv, Honest, SamePast
  <1> QED
    BY <1>1, <1>2, <1>3

\* The policy changes: version and generation move together.
LEMMA PolicyChangeStep == ASSUME ChannelInv, PolicyChange PROVE ChannelInv'
  <1> USE DEF ChannelInv, PolicyChange, wire, channel
  <1>1. ChannelFlags'
    BY Zenon DEF ChannelFlags
  <1>2. ChannelType' /\ ChainInv'
    BY DEF ChannelType, ChainInv
  <1>3. \A r \in Observations : Honest(r) => Honest(r)'
    <2>1. /\ version' = version + 1 /\ gen' = gen + 1 /\ boot' = boot /\ sent' = sent
          /\ version \in Nat /\ gen \in Nat /\ boot \in Nat
      BY DEF ChannelType
    <2> QED
      BY <2>1 DEF Honest, Observations
  <1>4. InboxInv'
    BY <1>3 DEF InboxInv, ChannelType, SamePast
  <1>5. AcceptedInv'
    BY <1>3 DEF AcceptedInv, ChannelType, SamePast
  <1> QED
    BY <1>1, <1>2, <1>4, <1>5

\* The observer starts over on the same socket: another boot, generation one.
LEMMA RestartStep == ASSUME ChannelInv, ObserverRestart PROVE ChannelInv'
  <1> USE DEF ChannelInv, ObserverRestart, wire, channel
  <1>1. ChannelFlags'
    BY Zenon DEF ChannelFlags
  <1>2. ChannelType' /\ ChainInv'
    BY DEF ChannelType, ChainInv
  <1>3. \A r \in Observations : Honest(r) => Honest(r)'
    <2>1. /\ version' = version /\ gen' = 1 /\ boot' = boot + 1 /\ sent' = sent
          /\ version \in Nat /\ gen \in Nat /\ boot \in Nat
      BY DEF ChannelType
    <2> QED
      BY <2>1 DEF Honest, Observations
  <1>4. InboxInv'
    BY <1>3 DEF InboxInv, ChannelType, SamePast
  <1>5. AcceptedInv'
    BY <1>3 DEF AcceptedInv, ChannelType, SamePast
  <1> QED
    BY <1>1, <1>2, <1>4, <1>5

\* An answer says what the observer sees when it answers.
LEMMA ReplyAnswer ==
    ASSUME ChannelInv, Reply
    PROVE  \E r \in Observations : /\ inbox' = Append(inbox, r) /\ r.challenge \in 0..Len(sent)
                                  /\ r.boot = boot /\ r.gen = gen /\ r.version = version
  <1> USE DEF ChannelInv
  <1>1. PICK q \in seen :
          inbox' = Append(inbox, [seq |-> q.seq, challenge |-> q.challenge,
                                  previous |-> q.previous, boot |-> boot, gen |-> gen,
                                  matches |-> matches, version |-> version])
    BY DEF Reply
  <1> DEFINE r == [seq |-> q.seq, challenge |-> q.challenge,
                   previous |-> q.previous, boot |-> boot, gen |-> gen,
                   matches |-> matches, version |-> version]
  <1>2. r \in Observations /\ r.challenge \in 0..Len(sent) /\ r.boot = boot /\ r.gen = gen
        /\ r.version = version
    <2>1. q \in Requests /\ q.challenge <= Len(sent) /\ Len(sent) \in Nat
      BY DEF ChannelType, ChainInv
    <2> QED
      BY <2>1 DEF ChannelType, Requests, Observations, ChannelFlags
  <1>3. inbox' = Append(inbox, r)
    BY <1>1
  <1> HIDE DEF r
  <1> QED
    BY <1>2, <1>3

\* The observer answers a request it has received, late or again.
LEMMA ReplyStep == ASSUME ChannelInv, Reply PROVE ChannelInv'
  <1> USE DEF ChannelInv
  <1>1. PICK r \in Observations :
          /\ inbox' = Append(inbox, r) /\ r.challenge \in 0..Len(sent)
          /\ r.boot = boot /\ r.gen = gen /\ r.version = version
    BY ReplyAnswer
  <1>2. UNCHANGED <<version, matches, boot, gen, alive, seen, stage, failed, previous, request,
                    sent, accepted, asked>>
    BY DEF Reply, observer, channel
  <1>3. r \in Observations /\ r.challenge \in 0..Len(sent) /\ r.boot = boot /\ r.gen = gen
        /\ r.version = version
    BY <1>1
  <1>4. inbox' = Append(inbox, r)
    BY <1>1
  <1>5. /\ inbox' \in Seq(Observations) /\ Len(inbox') = Len(inbox) + 1 /\ Len(inbox) \in Nat
        /\ inbox'[Len(inbox) + 1] = r
        /\ \A i \in 1..Len(inbox) : inbox'[i] = inbox[i]
    BY <1>3, <1>4, AppendFacts DEF ChannelType
  <1>6. ChannelFlags'
    BY <1>2, Zenon DEF ChannelFlags
  <1>7. ChannelType' /\ ChainInv'
    BY <1>2, <1>5 DEF ChannelType, ChainInv
  <1>8. Honest(r)
    BY <1>3 DEF Honest, ChannelType
  <1>9. \A i \in 1..Len(inbox) : inbox[i] \in Observations /\ Honest(inbox[i])
    BY DEF ChannelType, InboxInv
  <1>10. \A s \in Observations : Honest(s) => SamePast(r, s) /\ SamePast(s, r) /\ SamePast(r, r)
    BY <1>3 DEF Honest, SamePast, ChannelType, Observations
  <1>11. InboxInv'
    <2>1. ASSUME NEW i \in 1..Len(inbox')
          PROVE  Honest(inbox[i])' /\ (inbox'[i].challenge = Len(sent)' => inbox'[i].version >= asked')
      <3>1. Honest(inbox[i])' <=> Honest(inbox'[i])
        BY <1>2 DEF Honest
      <3>2. CASE i = Len(inbox) + 1
        BY <1>2, <1>3, <1>5, <1>8, <3>1, <3>2 DEF InboxInv, ChannelType
      <3>3. CASE i \in 1..Len(inbox)
        BY <1>2, <1>5, <1>9, <3>1, <3>3 DEF InboxInv
      <3> QED
        BY <1>5, <3>2, <3>3
    <2>2. ASSUME NEW i \in 1..Len(inbox'), NEW j \in 1..Len(inbox')
          PROVE  SamePast(inbox'[i], inbox'[j])
      <3>1. (i \in 1..Len(inbox) \/ i = Len(inbox) + 1) /\ (j \in 1..Len(inbox) \/ j = Len(inbox) + 1)
        BY <1>5
      <3>2. CASE i \in 1..Len(inbox) /\ j \in 1..Len(inbox)
        BY <1>5, <3>2 DEF InboxInv
      <3>3. CASE i = Len(inbox) + 1 /\ j \in 1..Len(inbox)
        BY <1>5, <3>3, <1>9, <1>10
      <3>4. CASE i \in 1..Len(inbox) /\ j = Len(inbox) + 1
        BY <1>5, <3>4, <1>9, <1>10
      <3>5. CASE i = Len(inbox) + 1 /\ j = Len(inbox) + 1
        BY <1>5, <3>5, <1>3, <1>8, <1>10
      <3> QED
        BY <3>1, <3>2, <3>3, <3>4, <3>5
    <2>3. asked' <= version'
      BY <1>2 DEF InboxInv
    <2> QED
      BY <2>1, <2>2, <2>3 DEF InboxInv, SamePast
  <1>12. AcceptedInv'
    <2>1. accepted # <<>> => Honest(previous) /\ SamePast(r, previous)
      BY <1>10 DEF AcceptedInv, ChannelType
    <2> QED
      BY <1>2, <1>5, <2>1 DEF AcceptedInv, Honest, SamePast
  <1> QED
    BY <1>6, <1>7, <1>11, <1>12

\* The requests sent so far are requests.
LEMMA SentTyped == ASSUME ChannelInv PROVE \A i \in 1..Len(sent) : sent[i].seq \in Nat
  <1>1. sent \in Seq(Requests)
    BY DEF ChannelInv, ChannelType
  <1>2. \A i \in 1..Len(sent) : sent[i] \in Requests
    BY <1>1
  <1> QED
    BY <1>2 DEF Requests

\* observe() sends a request with a fresh challenge: no answer to it is there yet.
LEMMA SendStep == ASSUME ChannelInv, Send PROVE ChannelInv'
  <1> USE DEF ChannelInv
  <1>1. UNCHANGED <<version, matches, boot, gen, alive, inbox, failed, previous, accepted>>
    BY DEF Send, observer
  <1>2. NextRequest \in Requests /\ NextRequest.challenge = Len(sent) + 1
        /\ NextRequest.seq = previous.seq + 1 /\ Len(sent) \in Nat /\ previous.seq \in Nat
    BY DEF NextRequest, Requests, ChannelType, Observations
  <1>3. /\ sent' = Append(sent, NextRequest) /\ request' = NextRequest
        /\ seen' = seen \cup {NextRequest} /\ asked' = version
        /\ stage = "idle" /\ ~failed /\ stage' = "asked"
    BY DEF Send
  <1>4. /\ sent' \in Seq(Requests) /\ Len(sent') = Len(sent) + 1
        /\ sent'[Len(sent) + 1] = NextRequest
        /\ \A i \in 1..Len(sent) : sent'[i] = sent[i]
    BY <1>2, <1>3, AppendFacts DEF ChannelType
  <1>5. ChannelFlags'
    BY <1>1, Zenon DEF ChannelFlags
  <1>6. ChannelType'
    BY <1>1, <1>2, <1>3, <1>4 DEF ChannelType
  <1>7. ChainInv'
    <2>1. \A q \in seen' : q.challenge <= Len(sent')
      BY <1>2, <1>3, <1>4 DEF ChainInv, ChannelType, Requests
    <2>2. \A i \in 1..Len(sent') : sent'[i].seq <= previous.seq + 1
      <3>1. \A i \in 1..Len(sent) : sent[i].seq <= previous.seq
        BY <1>3 DEF ChainInv
      <3>2. \A i \in 1..Len(sent) : sent[i].seq \in Nat
        BY SentTyped
      <3> QED
        BY <1>2, <1>4, <3>1, <3>2
    <2> QED
      BY <1>1, <1>2, <1>3, <1>4, <2>1, <2>2 DEF ChainInv
  <1>8. \A r \in Observations : Honest(r) => Honest(r)' /\ r.challenge # Len(sent')
    BY <1>1, <1>2, <1>4 DEF Honest, Observations
  <1>9. InboxInv'
    <2>1. \A i \in 1..Len(inbox) : inbox[i] \in Observations /\ Honest(inbox[i])
      BY DEF InboxInv, ChannelType
    <2>2. \A i \in 1..Len(inbox) : Honest(inbox[i])' /\ inbox[i].challenge # Len(sent')
      BY <1>1, <1>8, <2>1 DEF Honest
    <2> QED
      BY <1>1, <1>3, <2>2 DEF InboxInv, SamePast, ChannelType
  <1>10. AcceptedInv'
    BY <1>1, <1>8 DEF AcceptedInv, ChannelType, SamePast
  <1> QED
    BY <1>5, <1>6, <1>7, <1>9, <1>10

\* What is left of the socket after one answer was taken from it.
LEMMA InboxTail ==
    ASSUME ChannelInv, inbox # <<>>, inbox' = Tail(inbox)
    PROVE  /\ Head(inbox) = inbox[1] /\ inbox[1] \in Observations /\ Honest(inbox[1])
           /\ inbox' \in Seq(Observations) /\ Len(inbox) \in Nat \ {0}
           /\ Len(inbox') = Len(inbox) - 1
           /\ \A i \in 1..Len(inbox') : inbox'[i] = inbox[i + 1] /\ i + 1 \in 1..Len(inbox)
  <1>1. inbox \in Seq(Observations)
    BY DEF ChannelInv, ChannelType
  <1> QED
    BY <1>1, TailFacts DEF ChannelInv, InboxInv

\* observe() refuses an answer: it is gone and the channel has failed.
LEMMA RejectStep == ASSUME ChannelInv, Reject PROVE ChannelInv'
  <1> USE DEF ChannelInv
  <1>1. /\ UNCHANGED <<version, matches, boot, gen, alive, seen, previous, request, sent, accepted, asked>>
        /\ inbox # <<>> /\ inbox' = Tail(inbox) /\ stage' = "idle" /\ failed'
    BY DEF Reject, PhaseFails, observer
  <1>2. /\ inbox' \in Seq(Observations)
        /\ \A i \in 1..Len(inbox') : inbox'[i] = inbox[i + 1] /\ i + 1 \in 1..Len(inbox)
    BY <1>1, InboxTail
  <1>3. ChannelFlags'
    BY Zenon DEF ChannelFlags, Reject, PhaseFails, observer
  <1>4. ChannelType' /\ ChainInv'
    BY <1>1, <1>2 DEF ChannelType, ChainInv
  <1>5. InboxInv'
    BY <1>1, <1>2 DEF InboxInv, Honest, SamePast
  <1>6. AcceptedInv'
    BY <1>1, <1>2 DEF AcceptedInv, Honest, SamePast
  <1> QED
    BY <1>3, <1>4, <1>5, <1>6

\* observe() accepts an answer with the boot and generation of the previous one:
\* under one boot the same generation is the same version.
LEMMA AcceptStep == ASSUME ChannelInv, Accept PROVE ChannelInv'
  <1> USE DEF ChannelInv
  <1>0. PICK r : r = inbox[1]
    OBVIOUS
  <1>1. /\ UNCHANGED <<version, matches, boot, gen, alive, seen, failed, request, sent, asked>>
        /\ stage = "asked" /\ inbox # <<>> /\ inbox' = Tail(inbox) /\ stage' = "idle"
    BY DEF Accept, observer
  <1>2. /\ Head(inbox) = r /\ r \in Observations /\ Honest(r)
        /\ inbox' \in Seq(Observations) /\ Len(inbox) \in Nat \ {0}
        /\ \A i \in 1..Len(inbox') : inbox'[i] = inbox[i + 1] /\ i + 1 \in 1..Len(inbox)
    BY <1>0, <1>1, InboxTail
  <1>3. previous' = r /\ accepted' = Append(accepted, r)
        /\ r.seq = request.seq /\ r.matches
        /\ (previous = NoObservation \/ (r.boot = previous.boot /\ r.gen = previous.gen))
    BY <1>2 DEF Accept, Valid, Answers, Continues
  <1>4. /\ accepted' \in Seq(Observations) /\ Len(accepted') = Len(accepted) + 1
        /\ Len(accepted) \in Nat /\ accepted'[Len(accepted) + 1] = r /\ accepted' # <<>>
        /\ \A i \in 1..Len(accepted) : accepted'[i] = accepted[i]
    BY <1>2, <1>3, AppendFacts DEF ChannelType
  <1>5. ChannelFlags'
    BY <1>1, Zenon DEF ChannelFlags
  <1>6. ChannelType'
    BY <1>1, <1>2, <1>3, <1>4 DEF ChannelType
  <1>7. ChainInv'
    BY <1>1, <1>3 DEF ChainInv, ChannelType
  <1>8. InboxInv'
    BY <1>1, <1>2 DEF InboxInv, Honest, SamePast
  <1>9. AcceptedInv'
    <2>1. \A i \in 1..Len(inbox') : SamePast(inbox'[i], r)
      BY <1>0, <1>2 DEF InboxInv
    <2>2. Honest(r)' /\ Honest(previous)'
      BY <1>1, <1>2, <1>3 DEF Honest
    <2>3. accepted # <<>> => r.version = previous.version
      <3>1. SUFFICES ASSUME accepted # <<>> PROVE r.version = previous.version
        OBVIOUS
      <3>2. previous.version > 0 /\ SamePast(r, previous)
        BY <1>0, <3>1, <1>2 DEF AcceptedInv, Honest
      <3>3. previous # NoObservation
        BY <3>2 DEF NoObservation
      <3>4. r.boot = previous.boot /\ r.gen = previous.gen
        BY <3>3, <1>3
      <3> QED
        BY <3>2, <3>4, <1>2 DEF SamePast, ChannelType, Observations
    <2>4. \A i \in 1..Len(accepted') : accepted'[i].version = r.version /\ accepted'[i].matches
      <3>1. SUFFICES ASSUME NEW i \in 1..Len(accepted')
                     PROVE  accepted'[i].version = r.version /\ accepted'[i].matches
        OBVIOUS
      <3>2. CASE i = Len(accepted) + 1
        BY <3>2, <1>3, <1>4
      <3>3. CASE i \in 1..Len(accepted)
        <4>1. accepted # <<>>
          BY <3>3
        <4> QED
          BY <3>3, <4>1, <2>3, <1>4 DEF AcceptedInv
      <3> QED
        BY <3>2, <3>3, <1>4
    <2> QED
      BY <1>3, <1>4, <2>1, <2>2, <2>4 DEF AcceptedInv, SamePast
  <1> QED
    BY <1>5, <1>6, <1>7, <1>8, <1>9

\* A step of the channel, or one that leaves it alone.
ChannelStep == Next \/ UNCHANGED <<version, matches, boot, gen, alive, wire, channel, custody>>

\* The channel's part of the invariant is kept by every step of the channel.
LEMMA ChannelNext == ASSUME ChannelInv, ChannelStep PROVE ChannelInv'
  <1>1. CASE PolicyChange \/ ObserverRestart \/ Reply \/ Send \/ Accept \/ Reject
    BY <1>1, PolicyChangeStep, RestartStep, ReplyStep, SendStep, AcceptStep, RejectStep
  <1>2. CASE UNCHANGED <<version, matches, boot, gen, alive, wire, channel, custody>> \/ Done
    <2>1. UNCHANGED <<version, matches, boot, gen, alive, wire, channel>>
      BY <1>2 DEF Done, vars, observer
    <2>2. ChannelFlags'
      BY <2>1, Zenon DEF ChannelInv, ChannelFlags, channel
    <2> QED
      BY <2>1, <2>2, QuietStep DEF wire, channel, ChannelInv, ChannelType, Stages
  <1>3. CASE ObserverExit
    <2>1. ChannelFlags'
      BY <1>3, Zenon DEF ObserverExit, ChannelInv, ChannelFlags, channel
    <2> QED
      BY <1>3, <2>1, QuietStep DEF ObserverExit, wire, channel, ChannelInv,
         ChannelType, Stages
  <1>4. CASE ConnectSocket \/ OpenPidfd \/ OpenInspection \/ Close
    <2>1. ChannelFlags'
      BY <1>4, Zenon DEF ConnectSocket, OpenPidfd, OpenInspection, Acquire, Close,
                         ChannelInv, ChannelFlags, observer
    <2>2. /\ UNCHANGED <<observer, wire, failed, previous, request, sent, accepted, asked>>
          /\ stage' \in Stages \ {"asked"} /\ stage # "asked"
      BY <1>4 DEF ConnectSocket, OpenPidfd, OpenInspection, Acquire, Close, Stages
    <2> QED
      BY <2>1, <2>2, QuietStep DEF observer, wire
  <1>5. CASE InspectionRefuses \/ ConnectFails \/ ObserveFails \/ PeerCheckFails
    <2>1. ChannelFlags'
      BY <1>5, Zenon DEF InspectionRefuses, ConnectFails, ObserveFails, PeerCheckFails,
                         PhaseFails, ChannelInv, ChannelFlags, observer
    <2>2. /\ UNCHANGED <<observer, wire, previous, request, sent, accepted, asked>>
          /\ stage' \in Stages \ {"asked"} /\ failed'
      BY <1>5 DEF InspectionRefuses, ConnectFails, ObserveFails, PeerCheckFails,
                  PhaseFails, Stages
    <2> QED
      BY <2>1, <2>2, QuietStep DEF observer, wire
  <1> QED
    BY <1>1, <1>2, <1>3, <1>4, <1>5 DEF ChannelStep, Next, Environment, Channel

\* The two facts of FreshView.
Fresh ==
    /\ accepted' # accepted => accepted'[Len(accepted')].version \in asked..version
    /\ sent' # sent => \A i \in 1..Len(sent) : sent[i].seq # sent'[Len(sent')].seq

\* Every step of the channel is fresh.
LEMMA FreshStep == ASSUME ChannelInv, ChannelStep PROVE Fresh
  <1>1. CASE UNCHANGED <<accepted, sent>>
    BY <1>1 DEF Fresh
  <1>2. CASE Accept
    <2>1. inbox # <<>> /\ inbox' = Tail(inbox) /\ sent' = sent /\ stage = "asked"
      BY <1>2 DEF Accept
    <2>2. Head(inbox) = inbox[1] /\ inbox[1] \in Observations /\ Honest(inbox[1]) /\ 1 \in 1..Len(inbox)
      BY <2>1, InboxTail
    <2>3. accepted' = Append(accepted, inbox[1]) /\ inbox[1].challenge = request.challenge
      BY <1>2, <2>2 DEF Accept, Valid, Answers
    <2>4. inbox[1].version >= asked /\ inbox[1].version <= version
      BY <2>1, <2>2, <2>3 DEF ChannelInv, ChainInv, InboxInv, Honest
    <2>5. accepted \in Seq(Observations) /\ inbox[1].version \in Nat /\ asked \in Nat /\ version \in Nat
      BY <2>2 DEF ChannelInv, ChannelType, Observations
    <2>6. accepted'[Len(accepted')] = inbox[1]
      BY <2>2, <2>3, <2>5, AppendFacts
    <2> QED
      BY <2>1, <2>4, <2>5, <2>6 DEF Fresh
  <1>3. CASE Send
    <2>1. accepted' = accepted /\ sent' = Append(sent, NextRequest) /\ ~failed /\ stage = "idle"
      BY <1>3 DEF Send
    <2>2. NextRequest \in Requests /\ NextRequest.seq = previous.seq + 1 /\ previous.seq \in Nat
      BY DEF NextRequest, Requests, ChannelInv, ChannelType, Observations
    <2>3. sent'[Len(sent')] = NextRequest
      BY <2>1, <2>2, AppendFacts DEF ChannelInv, ChannelType
    <2>4. \A i \in 1..Len(sent) : sent[i].seq <= previous.seq
      BY <2>1 DEF ChannelInv, ChainInv
    <2>5. \A i \in 1..Len(sent) : sent[i].seq \in Nat
      BY SentTyped
    <2> QED
      BY <2>1, <2>2, <2>3, <2>4, <2>5 DEF Fresh
  <1> QED
    BY <1>1, <1>2, <1>3 DEF ChannelStep, Next, Environment, Channel, PolicyChange,
       ObserverRestart, ObserverExit, Reply, ConnectSocket, OpenPidfd, OpenInspection, Acquire,
       InspectionRefuses, ConnectFails, ObserveFails, PeerCheckFails, PhaseFails, Reject, Close,
       Done, vars, channel

\* The accepted observations have the version of the last one.
LEMMA ChannelOneVersion == ChannelInv => OneVersion
  BY DEF ChannelInv, AcceptedInv, OneVersion

-----------------------------------------------------------------------------
(* The programs of the phases. *)

\* Every effect but a last one is followed by a whole check.
Pending(s) ==
  /\ \A i \in 1..(Len(s) - 1) :
       /\ s[i] \in Acts \cup {"advance"} => CheckAt(s, i + 1)
       /\ s[i] = "row" => s[i + 1] = "readback"
       /\ s[i] = "readback" => s[i + 1] = "advance"
       /\ s[i + 1] = "advance" => s[i] = "readback"
  /\ CheckAt(s, 1)
  /\ s[Len(s)] \in Acts \cup {"advance"}

\* The instructions of a check.
LEMMA CheckIs ==
    /\ Check \in Seq(Instructions) /\ Len(Check) = 6
    /\ Check[1] = "base" /\ Check[2] = "ledger" /\ Check[3] = "peer"
    /\ Check[4] = "observe" /\ Check[5] = "peer" /\ Check[6] = "ledger"
  BY DEF Check, Instructions, Acts

\* A check by itself has no effect, so it is a guarded program.
LEMMA CheckGuarded == Guarded(Check) /\ CheckAt(Check, 1)
  BY CheckIs DEF Guarded, CheckAt, Acts

\* Concatenation of programs.
LEMMA ConcatFacts ==
    \A s, u \in Seq(Instructions) :
      /\ s \o u \in Seq(Instructions) /\ Len(s \o u) = Len(s) + Len(u)
      /\ \A i \in 1..Len(s) : (s \o u)[i] = s[i]
      /\ \A i \in 1..Len(u) : (s \o u)[Len(s) + i] = u[i]
  OBVIOUS

\* A check in the front part of a longer program.
LEMMA CheckKept ==
    ASSUME NEW s \in Seq(Instructions), NEW u \in Seq(Instructions), Len(s) <= Len(u),
           \A i \in 1..Len(s) : u[i] = s[i], NEW k \in Nat \ {0}, CheckAt(s, k)
    PROVE  CheckAt(u, k)
  <1>1. k \in 1..Len(s) /\ k + 1 \in 1..Len(s) /\ k + 2 \in 1..Len(s) /\ k + 3 \in 1..Len(s)
    BY DEF CheckAt
  <1>2. u[k] = s[k] /\ u[k + 1] = s[k + 1] /\ u[k + 2] = s[k + 2] /\ u[k + 3] = s[k + 3]
    BY <1>1
  <1> QED
    BY <1>1, <1>2 DEF CheckAt

\* A guarded program and one more effect.
LEMMA ThenAct ==
    ASSUME NEW s \in Seq(Instructions), Guarded(s), CheckAt(s, 1), NEW e \in Acts
    PROVE  s \o <<e>> \in Seq(Instructions) /\ Pending(s \o <<e>>)
  <1>1. <<e>> \in Seq(Instructions) /\ Len(<<e>>) = 1 /\ <<e>>[1] = e
    BY DEF Instructions
  <1> DEFINE v == <<e>>
             u == s \o v
  <1> HIDE DEF v
  <1>2. /\ u \in Seq(Instructions) /\ Len(u) = Len(s) + 1 /\ u[Len(s) + 1] = e
        /\ \A i \in 1..Len(s) : u[i] = s[i]
    <2>1. v \in Seq(Instructions) /\ Len(v) = 1 /\ v[1] = e
      BY <1>1 DEF v
    <2>2. /\ s \o v \in Seq(Instructions) /\ Len(s \o v) = Len(s) + Len(v)
          /\ \A i \in 1..Len(s) : (s \o v)[i] = s[i]
          /\ \A i \in 1..Len(v) : (s \o v)[Len(s) + i] = v[i]
      <3>1. v \in Seq(Instructions)
        BY <2>1
      <3> QED
        BY <3>1, ConcatFacts
    <2> QED
      BY <2>1, <2>2
  <1> HIDE DEF u
  <1>3. Len(s) \in Nat
    OBVIOUS
  <1>4. Pending(u)
    <2>1. CheckAt(u, 1)
      BY <1>2, <1>3 DEF CheckAt
    <2>2. ASSUME NEW i \in 1..(Len(u) - 1)
          PROVE  /\ u[i] \in Acts \cup {"advance"} => CheckAt(u, i + 1)
                 /\ u[i] = "row" => u[i + 1] = "readback"
                 /\ u[i] = "readback" => u[i + 1] = "advance"
                 /\ u[i + 1] = "advance" => u[i] = "readback"
      <3>1. i \in 1..Len(s) /\ u[i] = s[i]
        BY <1>2, <1>3
      <3>2. u[i] \in Acts \cup {"advance"} => CheckAt(s, i + 1)
        BY <3>1 DEF Guarded
      <3>3. CheckAt(s, i + 1) => CheckAt(u, i + 1)
        BY <1>2, <1>3, <3>1, CheckKept
      <3>4. /\ i + 1 <= Len(s) => u[i + 1] = s[i + 1]
            /\ ~(i + 1 <= Len(s)) => u[i + 1] = e /\ e # "advance"
        BY <1>2, <1>3, <3>1 DEF Acts
      <3> QED
        BY <3>1, <3>2, <3>3, <3>4 DEF Guarded
    <2>3. u[Len(u)] \in Acts \cup {"advance"}
      BY <1>2, <1>3
    <2> QED
      BY <2>1, <2>2, <2>3 DEF Pending
  <1> QED
    BY <1>2, <1>4 DEF u, v

\* A guarded program and a row with its readback and advance.
LEMMA ThenRow ==
    ASSUME NEW s \in Seq(Instructions), Guarded(s), CheckAt(s, 1)
    PROVE  /\ s \o <<"row", "readback", "advance">> \in Seq(Instructions)
           /\ Pending(s \o <<"row", "readback", "advance">>)
  <1> DEFINE w == <<"row", "readback", "advance">>
  <1>1. w \in Seq(Instructions) /\ Len(w) = 3 /\ w[1] = "row" /\ w[2] = "readback" /\ w[3] = "advance"
    BY DEF Instructions
  <1> HIDE DEF w
  <1> DEFINE u == s \o w
  <1>2. /\ u \in Seq(Instructions) /\ Len(u) = Len(s) + 3
        /\ \A i \in 1..Len(s) : u[i] = s[i]
        /\ \A i \in 1..3 : u[Len(s) + i] = w[i]
    <2>1. /\ s \o w \in Seq(Instructions) /\ Len(s \o w) = Len(s) + Len(w)
          /\ \A i \in 1..Len(s) : (s \o w)[i] = s[i]
          /\ \A i \in 1..Len(w) : (s \o w)[Len(s) + i] = w[i]
      <3>1. w \in Seq(Instructions)
        BY <1>1
      <3> QED
        BY <3>1, ConcatFacts
    <2> QED
      BY <1>1, <2>1
  <1> HIDE DEF u
  <1>3. Len(s) \in Nat /\ u[Len(s) + 1] = "row" /\ u[Len(s) + 2] = "readback" /\ u[Len(s) + 3] = "advance"
    BY <1>1, <1>2
  <1>4. Pending(u)
    <2>1. CheckAt(u, 1)
      BY <1>2, <1>3 DEF CheckAt
    <2>2. ASSUME NEW i \in 1..(Len(u) - 1)
          PROVE  /\ u[i] \in Acts \cup {"advance"} => CheckAt(u, i + 1)
                 /\ u[i] = "row" => u[i + 1] = "readback"
                 /\ u[i] = "readback" => u[i + 1] = "advance"
                 /\ u[i + 1] = "advance" => u[i] = "readback"
      <3>1. CASE i \in 1..Len(s)
        <4>1. u[i] = s[i] /\ i + 1 \in 1..(Len(s) + 1)
          BY <3>1, <1>2, <1>3
        <4>2. u[i] \in Acts \cup {"advance"} => CheckAt(s, i + 1)
          BY <4>1, <3>1 DEF Guarded
        <4>3. CheckAt(s, i + 1) => CheckAt(u, i + 1)
          BY <1>2, <1>3, <4>1, CheckKept
        <4> QED
          BY <1>2, <1>3, <3>1, <4>1, <4>2, <4>3 DEF Guarded
      <3>2. CASE i = Len(s) + 1 \/ i = Len(s) + 2
        BY <1>3, <3>2 DEF Acts
      <3> QED
        BY <1>2, <1>3, <3>1, <3>2
    <2>3. u[Len(u)] \in Acts \cup {"advance"}
      BY <1>2, <1>3
    <2> QED
      BY <2>1, <2>2, <2>3 DEF Pending
  <1> QED
    BY <1>2, <1>4 DEF u, w

\* The check after the last effect makes the program guarded again.
LEMMA ThenCheck ==
    ASSUME NEW s \in Seq(Instructions), Pending(s)
    PROVE  s \o Check \in Seq(Instructions) /\ Guarded(s \o Check) /\ CheckAt(s \o Check, 1)
  <1> DEFINE u == s \o Check
  <1>1. /\ u \in Seq(Instructions) /\ Len(u) = Len(s) + 6
        /\ \A i \in 1..Len(s) : u[i] = s[i]
        /\ \A i \in 1..6 : u[Len(s) + i] = Check[i]
    <2>1. /\ s \o Check \in Seq(Instructions) /\ Len(s \o Check) = Len(s) + Len(Check)
          /\ \A i \in 1..Len(s) : (s \o Check)[i] = s[i]
          /\ \A i \in 1..Len(Check) : (s \o Check)[Len(s) + i] = Check[i]
      <3>1. Check \in Seq(Instructions)
        BY CheckIs
      <3> QED
        BY <3>1, ConcatFacts
    <2> QED
      BY CheckIs, <2>1
  <1> HIDE DEF u
  <1>2. /\ u[Len(s) + 1] = "base" /\ u[Len(s) + 2] = "ledger" /\ u[Len(s) + 3] = "peer"
        /\ u[Len(s) + 4] = "observe" /\ u[Len(s) + 5] = "peer" /\ u[Len(s) + 6] = "ledger"
        /\ Len(s) \in Nat
    BY <1>1, CheckIs
  <1>3. CheckAt(u, 1)
    <2>1. CheckAt(s, 1) /\ 1 \in Nat \ {0} /\ Len(s) <= Len(u)
      BY <1>1, <1>2 DEF Pending
    <2> QED
      BY <1>1, <2>1, CheckKept
  <1>4. Guarded(u)
    <2>1. SUFFICES ASSUME NEW i \in 1..Len(u)
                   PROVE  /\ u[i] \in Acts \cup {"advance"} => CheckAt(u, i + 1)
                          /\ u[i] = "row" => i + 1 <= Len(u) /\ u[i + 1] = "readback"
                          /\ u[i] = "readback" => i + 1 <= Len(u) /\ u[i + 1] = "advance"
                          /\ i + 1 <= Len(u) /\ u[i + 1] = "advance" => u[i] = "readback"
      BY DEF Guarded
    <2>2. CASE i \in 1..(Len(s) - 1)
      <3>1. u[i] = s[i] /\ u[i + 1] = s[i + 1] /\ i + 1 <= Len(u) /\ i + 1 \in 1..Len(s)
        BY <1>1, <1>2, <2>2
      <3>2. u[i] \in Acts \cup {"advance"} => CheckAt(s, i + 1)
        BY <3>1, <2>2 DEF Pending
      <3>3. CheckAt(s, i + 1) => CheckAt(u, i + 1)
        <4>1. PICK k \in Nat \ {0} : k = i + 1
          BY <1>2, <2>2
        <4>2. Len(s) <= Len(u) /\ \A j \in 1..Len(s) : u[j] = s[j]
          BY <1>1, <1>2
        <4>3. CheckAt(s, k) => CheckAt(u, k)
          BY <1>1, <4>2, CheckKept
        <4> QED
          BY <4>1, <4>3
      <3> QED
        BY <2>2, <3>1, <3>2, <3>3 DEF Pending
    <2>3. CASE i = Len(s)
      BY <1>1, <1>2, <2>3 DEF Pending, CheckAt, Acts
    <2>4. CASE i \in (Len(s) + 1)..(Len(s) + 6)
      <3>1. u[i] \in {"base", "ledger", "peer", "observe"}
        BY <1>2, <2>4
      <3>2. i + 1 <= Len(u) => u[i + 1] \in {"base", "ledger", "peer", "observe"}
        BY <1>1, <1>2, <2>4
      <3> QED
        BY <3>1, <3>2 DEF Acts
    <2> QED
      BY <1>1, <1>2, <2>2, <2>3, <2>4
  <1> QED
    BY <1>1, <1>3, <1>4 DEF u

\* The programs of all eight phases are guarded and begin with a check.
LEMMA ProgramGuarded ==
    ASSUME NEW p \in Phases
    PROVE  Program(p) \in Seq(Instructions) /\ Guarded(Program(p)) /\ CheckAt(Program(p), 1)
  <1> DEFINE Good(s) == s \in Seq(Instructions) /\ Guarded(s) /\ CheckAt(s, 1)
  <1>1. Good(Check)
    BY CheckIs, CheckGuarded
  <1>2. ASSUME NEW s, Good(s), NEW e \in Acts PROVE Good(s \o <<e>> \o Check)
    <2>1. s \o <<e>> \in Seq(Instructions) /\ Pending(s \o <<e>>)
      BY <1>2, ThenAct
    <2> QED
      BY <2>1, ThenCheck
  <1>3. ASSUME NEW s, Good(s) PROVE Good(s \o <<"row", "readback", "advance">> \o Check)
    <2>1. /\ s \o <<"row", "readback", "advance">> \in Seq(Instructions)
          /\ Pending(s \o <<"row", "readback", "advance">>)
      BY <1>3, ThenRow
    <2> QED
      BY <2>1, ThenCheck
  <1>4. \A e \in Acts : Good(Check \o <<e>> \o Check)
    BY <1>1, <1>2
  <1>5. \A e, f \in Acts : Good(Check \o <<e>> \o Check \o <<f>> \o Check)
    <2>1. SUFFICES ASSUME NEW e \in Acts, NEW f \in Acts
                   PROVE  Good(Check \o <<e>> \o Check \o <<f>> \o Check)
      OBVIOUS
    <2>2. Good(Check \o <<e>> \o Check)
      BY <1>4
    <2> HIDE DEF Good
    <2> QED
      BY <2>2, <1>2
  <1>6. Good(Check \o <<"row", "readback", "advance">> \o Check)
    BY <1>1, <1>3
  <1> HIDE DEF Good
  <1>7. Good(Program(p))
    BY <1>4, <1>5, <1>6 DEF Phases, Program, BeginProgram, PollProgram, IntentProgram,
       ApiProgram,
       ExchangeProgram, CreatedProgram, ResultProgram, RetireProgram, Acts
  <1> QED
    BY <1>7 DEF Good

-----------------------------------------------------------------------------
(* The broker. *)

\* One instruction done: what is left is guarded, and an effect is followed by a
\* whole check.
LEMMA TailProg ==
    ASSUME BrokerType, ProgramInv, prog # <<>>, prog' = Tail(prog)
    PROVE  /\ prog' \in Seq(Instructions) /\ Guarded(prog)'
           /\ Head(prog) = prog[1] /\ prog[1] \in Instructions
           /\ prog[1] \in Acts \cup {"advance"} => CheckAt(prog, 1)'
           /\ prog[1] = "row" => prog' # <<>> /\ prog'[1] = "readback"
           /\ prog[1] = "readback" => prog' # <<>> /\ prog'[1] = "advance"
           /\ prog' # <<>> /\ prog'[1] = "advance" => prog[1] = "readback"
           /\ CheckAt(prog, 1) => AtLedger(prog)'
           /\ AtLedger(prog) => AtPeer(prog)'
           /\ AtPeer(prog) => AtObserve(prog)'
  <1>1. prog \in Seq(Instructions) /\ Guarded(prog)
    BY DEF BrokerType, ProgramInv
  <1>2. /\ Tail(prog) \in Seq(Instructions) /\ Len(prog) \in Nat \ {0}
        /\ Len(Tail(prog)) = Len(prog) - 1
        /\ Head(prog) = prog[1] /\ prog[1] \in Instructions
        /\ \A i \in 1..Len(Tail(prog)) : Tail(prog)[i] = prog[i + 1]
    BY <1>1, TailFacts
  <1>3. /\ prog' \in Seq(Instructions) /\ Len(prog) \in Nat \ {0} /\ Len(prog') = Len(prog) - 1
        /\ Head(prog) = prog[1] /\ prog[1] \in Instructions
        /\ \A i \in 1..Len(prog') : prog'[i] = prog[i + 1]
    BY <1>2
  <1>4. ASSUME NEW k \in Nat \ {0}, CheckAt(prog, k + 1) PROVE CheckAt(prog, k)'
    <2>1. k \in 1..Len(prog') /\ k + 1 \in 1..Len(prog') /\ k + 2 \in 1..Len(prog')
          /\ k + 3 \in 1..Len(prog')
      BY <1>3, <1>4 DEF CheckAt
    <2>2. prog'[k] = prog[k + 1] /\ prog'[k + 1] = prog[(k + 1) + 1]
          /\ prog'[k + 2] = prog[(k + 1) + 2] /\ prog'[k + 3] = prog[(k + 1) + 3]
      BY <1>3, <2>1
    <2> QED
      BY <1>3, <1>4, <2>1, <2>2 DEF CheckAt
  <1>5. Guarded(prog)'
    <2>1. SUFFICES ASSUME NEW i \in 1..Len(prog')
                   PROVE  /\ prog'[i] \in Acts \cup {"advance"} => CheckAt(prog, i + 1)'
                          /\ prog'[i] = "row" => i + 1 <= Len(prog') /\ prog'[i + 1] = "readback"
                          /\ prog'[i] = "readback" => i + 1 <= Len(prog') /\ prog'[i + 1] = "advance"
                          /\ i + 1 <= Len(prog') /\ prog'[i + 1] = "advance" => prog'[i] = "readback"
      BY DEF Guarded
    <2>2. i + 1 \in 1..Len(prog) /\ prog'[i] = prog[i + 1] /\ i \in Nat \ {0} /\ i + 1 \in Nat \ {0}
      BY <1>3
    <2>3. prog[i + 1] \in Acts \cup {"advance"} => CheckAt(prog, (i + 1) + 1)
      BY <1>1, <2>2 DEF Guarded
    <2>4. /\ prog[i + 1] = "row" => (i + 1) + 1 <= Len(prog) /\ prog[(i + 1) + 1] = "readback"
          /\ prog[i + 1] = "readback" => (i + 1) + 1 <= Len(prog) /\ prog[(i + 1) + 1] = "advance"
          /\ (i + 1) + 1 <= Len(prog) /\ prog[(i + 1) + 1] = "advance" => prog[i + 1] = "readback"
      BY <1>1, <2>2 DEF Guarded
    <2>5. /\ (i + 1) + 1 <= Len(prog) <=> i + 1 <= Len(prog')
          /\ i + 1 <= Len(prog') => prog'[i + 1] = prog[(i + 1) + 1]
      BY <1>3, <2>2
    <2> QED
      BY <1>4, <2>2, <2>3, <2>4, <2>5
  <1>6. /\ prog[1] \in Acts \cup {"advance"} => CheckAt(prog, 1 + 1)
        /\ prog[1] = "row" => 1 + 1 <= Len(prog) /\ prog[1 + 1] = "readback"
        /\ prog[1] = "readback" => 1 + 1 <= Len(prog) /\ prog[1 + 1] = "advance"
        /\ 1 + 1 <= Len(prog) /\ prog[1 + 1] = "advance" => prog[1] = "readback"
    BY <1>1, <1>3 DEF Guarded
  <1>7. prog[1] \in Acts \cup {"advance"} => CheckAt(prog, 1)'
    BY <1>4, <1>6
  <1>8. /\ prog[1] = "row" => prog' # <<>> /\ prog'[1] = "readback"
        /\ prog[1] = "readback" => prog' # <<>> /\ prog'[1] = "advance"
        /\ prog' # <<>> /\ prog'[1] = "advance" => prog[1] = "readback"
    BY <1>3, <1>6
  <1>9. /\ CheckAt(prog, 1) => AtLedger(prog)'
        /\ AtLedger(prog) => AtPeer(prog)'
        /\ AtPeer(prog) => AtObserve(prog)'
    BY <1>3 DEF CheckAt, AtLedger, AtPeer, AtObserve
  <1> QED
    BY <1>3, <1>5, <1>7, <1>8, <1>9

\* Where an instruction of a check stands, nothing else does.
LEMMA Heads ==
    ASSUME NEW s
    PROVE  /\ CheckAt(s, 1) => s[1] = "base"
           /\ AtLedger(s) => s[1] = "ledger"
           /\ AtPeer(s) => s[1] = "peer"
           /\ AtObserve(s) => s[1] = "observe"
  BY DEF CheckAt, AtLedger, AtPeer, AtObserve

\* An effect is never one of a doomed program; if the world is not the pinned one
\* when it happens, that stays so and a check will tell.
LEMMA EffectFacts ==
    ASSUME IInv, NEW outside \in BOOLEAN, phase # "none", prog # <<>>,
           prog[1] \in Acts \cup {"row"}, Effect(outside)
    PROVE  /\ ~broken /\ stage # "asked" /\ pin # NoPin
           /\ tainted' \in SUBSET Phases /\ published \cap tainted' = {}
           /\ late' \in {0, 1}
           /\ tainted' # {} \/ late' # 0 => Moved \/ lost # {} \/ Foreign
  <1> USE DEF IInv, BrokerInv
  <1>1. ~broken
    BY DEF ProgramInv
  <1>2. /\ ~CheckAt(prog, 1) /\ ~AtLedger(prog) /\ ~AtPeer(prog) /\ ~AtObserve(prog)
        /\ prog[1] \notin {"readback", "advance"}
    BY Heads DEF Acts
  <1>3. stage # "asked" /\ pin # NoPin
    BY <1>1, <1>2 DEF ProgramInv, PinInv
  <1>4. tainted = {} /\ late = 0
    BY <1>1, <1>2 DEF TaintInv, Doomed
  <1>5. Pinned \/ Moved \/ lost # {} \/ Foreign
    <2>1. pin = <<pin[1], pin[2]>> /\ pin[1] \in Nat /\ pin[2] \in Nat
      BY DEF BrokerType
    <2>2. <<boot, gen>> = pin \/ Moved
      BY <2>1 DEF PinInv, Moved, ChannelInv, ChannelType
    <2>3. ledger = hist \/ Foreign
      BY <1>1, <1>2 DEF LedgerInv, MidRow
    <2> QED
      BY <2>2, <2>3 DEF Pinned
  <1>6. phase \in Phases /\ phase \notin published
    BY DEF BrokerType, ProgramInv
  <1>7. CASE Pinned
    BY <1>1, <1>3, <1>4, <1>7 DEF Effect
  <1>8. CASE ~Pinned
    BY <1>1, <1>3, <1>4, <1>5, <1>6, <1>8 DEF Effect
  <1> QED
    BY <1>7, <1>8

\* A refusal: the channel is broken for good.
LEMMA BrokenStep ==
    ASSUME IInv, broken', BrokerFlags', phase' = "none", prog' = <<>>,
           UNCHANGED <<pin, published, hist, lost, boot, gen>>,
           tainted' \in SUBSET Phases, published \cap tainted' = {}, late' \in {0, 1},
           pin # NoPin \/ UNCHANGED <<tainted, late>>,
           ledger' = ledger \/ ledger' = Append(ledger, "CREATE_INTENT")
                            \/ ledger' = Append(ledger, "CREATED")
    PROVE  BrokerInv'
  <1> USE DEF IInv, BrokerInv
  <1>1. ledger \in Seq(Rows) /\ "CREATE_INTENT" \in Rows /\ "CREATED" \in Rows
    BY DEF BrokerType, Rows
  <1>2. /\ ledger' \in Seq(Rows) /\ Len(ledger') > 0
        /\ \A i \in 1..Len(ledger') : ledger'[i] = "RUNNING" => i = 1
    <2>1. Len(ledger) > 0 /\ \A i \in 1..Len(ledger) : ledger[i] = "RUNNING" => i = 1
      BY DEF LedgerInv
    <2>2. CASE ledger' = ledger
      BY <2>1, <2>2, <1>1
    <2>3. ASSUME NEW e \in {"CREATE_INTENT", "CREATED"}, ledger' = Append(ledger, e)
          PROVE  /\ ledger' \in Seq(Rows) /\ Len(ledger') > 0
                 /\ \A i \in 1..Len(ledger') : ledger'[i] = "RUNNING" => i = 1
      <3>1. /\ ledger' \in Seq(Rows) /\ Len(ledger') = Len(ledger) + 1 /\ Len(ledger) \in Nat
            /\ ledger'[Len(ledger) + 1] = e /\ \A i \in 1..Len(ledger) : ledger'[i] = ledger[i]
        BY <1>1, <2>3, AppendFacts
      <3> QED
        BY <2>1, <2>3, <3>1
    <2> QED
      BY <2>2, <2>3
  <1>3. BrokerType'
    BY <1>2 DEF BrokerType
  <1>4. ProgramInv'
    BY DEF ProgramInv, Guarded
  <1>5. PinInv' /\ LedgerInv' /\ TaintInv'
    BY <1>2 DEF PinInv, LedgerInv, TaintInv
  <1> QED
    BY <1>3, <1>4, <1>5

\* Refuse leaves a broken channel and touches neither ledger nor history.
LEMMA RefuseStep == ASSUME IInv, Refuse, UNCHANGED <<boot, gen>> PROVE BrokerInv'
  <1>1. BrokerFlags'
    BY Zenon DEF Refuse, BrokerFlags
  <1>2. late \in {0, 1}
    BY DEF IInv, BrokerInv, TaintInv, BrokerType
  <1> QED
    BY <1>1, <1>2, BrokenStep DEF Refuse, host, pins, history, IInv, BrokerInv,
       TaintInv, BrokerType

\* The boot and the generation only move forward, lexicographically: a world that
\* has left the pin never comes back to it.
LEMMA MovedForward ==
    ASSUME IInv, UNCHANGED pin, boot' \in Nat, gen' \in Nat,
           boot < boot' \/ (boot = boot' /\ gen <= gen')
    PROVE  /\ Moved => Moved'
           /\ pin[1] < boot' \/ (pin[1] = boot' /\ pin[2] <= gen')
  <1>1. pin[1] \in Nat /\ pin[2] \in Nat /\ boot \in Nat /\ gen \in Nat
    BY DEF IInv, BrokerInv, BrokerType, ChannelInv, ChannelType
  <1>2. pin[1] < boot \/ (pin[1] = boot /\ pin[2] <= gen)
    BY DEF IInv, BrokerInv, PinInv
  <1> QED
    BY <1>1, <1>2 DEF Moved

\* The observer and the policy change under the broker: what was doomed stays doomed,
\* and an answer to the open request shows the move.
LEMMA EnvironmentStep == ASSUME IInv, Environment, UNCHANGED broker PROVE BrokerInv'
  <1> USE DEF IInv, BrokerInv
  <1>1. UNCHANGED <<lost, ledger, pin, hist, phase, prog, published, broken, tainted, late>>
    BY DEF broker, host, pins, history
  <1>2. UNCHANGED <<stage, sent>>
    BY DEF Environment, PolicyChange, ObserverRestart, ObserverExit, Reply, channel
  <1>3. /\ boot' \in Nat /\ gen' \in Nat
        /\ boot < boot' \/ (boot = boot' /\ gen <= gen')
    BY DEF Environment, PolicyChange, ObserverRestart, ObserverExit, Reply, observer,
           ChannelInv, ChannelType
  <1>4. /\ Moved => Moved'
        /\ pin[1] < boot' \/ (pin[1] = boot' /\ pin[2] <= gen')
    BY <1>1, <1>3, MovedForward
  <1>5. BrokerFlags'
    BY <1>1, Zenon DEF BrokerFlags
  <1>6. BrokerType' /\ ProgramInv' /\ LedgerInv'
    BY <1>1, <1>2 DEF BrokerType, ProgramInv, LedgerInv, Guarded, CheckAt, AtObserve,
       Foreign, MidRow
  <1>7. PinInv'
    BY <1>1, <1>4 DEF PinInv, CheckAt, AtLedger, AtPeer, AtObserve
  <1>8. Moved /\ (\A i \in 1..Len(inbox) : inbox[i].challenge = Len(sent) => Beyond(inbox[i]))
          => \A i \in 1..Len(inbox') : inbox'[i].challenge = Len(sent)' => Beyond(inbox[i])'
    <2>1. CASE inbox' = inbox
      BY <1>1, <1>2, <2>1 DEF Beyond
    <2>2. CASE Reply
      <3>1. PICK r : inbox' = Append(inbox, r) /\ r \in Observations /\ r.boot = boot /\ r.gen = gen
        BY <2>2, ReplyAnswer
      <3>2. /\ Len(inbox') = Len(inbox) + 1 /\ Len(inbox) \in Nat
            /\ inbox'[Len(inbox) + 1] = r /\ \A i \in 1..Len(inbox) : inbox'[i] = inbox[i]
        BY <3>1, AppendFacts DEF ChannelInv, ChannelType
      <3>3. Moved => Beyond(r)
        BY <3>1 DEF Moved, Beyond
      <3> HIDE DEF IInv, BrokerInv
      <3>4. SUFFICES ASSUME Moved,
                            \A i \in 1..Len(inbox) : inbox[i].challenge = Len(sent) => Beyond(inbox[i]),
                            NEW i \in 1..Len(inbox'), inbox'[i].challenge = Len(sent)
                     PROVE  Beyond(inbox'[i])
        BY <1>1, <1>2 DEF Beyond
      <3>5. CASE i = Len(inbox) + 1
        BY <3>2, <3>3, <3>4, <3>5
      <3>6. CASE i \in 1..Len(inbox)
        BY <3>2, <3>4, <3>6
      <3> QED
        BY <3>2, <3>5, <3>6
    <2> QED
      BY <2>1, <2>2 DEF Environment, PolicyChange, ObserverRestart, ObserverExit, wire
  <1>9. TaintInv'
    <2>1. Doomed => Doomed'
      BY <1>1, <1>2, <1>4, <1>8 DEF Doomed, Foreign, CheckAt, AtLedger, AtPeer, AtObserve
    <2> QED
      BY <1>1, <2>1 DEF TaintInv
  <1> QED
    BY <1>5, <1>6, <1>7, <1>9

\* Somebody else changes the host: a reason to refuse only adds to the others.
LEMMA HostStep == ASSUME IInv, HostChanges PROVE BrokerInv'
  <1> USE DEF IInv, BrokerInv
  <1>1. /\ UNCHANGED <<pin, hist, phase, prog, published, broken, tainted, late>>
        /\ UNCHANGED <<boot, gen, stage, sent, inbox>>
    BY DEF HostChanges, pins, history, wire, channel
  <1>2. /\ lost' \in SUBSET {"base", "peer"} /\ lost \subseteq lost'
        /\ ledger' = ledger \/ ledger' = Append(ledger, "FOREIGN")
    BY DEF HostChanges, BrokerType
  <1>3. /\ ledger' \in Seq(Rows) /\ Len(ledger') > 0
        /\ \A i \in 1..Len(ledger') : ledger'[i] = "RUNNING" => i = 1
        /\ Foreign => Foreign'
        /\ ledger' = ledger \/ Foreign'
    <2>1. /\ ledger \in Seq(Rows) /\ "FOREIGN" \in Rows
          /\ Len(ledger) > 0 /\ \A i \in 1..Len(ledger) : ledger[i] = "RUNNING" => i = 1
      BY DEF BrokerType, LedgerInv, Rows
    <2>2. CASE ledger' = ledger
      BY <2>1, <2>2 DEF Foreign
    <2>3. CASE ledger' = Append(ledger, "FOREIGN")
      <3>1. /\ ledger' \in Seq(Rows) /\ Len(ledger') = Len(ledger) + 1 /\ Len(ledger) \in Nat
            /\ ledger'[Len(ledger) + 1] = "FOREIGN"
            /\ \A i \in 1..Len(ledger) : ledger'[i] = ledger[i]
        BY <2>1, <2>3, AppendFacts
      <3> HIDE DEF IInv, BrokerInv
      <3> QED
        BY <2>1, <3>1 DEF Foreign
    <2> QED
      BY <1>2, <2>2, <2>3
  <1>4. BrokerFlags'
    BY <1>1, Zenon DEF BrokerFlags
  <1>5. BrokerType' /\ ProgramInv'
    BY <1>1, <1>2, <1>3 DEF BrokerType, ProgramInv, Guarded, CheckAt, AtObserve
  <1>6. PinInv'
    BY <1>1 DEF PinInv, CheckAt, AtLedger, AtPeer, AtObserve
  <1>7. LedgerInv'
    BY <1>1, <1>3 DEF LedgerInv, MidRow
  <1>8. TaintInv'
    <2>1. Doomed => Doomed'
      BY <1>1, <1>2, <1>3 DEF Doomed, Moved, Beyond, CheckAt, AtLedger, AtPeer, AtObserve
    <2> QED
      BY <1>1, <2>1 DEF TaintInv
  <1> QED
    BY <1>4, <1>5, <1>6, <1>7, <1>8

\* The server's own steps on the channel, before the dispatch and after a failure.
LEMMA ServerStep == ASSUME IInv, ServerObserves \/ ServerCloses PROVE BrokerInv'
  <1> USE DEF IInv, BrokerInv
  <1>1. UNCHANGED <<lost, ledger, pin, hist, phase, prog, published, broken, tainted, late>>
    BY DEF ServerObserves, ServerCloses, broker, host, pins, history
  <1>2. UNCHANGED <<boot, gen>>
    BY DEF ServerObserves, ServerCloses, Channel, ConnectSocket, OpenPidfd,
       OpenInspection, Acquire,
       InspectionRefuses, ConnectFails, Send, ObserveFails, PeerCheckFails, Accept, Reject, Close, observer
  <1>3. (phase = "none" /\ published = {}) \/ broken
    BY DEF ServerObserves, ServerCloses
  <1>4. BrokerFlags'
    BY <1>1, Zenon DEF BrokerFlags
  <1>5. BrokerType' /\ LedgerInv' /\ PinInv'
    BY <1>1, <1>2 DEF BrokerType, LedgerInv, PinInv, Foreign, MidRow, CheckAt,
       AtLedger, AtPeer, AtObserve
  <1>6. ProgramInv'
    BY <1>1, <1>3 DEF ProgramInv, Guarded, CheckAt, AtObserve
  <1>7. TaintInv'
    BY <1>1, <1>3 DEF TaintInv, ProgramInv
  <1> QED
    BY <1>4, <1>5, <1>6, <1>7

\* _phase: a call starts with its whole program, on a channel where nothing is tainted.
LEMMA CallStep == ASSUME IInv, NEW p \in Phases, Call(p) PROVE BrokerInv'
  <1> USE DEF IInv, BrokerInv
  <1>1. /\ UNCHANGED <<lost, ledger, pin, published, broken, tainted, late, boot, gen, stage>>
        /\ ~broken /\ phase = "none" /\ phase' = p /\ prog' = Program(p)
        /\ p \notin published /\ Requires(p) \subseteq published
    BY DEF Call, vars, observer, channel, host, history
  <1>2. /\ prog' \in Seq(Instructions) /\ Guarded(prog)' /\ CheckAt(prog, 1)'
        /\ prog'[1] = "base" /\ p # "none"
    <2>1. prog' \in Seq(Instructions) /\ Guarded(prog)' /\ CheckAt(prog, 1)'
      BY <1>1, ProgramGuarded DEF Guarded, CheckAt
    <2> QED
      BY <2>1 DEF CheckAt, Phases
  <1>3. tainted = {} /\ late = 0
    BY <1>1 DEF TaintInv
  <1>4. /\ stage # "asked"
        /\ p = "begin" => ledger[Len(ledger)] = "RUNNING"
    <2>1. p = "begin" => stage = "idle" /\ ledger[Len(ledger)] = "RUNNING"
      BY DEF Call
    <2>2. p # "begin" => published # {}
      BY <1>1 DEF Requires, Phases
    <2> QED
      BY <1>1, <2>1, <2>2 DEF ProgramInv
  <1>5. BrokerFlags'
    BY <1>1, Zenon DEF BrokerFlags
  <1>6. hist' = hist \/ (p = "begin" /\ hist' = ledger)
    BY DEF Call
  <1>7. BrokerType'
    BY <1>1, <1>2, <1>6 DEF BrokerType
  <1>8. ProgramInv'
    BY <1>1, <1>2, <1>4 DEF ProgramInv
  <1>9. PinInv'
    BY <1>1, <1>2 DEF PinInv
  <1>10. LedgerInv'
    <2>1. \A i \in 1..Len(hist') : hist'[i] # "FOREIGN"
      <3>1. CASE hist' = hist
        BY <3>1 DEF LedgerInv
      <3>2. CASE p = "begin" /\ hist' = ledger
        <4>1. Len(ledger) \in Nat /\ Len(ledger) > 0 /\ ledger[Len(ledger)] = "RUNNING"
          BY <1>4, <3>2 DEF LedgerInv, BrokerType
        <4>2. Len(ledger) = 1
          BY <4>1 DEF LedgerInv
        <4> QED
          BY <3>2, <4>1, <4>2
      <3> QED
        BY <1>6, <3>1, <3>2
    <2>2. Foreign' \/ ledger' = hist'
      BY <1>1, <1>6 DEF LedgerInv, MidRow, Foreign
    <2> QED
      BY <1>1, <1>2, <2>1, <2>2 DEF LedgerInv
  <1>11. TaintInv'
    BY <1>1, <1>3 DEF TaintInv
  <1> QED
    BY <1>5, <1>7, <1>8, <1>9, <1>10, <1>11

\* What the head of the program is.
LEMMA AtHead ==
    ASSUME IInv, NEW S, At(S)
    PROVE  /\ phase # "none" /\ prog # <<>> /\ Head(prog) = prog[1] /\ prog[1] \in S
           /\ ~broken /\ phase \in Phases
  <1>1. prog \in Seq(Instructions) /\ phase # "none" /\ prog # <<>> /\ Head(prog) \in S
    BY DEF IInv, BrokerInv, BrokerType, At
  <1>2. Head(prog) = prog[1]
    BY <1>1
  <1> QED
    BY <1>1, <1>2 DEF IInv, BrokerInv, ProgramInv, BrokerType

\* The request of an observation goes out: no answer that is already there is for it.
LEMMA AskStep == ASSUME IInv, Ask PROVE BrokerInv'
  <1> USE DEF IInv, BrokerInv
  <1>1. UNCHANGED <<lost, ledger, pin, hist, phase, prog, published, broken, tainted, late>>
    BY DEF Ask, broker, host, pins, history
  <1>2. /\ UNCHANGED <<boot, gen, inbox>>
        /\ sent' = Append(sent, NextRequest) /\ stage' = "asked"
    BY DEF Ask, Send, observer
  <1>3. phase # "none" /\ prog # <<>> /\ prog[1] = "observe"
    BY AtHead DEF Ask
  <1>4. AtObserve(prog)
    BY <1>3 DEF AtObserve, BrokerType
  <1>5. BrokerFlags'
    BY <1>1, Zenon DEF BrokerFlags
  <1>6. BrokerType' /\ LedgerInv' /\ PinInv'
    BY <1>1, <1>2 DEF BrokerType, LedgerInv, PinInv, Foreign, MidRow, CheckAt,
       AtLedger, AtPeer, AtObserve
  <1>7. ProgramInv'
    BY <1>1, <1>3, <1>4 DEF ProgramInv, Guarded, CheckAt, AtObserve
  <1>8. \A i \in 1..Len(inbox) : inbox[i].challenge # Len(sent')
    <2>1. NextRequest \in Requests
      BY DEF NextRequest, Requests, ChannelInv, ChannelType, Observations
    <2>2. Len(sent') = Len(sent) + 1 /\ Len(sent) \in Nat
      BY <1>2, <2>1, AppendFacts DEF ChannelInv, ChannelType
    <2>3. \A i \in 1..Len(inbox) : inbox[i] \in Observations
      BY DEF ChannelInv, ChannelType
    <2>4. \A i \in 1..Len(inbox) : inbox[i].challenge \in Nat
      BY <2>3 DEF Observations
    <2> QED
      BY <2>2, <2>4 DEF ChannelInv, InboxInv, Honest
  <1>9. TaintInv'
    <2>1. Doomed => Moved
      BY <1>3, Heads DEF Doomed
    <2>2. Doomed => Doomed'
      BY <1>1, <1>2, <1>4, <1>8, <2>1 DEF Doomed, Moved, AtObserve
    <2> QED
      BY <1>1, <2>2 DEF TaintInv
  <1> QED
    BY <1>5, <1>6, <1>7, <1>9

\* What an instruction that is no row leaves of the ledger's part.
LEMMA LedgerKept ==
    ASSUME IInv, ~broken, phase # "none", prog # <<>>, prog[1] \notin {"readback", "advance"},
           UNCHANGED <<ledger, hist>>,
           phase' = "none" \/ prog' = <<>> \/ prog'[1] # "advance"
    PROVE  LedgerInv'
  BY DEF IInv, BrokerInv, LedgerInv, MidRow, Foreign

\* An observation passes: the answer is for this request, so a world that had
\* moved before it was sent shows in it.
LEMMA ObserveStep == ASSUME IInv, Observe PROVE BrokerInv'
  <1> USE DEF IInv, BrokerInv
  <1>0. PICK r : r = inbox[1]
    OBVIOUS
  <1>1. /\ UNCHANGED <<boot, gen, sent>> /\ stage = "asked" /\ stage' = "idle"
        /\ inbox # <<>> /\ inbox' = Tail(inbox)
    BY DEF Observe, Accept, observer
  <1>2. Head(inbox) = r /\ r \in Observations /\ Honest(r) /\ 1 \in 1..Len(inbox)
    BY <1>0, <1>1, InboxTail
  <1>3. r.challenge = Len(sent)
    BY <1>1, <1>2 DEF Observe, Accept, Valid, Answers, ChannelInv, ChainInv
  <1>4. phase # "none" /\ prog # <<>> /\ prog[1] = "observe" /\ ~broken
    BY AtHead DEF Observe
  <1>5. CASE Refuse
    BY <1>1, <1>5, RefuseStep
  <1>6. CASE /\ pin \in {NoPin, <<r.boot, r.gen>>} /\ pin' = <<r.boot, r.gen>>
             /\ Passed /\ UNCHANGED <<hist, pending, log, history>>
    <2>1. UNCHANGED <<lost, ledger, phase, published, broken, hist, tainted, late>> /\ prog' = Tail(prog)
      BY <1>6 DEF Passed, host, history
    <2>2. /\ prog' \in Seq(Instructions) /\ Guarded(prog)'
          /\ prog' # <<>> => prog'[1] # "advance"
      BY <1>4, <2>1, TailProg
    <2>3. r.boot \in Nat /\ r.gen \in Nat /\ r.boot > 0
          /\ (r.boot < boot \/ (r.boot = boot /\ r.gen <= gen))
      BY <1>2 DEF Honest, Observations
    <2>4. pin' \in Nat \X Nat /\ pin'[1] = r.boot /\ pin'[2] = r.gen /\ pin' # NoPin
      BY <1>6, <2>3 DEF NoPin
    <2>5. tainted = {} /\ late = 0
      <3>1. CASE pin = NoPin
        BY <3>1 DEF PinInv
      <3>2. CASE pin = <<r.boot, r.gen>>
        <4>1. ~Beyond(r)
          BY <3>2, <2>3 DEF Beyond
        <4>2. ~Doomed
          <5>1. ~CheckAt(prog, 1) /\ ~AtLedger(prog) /\ ~AtPeer(prog)
            BY <1>4, Heads
          <5> QED
            BY <5>1, <4>1, <1>0, <1>1, <1>2, <1>3, <1>4 DEF Doomed
        <4> QED
          BY <4>2, <1>4 DEF TaintInv, BrokerType
      <3> QED
        BY <1>6, <3>1, <3>2
    <2>6. BrokerFlags'
      BY <2>1, Zenon DEF BrokerFlags
    <2>7. BrokerType'
      BY <2>1, <2>2, <2>4 DEF BrokerType
    <2>8. ProgramInv'
      BY <1>1, <1>4, <2>1, <2>2 DEF ProgramInv
    <2>9. PinInv'
      BY <1>1, <2>3, <2>4 DEF PinInv
    <2>10. LedgerInv'
      BY <1>4, <2>1, <2>2, LedgerKept
    <2>11. TaintInv'
      BY <2>1, <2>5 DEF TaintInv
    <2> QED
      BY <2>6, <2>7, <2>8, <2>9, <2>10, <2>11
  <1> QED
    BY <1>2, <1>5, <1>6 DEF Observe

\* The channel refuses the observation, and the broker with it.
LEMMA ObserveRefusedStep == ASSUME IInv, ObserveRefused PROVE BrokerInv'
  BY RefuseStep DEF ObserveRefused, Reject, ObserveFails, PeerCheckFails, observer

\* A comparison passes: of the reasons that doom a program, the one it reads is not
\* there, and the comparisons for the others are still ahead.
LEMMA CompareStep == ASSUME IInv, Compare PROVE BrokerInv'
  <1> USE DEF IInv, BrokerInv
  <1>1. UNCHANGED <<boot, gen, stage, sent, inbox>>
    BY DEF Compare, vars, observer, wire, channel
  <1>2. /\ phase # "none" /\ prog # <<>> /\ Head(prog) = prog[1] /\ ~broken
        /\ prog[1] \in {"base", "ledger", "peer", "readback"}
    BY AtHead DEF Compare
  <1>3. CASE Refuse
    BY <1>1, <1>3, RefuseStep
  <1>4. CASE /\ Passed /\ UNCHANGED <<pins, pending, log, history>>
             /\ prog[1] = "base" => "base" \notin lost
             /\ prog[1] = "ledger" => ledger = hist
             /\ prog[1] = "peer" => "peer" \notin lost
             /\ prog[1] = "readback" => ledger = Append(hist, RowOf(phase))
    <2>1. /\ UNCHANGED <<lost, ledger, phase, published, broken, pin, hist, tainted, late>>
          /\ prog' = Tail(prog)
      BY <1>4 DEF Passed, host, pins, history
    <2>2. /\ prog' \in Seq(Instructions) /\ Guarded(prog)'
          /\ prog[1] = "readback" => prog' # <<>> /\ prog'[1] = "advance"
          /\ prog' # <<>> /\ prog'[1] = "advance" => prog[1] = "readback"
          /\ CheckAt(prog, 1) => AtLedger(prog)'
          /\ AtLedger(prog) => AtPeer(prog)'
          /\ AtPeer(prog) => AtObserve(prog)'
      BY <1>2, <2>1, TailProg
    <2>3. ~AtObserve(prog)
      BY <1>2, Heads
    <2>4. stage # "asked"
      BY <1>2, <2>3 DEF ProgramInv
    <2>5. BrokerFlags'
      BY <2>1, Zenon DEF BrokerFlags
    <2>6. BrokerType'
      BY <2>1, <2>2 DEF BrokerType
    <2>7. ProgramInv'
      BY <1>1, <1>2, <2>1, <2>2, <2>4 DEF ProgramInv
    <2>8. PinInv'
      BY <1>1, <1>2, <2>1, <2>2, <2>3 DEF PinInv
    <2>9. LedgerInv'
      <3>1. CASE prog[1] = "readback"
        <4>1. MidRow' /\ ledger' = Append(hist, RowOf(phase))'
          BY <1>2, <1>4, <2>1, <2>2, <3>1 DEF MidRow, RowOf
        <4> QED
          BY <2>1, <4>1 DEF LedgerInv
      <3>2. CASE prog[1] # "readback"
        BY <1>2, <2>1, <2>2, <3>2, LedgerKept
      <3> QED
        BY <3>1, <3>2
    <2>10. TaintInv'
      <3>1. /\ Moved' <=> Moved
            /\ Foreign' <=> Foreign
        BY <1>1, <2>1 DEF Moved, Foreign
      <3>2. Doomed => Doomed'
        <4>1. CASE prog[1] = "base"
          <5>1. Doomed => CheckAt(prog, 1) /\ (Moved \/ lost # {} \/ Foreign)
            BY <4>1, Heads DEF Doomed
          <5>2. lost # {} => "peer" \in lost
            BY <4>1, <1>4 DEF BrokerType
          <5> QED
            BY <5>1, <5>2, <2>1, <2>2, <3>1 DEF Doomed
        <4>2. CASE prog[1] = "ledger"
          <5>1. Doomed => AtLedger(prog) /\ (Moved \/ "peer" \in lost \/ Foreign)
            BY <4>2, Heads DEF Doomed
          <5>2. ~Foreign
            BY <4>2, <1>4 DEF LedgerInv, Foreign
          <5> QED
            BY <5>1, <5>2, <2>1, <2>2, <3>1 DEF Doomed
        <4>3. CASE prog[1] = "peer"
          <5>1. Doomed => AtPeer(prog) /\ Moved
            BY <4>3, <1>4, Heads DEF Doomed
          <5> QED
            BY <5>1, <1>1, <2>2, <2>4, <3>1 DEF Doomed
        <4>4. CASE prog[1] = "readback"
          <5>1. Doomed => Moved \/ lost # {} \/ Foreign
            BY <4>4, Heads DEF Doomed
          <5> QED
            BY <5>1, <4>4, <2>1, <2>2, <3>1 DEF Doomed
        <4> QED
          BY <1>2, <4>1, <4>2, <4>3, <4>4
      <3> QED
        BY <2>1, <3>2 DEF TaintInv
    <2> QED
      BY <2>5, <2>6, <2>7, <2>8, <2>9, <2>10
  <1> QED
    BY <1>2, <1>3, <1>4 DEF Compare

\* An effect that returned: the whole check behind it is ahead.
LEMMA PassEffect ==
    ASSUME IInv, NEW outside \in BOOLEAN, phase # "none", prog # <<>>, prog[1] \in Acts,
           Effect(outside), Passed, UNCHANGED <<pin, hist, boot, gen, stage>>
    PROVE  BrokerInv'
  <1> USE DEF IInv, BrokerInv
  <1>1. UNCHANGED <<lost, ledger, phase, published, broken>> /\ prog' = Tail(prog)
    BY DEF Passed, host
  <1>2. /\ ~broken /\ stage # "asked" /\ pin # NoPin
        /\ tainted' \in SUBSET Phases /\ published \cap tainted' = {}
        /\ late' \in {0, 1}
        /\ tainted' # {} \/ late' # 0 => Moved \/ lost # {} \/ Foreign
    BY EffectFacts
  <1>3. prog' \in Seq(Instructions) /\ Guarded(prog)' /\ CheckAt(prog, 1)'
    BY <1>1, TailProg
  <1>4. BrokerFlags'
    BY <1>1, Zenon DEF BrokerFlags
  <1>5. BrokerType' /\ ProgramInv' /\ PinInv'
    BY <1>1, <1>2, <1>3 DEF BrokerType, ProgramInv, PinInv
  <1>6. LedgerInv'
    <2>1. prog'[1] = "base"
      BY <1>3 DEF CheckAt
    <2> QED
      BY <1>1, <1>2, <2>1, LedgerKept DEF Acts
  <1>7. TaintInv'
    <2>1. /\ Moved' <=> Moved
          /\ Foreign' <=> Foreign
      BY <1>1 DEF Moved, Foreign
    <2> QED
      BY <1>1, <1>2, <1>3, <2>1 DEF TaintInv, Doomed
  <1> QED
    BY <1>4, <1>5, <1>6, <1>7

\* A datagram, a connection, a handshake, the POST.
LEMMA ActStep == ASSUME IInv, Act PROVE BrokerInv'
  <1>1. /\ phase # "none" /\ prog # <<>> /\ prog[1] \in Acts /\ Effect(TRUE)
        /\ UNCHANGED <<pin, hist, boot, gen, stage>>
    BY AtHead DEF Act, pins, vars, observer, channel, Acts
  <1>2. TRUE \in BOOLEAN
    BY Zenon
  <1>3. CASE Passed
    BY <1>1, <1>2, <1>3, PassEffect
  <1>4. CASE broken' = TRUE /\ phase' = "none" /\ prog' = <<>> /\ UNCHANGED <<host, published>>
    <2>1. /\ pin # NoPin /\ tainted' \in SUBSET Phases /\ published \cap tainted' = {}
          /\ late' \in {0, 1}
      BY <1>1, <1>2, EffectFacts
    <2>2. BrokerFlags'
      BY <1>4, Zenon DEF BrokerFlags
    <2> QED
      BY <1>1, <1>4, <2>1, <2>2, BrokenStep DEF host
  <1> QED
    BY <1>3, <1>4 DEF Act

\* What stays inside the process; an idle poll ends where nothing is tainted.
LEMMA LocalStep == ASSUME IInv, Local PROVE BrokerInv'
  <1>1. /\ phase # "none" /\ prog # <<>> /\ prog[1] \in Acts
        /\ UNCHANGED <<boot, gen, stage>> /\ ~broken
    BY AtHead DEF Local, vars, observer, channel, Acts
  <1>2. CASE Effect(FALSE) /\ Passed /\ UNCHANGED pins
    <2>1. FALSE \in BOOLEAN
      BY Zenon
    <2> QED
      BY <1>1, <1>2, <2>1, PassEffect DEF pins
  <1>3. CASE Refuse
    BY <1>1, <1>3, RefuseStep
  <1>4. CASE /\ phase' = "none" /\ prog' = <<>>
             /\ UNCHANGED <<host, pins, published, broken, history>>
    <2> USE DEF IInv, BrokerInv
    <2>1. UNCHANGED <<lost, ledger, pin, hist, published, broken, tainted, late>>
      BY <1>4 DEF host, pins, history
    <2>2. /\ ~CheckAt(prog, 1) /\ ~AtLedger(prog) /\ ~AtPeer(prog) /\ ~AtObserve(prog)
          /\ prog[1] \notin {"readback", "advance"}
      BY <1>1, Heads DEF Acts
    <2>3. tainted = {} /\ late = 0
      BY <1>1, <2>2 DEF TaintInv, Doomed
    <2>4. stage # "asked"
      BY <1>1, <2>2 DEF ProgramInv
    <2>5. BrokerFlags'
      BY <2>1, Zenon DEF BrokerFlags
    <2>6. BrokerType' /\ ProgramInv' /\ PinInv'
      BY <1>1, <1>4, <2>1, <2>4 DEF BrokerType, ProgramInv, PinInv, Guarded
    <2>7. LedgerInv'
      BY <1>1, <1>4, <2>1, <2>2, LedgerKept
    <2>8. TaintInv'
      BY <2>1, <2>3 DEF TaintInv
    <2> QED
      BY <2>5, <2>6, <2>7, <2>8
  <1> QED
    BY <1>2, <1>3, <1>4 DEF Local

\* A row goes into the ledger: until the history has advanced, the ledger is one row
\* ahead of it, and the program stands between the two.
LEMMA WriteRowStep == ASSUME IInv, WriteRow PROVE BrokerInv'
  <1> USE DEF IInv, BrokerInv
  <1>1. /\ phase # "none" /\ prog # <<>> /\ prog[1] = "row" /\ phase \in Phases
        /\ UNCHANGED <<lost, pin, hist, published, boot, gen, stage>>
    BY AtHead DEF WriteRow, pins, vars, observer, channel
  <1>2. RowOf(phase) \in {"CREATE_INTENT", "CREATED"}
    BY DEF RowOf
  <1>3. CASE /\ prog' = <<>> /\ phase' = "none" /\ broken' = TRUE
             /\ UNCHANGED <<ledger, history>>
    <2>1. BrokerFlags'
      BY <1>3, Zenon DEF BrokerFlags
    <2>2. late \in {0, 1}
      BY DEF TaintInv, BrokerType
    <2> QED
      BY <1>1, <1>3, <2>1, <2>2, BrokenStep DEF history, TaintInv, BrokerType
  <1>4. CASE ledger = hist /\ ledger' = Append(ledger, RowOf(phase)) /\ Effect(TRUE)
             /\ \/ prog' = Tail(prog) /\ UNCHANGED <<phase, broken>>
                \/ prog' = <<>> /\ phase' = "none" /\ broken' = TRUE
    <2>1. /\ ~broken /\ stage # "asked" /\ pin # NoPin
          /\ tainted' \in SUBSET Phases /\ published \cap tainted' = {}
          /\ late' \in {0, 1}
          /\ tainted' # {} \/ late' # 0 => Moved \/ lost # {} \/ Foreign
      <3>1. TRUE \in BOOLEAN
        BY Zenon
      <3> QED
        BY <1>1, <1>4, <3>1, EffectFacts
    <2>2. CASE prog' = <<>> /\ phase' = "none" /\ broken' = TRUE
      <3>1. BrokerFlags'
        BY <2>2, Zenon DEF BrokerFlags
      <3> QED
        BY <1>1, <1>2, <1>4, <2>1, <2>2, <3>1, BrokenStep
    <2>3. CASE prog' = Tail(prog) /\ UNCHANGED <<phase, broken>>
      <3>1. prog' \in Seq(Instructions) /\ Guarded(prog)' /\ prog' # <<>> /\ prog'[1] = "readback"
        BY <1>1, <2>3, TailProg
      <3>2. BrokerFlags'
        BY <2>3, Zenon DEF BrokerFlags
      <3>3. /\ ledger' \in Seq(Rows) /\ Len(ledger') > 0
            /\ \A i \in 1..Len(ledger') : ledger'[i] = "RUNNING" => i = 1
        <4>1. ledger \in Seq(Rows) /\ RowOf(phase) \in Rows
              /\ \A i \in 1..Len(ledger) : ledger[i] = "RUNNING" => i = 1
          BY <1>2 DEF BrokerType, LedgerInv, Rows
        <4> HIDE DEF IInv, BrokerInv
        <4>2. /\ ledger' \in Seq(Rows) /\ Len(ledger') = Len(ledger) + 1 /\ Len(ledger) \in Nat
              /\ ledger'[Len(ledger) + 1] = RowOf(phase)
              /\ \A i \in 1..Len(ledger) : ledger'[i] = ledger[i]
          BY <4>1, <1>4, AppendFacts
        <4> QED
          BY <1>2, <4>1, <4>2
      <3>4. BrokerType'
        BY <1>1, <2>1, <2>3, <3>1, <3>3 DEF BrokerType
      <3>5. ProgramInv' /\ PinInv'
        BY <1>1, <2>1, <2>3, <3>1 DEF ProgramInv, PinInv
      <3>6. LedgerInv'
        <4>1. MidRow' /\ ledger' = Append(hist, RowOf(phase))'
          BY <1>1, <1>4, <2>3, <3>1 DEF MidRow, RowOf
        <4> QED
          BY <1>1, <3>3, <4>1 DEF LedgerInv
      <3>7. TaintInv'
        <4>1. ~Foreign
          BY <1>4 DEF LedgerInv, Foreign
        <4>2. Moved' <=> Moved
          BY <1>1 DEF Moved
        <4> QED
          BY <1>1, <2>1, <2>3, <3>1, <4>1, <4>2 DEF TaintInv, Doomed
      <3> QED
        BY <3>2, <3>4, <3>5, <3>6, <3>7
    <2> QED
      BY <1>4, <2>2, <2>3
  <1> QED
    BY <1>3, <1>4 DEF WriteRow

\* The row that was read back advances the history.
LEMMA AdvanceStep == ASSUME IInv, Advance PROVE BrokerInv'
  <1> USE DEF IInv, BrokerInv
  <1>1. /\ phase # "none" /\ prog # <<>> /\ prog[1] = "advance" /\ phase \in Phases /\ ~broken
        /\ UNCHANGED <<lost, ledger, pin, phase, published, broken, tainted, late, boot, gen, stage>>
        /\ prog' = Tail(prog) /\ hist' = Append(hist, RowOf(phase))
    BY AtHead DEF Advance, Passed, host, history, vars, observer, channel
  <1>2. /\ prog' \in Seq(Instructions) /\ Guarded(prog)' /\ CheckAt(prog, 1)' /\ prog'[1] = "base"
    <2>1. prog' \in Seq(Instructions) /\ Guarded(prog)' /\ CheckAt(prog, 1)'
      BY <1>1, TailProg
    <2> QED
      BY <2>1 DEF CheckAt
  <1>3. ~CheckAt(prog, 1) /\ ~AtLedger(prog) /\ ~AtPeer(prog) /\ ~AtObserve(prog)
    BY <1>1, Heads
  <1>4. stage # "asked" /\ pin # NoPin
    BY <1>1, <1>3 DEF ProgramInv, PinInv
  <1>5. BrokerFlags'
    BY <1>1, Zenon DEF BrokerFlags
  <1>6. hist' \in Seq(Rows) /\ \A i \in 1..Len(hist') : hist'[i] # "FOREIGN"
    <2>1. /\ hist \in Seq(Rows) /\ RowOf(phase) \in Rows /\ RowOf(phase) # "FOREIGN"
          /\ \A i \in 1..Len(hist) : hist[i] # "FOREIGN"
      BY DEF BrokerType, LedgerInv, RowOf, Rows
    <2> HIDE DEF IInv, BrokerInv
    <2>2. /\ hist' \in Seq(Rows) /\ Len(hist') = Len(hist) + 1 /\ Len(hist) \in Nat
          /\ hist'[Len(hist) + 1] = RowOf(phase)
          /\ \A i \in 1..Len(hist) : hist'[i] = hist[i]
      BY <2>1, <1>1, AppendFacts
    <2> QED
      BY <2>1, <2>2
  <1>7. BrokerType'
    BY <1>1, <1>2, <1>6 DEF BrokerType
  <1>8. ProgramInv' /\ PinInv'
    BY <1>1, <1>2, <1>4 DEF ProgramInv, PinInv
  <1>9. LedgerInv'
    <2>1. Foreign \/ ledger = hist'
      BY <1>1 DEF LedgerInv
    <2> QED
      BY <1>1, <1>2, <1>6, <2>1 DEF LedgerInv, Foreign
  <1>10. TaintInv'
    <2>1. Doomed => Moved \/ lost # {} \/ Foreign
      BY <1>3 DEF Doomed
    <2>2. /\ Moved' <=> Moved
          /\ Foreign' <=> Foreign
      BY <1>1 DEF Moved, Foreign
    <2> QED
      BY <1>1, <1>2, <2>1, <2>2 DEF TaintInv, Doomed
  <1> QED
    BY <1>5, <1>7, <1>8, <1>9, <1>10

\* A call returns: a program that is over is not doomed.
LEMMA PublishStep == ASSUME IInv, Publish PROVE BrokerInv'
  <1> USE DEF IInv, BrokerInv
  <1>1. /\ phase # "none" /\ prog = <<>> /\ phase' = "none" /\ published' = published \cup {phase}
        /\ UNCHANGED <<lost, ledger, pin, hist, prog, broken, tainted, late, boot, gen, stage>>
    BY DEF Publish, host, pins, history, vars, observer, channel
  <1>2. ~CheckAt(prog, 1) /\ ~AtLedger(prog) /\ ~AtPeer(prog) /\ ~AtObserve(prog)
    BY <1>1 DEF CheckAt, AtLedger, AtPeer, AtObserve
  <1>3. ~broken /\ tainted = {} /\ late = 0 /\ stage # "asked" /\ pin # NoPin
    BY <1>1, <1>2 DEF ProgramInv, TaintInv, Doomed, PinInv
  <1>4. BrokerFlags'
    BY <1>1, Zenon DEF BrokerFlags
  <1>5. BrokerType' /\ ProgramInv' /\ PinInv'
    BY <1>1, <1>3 DEF BrokerType, ProgramInv, PinInv, Guarded
  <1>6. LedgerInv'
    BY <1>1, <1>3 DEF LedgerInv, MidRow, Foreign
  <1>7. TaintInv'
    BY <1>1, <1>3 DEF TaintInv
  <1> QED
    BY <1>4, <1>5, <1>6, <1>7

-----------------------------------------------------------------------------
(* The whole system. *)

\* Before the first call.
LEMMA InitInv == BrokerInit => IInv
  <1> SUFFICES ASSUME BrokerInit PROVE IInv
    OBVIOUS
  <1>1. ChannelInv
    BY ChannelInit DEF BrokerInit
  <1> USE DEF BrokerInit
  <1>2. BrokerFlags
    BY Zenon DEF BrokerFlags
  <1>3. boot = 1 /\ gen = 1
    BY DEF Init
  <1>4. BrokerType /\ ProgramInv
    BY DEF BrokerType, ProgramInv, Guarded, NoPin, Rows
  <1>5. PinInv /\ LedgerInv /\ TaintInv
    BY <1>3 DEF PinInv, LedgerInv, TaintInv, NoPin
  <1> QED
    BY <1>1, <1>2, <1>4, <1>5 DEF IInv, BrokerInv

\* Whatever the broker does, the channel takes a step of its own specification or
\* none: what holds of the channel by itself holds of it in the broker's hands.
LEMMA BrokerStepsChannel == ASSUME [BrokerNext]_allvars PROVE ChannelStep
  <1>1. CASE UNCHANGED vars
    BY <1>1 DEF ChannelStep, vars, observer
  <1>2. CASE HostChanges
    BY <1>2 DEF ChannelStep, HostChanges
  <1>3. CASE Environment \/ ServerObserves \/ ServerCloses \/ Ask \/ Observe \/ ObserveRefused
    BY <1>3 DEF ChannelStep, Next, Channel, ServerObserves, ServerCloses, Ask,
       Observe, ObserveRefused
  <1>4. CASE (\E p \in Phases : Call(p)) \/ Compare \/ Act \/ Local \/ WriteRow \/ Advance \/ Publish
    <2>1. UNCHANGED vars
      BY <1>4 DEF Call, Compare, Act, Local, WriteRow, Advance, Publish
    <2> QED
      BY <1>1, <2>1
  <1> QED
    BY <1>1, <1>2, <1>3, <1>4 DEF BrokerNext, allvars

\* A step that changes nothing.
LEMMA StutterStep == ASSUME IInv, UNCHANGED allvars PROVE BrokerInv'
  <1> USE DEF IInv, BrokerInv
  <1>1. /\ UNCHANGED <<lost, ledger, pin, hist, phase, prog, published, broken, tainted, late>>
        /\ UNCHANGED <<boot, gen, stage, sent, inbox>>
    BY DEF allvars, vars, observer, wire, channel, broker, host, pins, history
  <1>2. BrokerFlags'
    BY <1>1, Zenon DEF BrokerFlags
  <1> QED
    BY <1>1, <1>2 DEF BrokerType, ProgramInv, PinInv, LedgerInv, TaintInv, Doomed,
       Moved, Beyond,
       Foreign, MidRow, Guarded, CheckAt, AtLedger, AtPeer, AtObserve

\* Every step keeps the invariant.
LEMMA NextInv == IInv /\ [BrokerNext]_allvars => IInv'
  <1> SUFFICES ASSUME IInv, [BrokerNext]_allvars PROVE IInv'
    OBVIOUS
  <1>1. ChannelInv'
    BY BrokerStepsChannel, ChannelNext DEF IInv
  <1>2. BrokerInv'
    <2>1. CASE Environment /\ UNCHANGED broker
      BY <2>1, EnvironmentStep
    <2>2. CASE HostChanges
      BY <2>2, HostStep
    <2>3. CASE ServerObserves \/ ServerCloses
      BY <2>3, ServerStep
    <2>4. CASE \E p \in Phases : Call(p)
      BY <2>4, CallStep
    <2>5. CASE Ask \/ Observe \/ ObserveRefused
      BY <2>5, AskStep, ObserveStep, ObserveRefusedStep
    <2>6. CASE Compare \/ Act \/ Local
      BY <2>6, CompareStep, ActStep, LocalStep
    <2>7. CASE WriteRow \/ Advance \/ Publish
      BY <2>7, WriteRowStep, AdvanceStep, PublishStep
    <2>8. CASE UNCHANGED allvars
      BY <2>8, StutterStep
    <2> QED
      BY <2>1, <2>2, <2>3, <2>4, <2>5, <2>6, <2>7, <2>8 DEF BrokerNext
  <1> QED
    BY <1>1, <1>2 DEF IInv

\* The inductive invariant holds in every reachable state of the broker and its
\* channel, whatever the bounds.
THEOREM Invariance == BrokerSpec => []IInv
  BY InitInv, NextInv, PTL DEF BrokerSpec

\* _Observer.observe: all observations the server ever accepts are of one version of
\* the policy, which agrees with the signed binding, though the observer may answer
\* late, twice, or start over and count its generations from one again.
THEOREM ObservationsAgree == BrokerSpec => []OneVersion
  <1>1. IInv => OneVersion
    BY ChannelOneVersion DEF IInv
  <1> QED
    BY <1>1, Invariance, PTL

\* _Observer.observe: an answer is accepted only if it is of a version the policy had
\* between this request and the answer, and no place of the chain is asked for twice.
THEOREM ObservationsAreFresh == BrokerSpec => FreshView
  <1>1. IInv /\ [BrokerNext]_allvars
          => [/\ accepted' # accepted => accepted'[Len(accepted')].version \in asked..version
              /\ sent' # sent
                   => \A i \in 1..Len(sent) : sent[i].seq # sent'[Len(sent')].seq]_vars
    BY BrokerStepsChannel, FreshStep DEF IInv, Fresh
  <1> QED
    BY <1>1, Invariance, PTL DEF BrokerSpec, FreshView

\* The phases of the broker channel: what a call publishes it did while policy,
\* process, authority and ledger were those the dispatch pinned.
THEOREM PublishedInThePinnedWorld == BrokerSpec => []PublishedUnderPin
  <1>1. IInv => PublishedUnderPin
    BY DEF IInv, BrokerInv, TaintInv, PublishedUnderPin
  <1> QED
    BY <1>1, Invariance, PTL

\* The effects of the broker channel: of all datagrams, connections, handshakes, posts
\* and rows of an operation at most one happens after the world has changed.
THEOREM AtMostOneLateEffect == BrokerSpec => []OneLateEffect
  <1>1. IInv => OneLateEffect
    BY DEF IInv, BrokerInv, TaintInv, OneLateEffect
  <1> QED
    BY <1>1, Invariance, PTL
=============================================================================
