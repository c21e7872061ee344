---------------------------- MODULE BrokerGuards ----------------------------
(***************************************************************************)
(* The guards of the capacity broker's phases in live_proxy_server.py over *)
(* the observer channel they ask.  Dispatch, events, intent, API leg,      *)
(* exchange, CREATED row, result and retirement each compare the retained  *)
(* authority, the broker process, the ledger and the observed policy with  *)
(* what the dispatch pinned, perform one effect, compare again, and only   *)
(* then publish what they did.                                             *)
(*                                                                         *)
(* A phase is its program: the sequence of comparisons and effects its     *)
(* call performs.  A comparison is one read, an observation a request and  *)
(* its answer on the channel of ObserverChannel, and the world may change  *)
(* between any two steps: the policy, the observer, the broker process,    *)
(* the files or the clock, or somebody else appends to the ledger.         *)
(***************************************************************************)
EXTENDS ObserverChannel, Integers

VARIABLES
  lost,       \* what no longer holds: "base", "peer"
  ledger,     \* the rows from the RUNNING row on
  pin,        \* observation_pin of the dispatch: boot and generation
  hist,       \* ledger_raw: the history the guards demand
  phase,      \* the phase being executed, or "none"
  prog,       \* what is left of its program
  published,  \* phases that have returned
  pending,    \* an action of the broker waits for its result
  writing,    \* a row write has begun
  poisoned,   \* log.poisoned
  broken,     \* the broker channel is closed for good
  tainted,    \* phases with an effect in a world that had changed (history)
  late        \* effects outside the process in such a world (history)

host == <<lost, ledger>>
pins == <<pin, hist>>
log == <<writing, poisoned>>
history == <<tainted, late>>
broker == <<host, pins, phase, prog, published, pending, log, broken, history>>
allvars == <<vars, broker>>

NoPin == <<0, 0>>

\* _BrokerStart._check, as every other guard reaches it: the owners, files and
\* clock, the ledger, the peer around one observation, the ledger again.
Check == <<"base", "ledger", "peer", "observe", "peer", "ledger">>

BeginProgram == Check \o <<"send">> \o Check \o <<"receive">> \o Check
PollProgram == Check \o <<"receive">> \o Check \o <<"action">> \o Check
IntentProgram == Check \o <<"row", "readback", "advance">> \o Check
ApiProgram == Check \o <<"connect">> \o Check \o <<"handshake">> \o Check
ExchangeProgram == Check \o <<"post">> \o Check \o <<"receive">> \o Check
CreatedProgram == Check \o <<"row", "readback", "advance">> \o Check

\* Mutant of ResultProgram: a datagram that was sent is a result that was sent.
ResultUnchecked == Check \o <<"send">>
ResultProgram == Check \o <<"send">> \o Check
RetireProgram == Check \o <<"closeapi">> \o Check \o <<"retired">> \o Check

Program(p) ==
  CASE p = "begin" -> BeginProgram
    [] p = "poll" -> PollProgram
    [] p = "intent" -> IntentProgram
    [] p = "api" -> ApiProgram
    [] p = "exchange" -> ExchangeProgram
    [] p = "created" -> CreatedProgram
    [] p = "result" -> ResultProgram
    [] p = "retire" -> RetireProgram

Phases == {"begin", "poll", "intent", "api", "exchange", "created", "result", "retire"}
RowOf(p) == IF p = "intent" THEN "CREATE_INTENT" ELSE "CREATED"

\* Which phase may follow: each once, poll until an action is pending.
Requires(p) ==
  CASE p = "begin" -> {}
    [] p = "poll" -> {"begin"}
    [] p \in {"intent", "api"} -> {"poll"}
    [] p = "exchange" -> {"intent", "api"}
    [] p = "created" -> {"exchange"}
    [] p = "result" -> {"created"}
    [] p = "retire" -> {"result"}

BrokerInit ==
  /\ Init
  /\ lost = {} /\ ledger = <<"RUNNING">>
  /\ pin = NoPin /\ hist = <<"RUNNING">>
  /\ phase = "none" /\ prog = <<>>
  /\ published = {} /\ pending = FALSE
  /\ writing = FALSE /\ poisoned = FALSE /\ broken = FALSE
  /\ tainted = {} /\ late = 0

-----------------------------------------------------------------------------
\* _phase: one call at a time on a channel that has not failed.  The dispatch
\* follows an observation of the server's own and reads the history it will
\* demand: its last row must be RUNNING.
Call(p) ==
  /\ ~broken /\ phase = "none"
  /\ p \notin published
  /\ Requires(p) \subseteq published
  /\ p = "begin" => /\ stage = "idle" /\ ~failed /\ accepted # <<>>
                    /\ ledger[Len(ledger)] = "RUNNING"
  /\ hist' = IF p = "begin" THEN ledger ELSE hist
  /\ phase' = p
  /\ prog' = Program(p)
  /\ UNCHANGED <<vars, host, pin, published, pending, log, broken, history>>

At(steps) == phase # "none" /\ prog # <<>> /\ Head(prog) \in steps

Passed ==
  /\ prog' = Tail(prog)
  /\ UNCHANGED <<host, phase, published, broken>>

\* A refusal anywhere closes the channel, and poisons the log if a row of it
\* may be in the ledger.
Refuse ==
  /\ broken' = TRUE
  /\ poisoned' = (poisoned \/ writing)
  /\ phase' = "none" /\ prog' = <<>>
  /\ UNCHANGED <<host, pins, published, pending, writing, history>>

\* observe(): the request goes out ...
Ask == At({"observe"}) /\ Send /\ UNCHANGED broker

\* ... and what was observed has the boot and generation of the pin, which the
\* first observation of the dispatch sets ...
Observe ==
  /\ At({"observe"})
  /\ Accept
  /\ LET seenPin == <<Head(inbox).boot, Head(inbox).gen>>
     IN  \/ /\ pin \in {NoPin, seenPin}
            /\ pin' = seenPin
            /\ Passed
            /\ UNCHANGED <<hist, pending, log, history>>
         \/ pin \notin {NoPin, seenPin} /\ Refuse

\* ... or the channel refuses.
ObserveRefused == At({"observe"}) /\ (Reject \/ ObserveFails \/ PeerCheckFails) /\ Refuse

Compare ==
  /\ At({"base", "ledger", "peer", "readback"})
  /\ UNCHANGED vars
  /\ LET holds == CASE Head(prog) = "ledger" -> ledger = hist /\ ~poisoned
                    [] Head(prog) = "readback" -> ledger = Append(hist, RowOf(phase))
                    [] OTHER -> Head(prog) \notin lost
     IN  \/ /\ holds
            /\ Passed
            /\ UNCHANGED <<pins, pending, log, history>>
         \/ ~holds /\ Refuse

\* The world is the one the dispatch pinned.
Pinned == <<boot, gen>> = pin /\ lost = {} /\ ledger = hist

Effect(outside) ==
  /\ tainted' = IF Pinned THEN tainted ELSE tainted \cup {phase}
  /\ late' = IF outside /\ ~Pinned THEN late + 1 ELSE late

\* Mutant of Act: an effect that raised is tried again.
ActRetries ==
  /\ At({"send", "connect", "handshake", "post"})
  /\ Effect(TRUE)
  /\ Passed \/ UNCHANGED <<host, phase, prog, published, broken>>
  /\ UNCHANGED <<vars, pins, pending, log>>

\* A datagram, a connection, a handshake, the POST; each may raise after it
\* has had its effect.
Act ==
  /\ At({"send", "connect", "handshake", "post"})
  /\ Effect(TRUE)
  /\ \/ Passed /\ UNCHANGED poisoned
     \/ /\ broken' = TRUE
        /\ poisoned' = (poisoned \/ writing)
        /\ phase' = "none" /\ prog' = <<>>
        /\ UNCHANGED <<host, published>>
  /\ UNCHANGED <<vars, pins, pending, writing>>

\* What stays inside the process: a frame or an answer that came, the action
\* in the transcript, the closed API leg, the retired action.  An idle poll
\* ends with nothing.
Local ==
  /\ At({"receive", "action", "closeapi", "retired"})
  /\ UNCHANGED vars
  /\ \/ /\ Effect(FALSE)
        /\ pending' = IF Head(prog) = "action" THEN TRUE
                      ELSE IF Head(prog) = "retired" THEN FALSE ELSE pending
        /\ Passed
        /\ UNCHANGED <<pins, log>>
     \/ Refuse
     \/ /\ phase = "poll" /\ Head(prog) = "receive"
        /\ phase' = "none" /\ prog' = <<>>
        /\ UNCHANGED <<host, pins, published, pending, log, broken, history>>

\* record_resource with the expected history, which it compares under the
\* ledger's lock; the write may be ambiguous.
WriteRow ==
  /\ At({"row"})
  /\ writing' = TRUE
  /\ \/ /\ ledger = hist
        /\ ledger' = Append(ledger, RowOf(phase))
        /\ Effect(TRUE)
        /\ \/ prog' = Tail(prog) /\ UNCHANGED <<phase, broken, poisoned>>
           \/ prog' = <<>> /\ phase' = "none" /\ broken' = TRUE /\ poisoned' = TRUE
     \/ /\ prog' = <<>> /\ phase' = "none" /\ broken' = TRUE /\ poisoned' = TRUE
        /\ UNCHANGED <<ledger, history>>
  /\ UNCHANGED <<vars, lost, pins, published, pending>>

\* Only the exact row that was read back advances the history.
Advance ==
  /\ At({"advance"})
  /\ hist' = Append(hist, RowOf(phase))
  /\ Passed
  /\ UNCHANGED <<vars, pin, pending, log, history>>

\* The program is done: the call returns and what it did may be used.
Publish ==
  /\ phase # "none" /\ prog = <<>>
  /\ published' = published \cup {phase}
  /\ phase' = "none"
  /\ UNCHANGED <<vars, host, pins, prog, pending, log, broken, history>>

-----------------------------------------------------------------------------
HostChanges ==
  /\ Change
  /\ \/ \E what \in {"base", "peer"} : lost' = lost \cup {what} /\ UNCHANGED ledger
     \/ ledger' = Append(ledger, "FOREIGN") /\ UNCHANGED lost
  /\ UNCHANGED <<version, matches, boot, gen, alive, wire, channel, custody>>
  /\ UNCHANGED <<pins, phase, prog, published, pending, log, broken, history>>

\* Before it dispatches the server uses the observer by itself; a broker that
\* has failed makes it close everything.
ServerObserves ==
  /\ phase = "none" /\ published = {} /\ ~broken
  /\ Channel
  /\ UNCHANGED broker

ServerCloses == broken /\ Close /\ UNCHANGED broker

BrokerNext ==
  \/ ~broken /\ Environment /\ UNCHANGED broker
  \/ ~broken /\ HostChanges
  \/ ServerObserves \/ ServerCloses
  \/ \E p \in Phases : Call(p)
  \/ Ask \/ Observe \/ ObserveRefused
  \/ Compare \/ Act \/ Local \/ WriteRow \/ Advance \/ Publish

BrokerSpec == BrokerInit /\ [][BrokerNext]_allvars

-----------------------------------------------------------------------------
\* What a phase publishes it did in the pinned world: every effect of every
\* phase that returned happened while the policy, the broker process, the
\* authority and the ledger were what the one dispatch had pinned, though each
\* was read at another moment.
PublishedUnderPin == published \cap tainted = {}

\* A change stops the operation: at most the one effect that had already
\* passed its guard reaches the broker, the API server or the ledger after it.
OneLateEffect == late <= 1
=============================================================================
