---------------------------- MODULE MeshcorePoll ----------------------------
(***************************************************************************)
(* The MeshCore client of meshcore.rs: blocking polls of telemetry         *)
(* producers over the radio queues, with the packets of the protocol       *)
(* library (client.rs) and the passive observations made on the way.       *)
(*                                                                         *)
(* Frames cross the air in any order, may be lost, repeated and delayed    *)
(* past the end of the poll that asked for them.  Time passes in steps of  *)
(* MESHCORE_RESPONSE_WAIT_STEP_MS; the radio moves only in the main loop   *)
(* and in the maintenance of such a step.  The plain text of a response is *)
(* its tag and what the byte behind the tag looks like: "ok" for 0 or OK   *)
(* (LOGIN_RESPONSE_STATUS_OFFSET), "other", "unreadable" when there is no  *)
(* such byte; "short" is a body too short to hold the two addresses.       *)
(***************************************************************************)
EXTENDS MeshPacket, FiniteSets

CONSTANTS
    Producers,   \* configured and enabled
    Repeaters,   \* those that want a login first
    Strangers,   \* other nodes in range
    QUEUE_STARTUP_ADVERT, \* false in the firmware as it is built
    PathReturners, \* those that answer in a path return
    Nobody,
    LoginSteps,  \* MESHCORE_LOGIN_TIMEOUT_MS in steps
    AnswerSteps, \* MESHCORE_RESPONSE_TIMEOUT_MS in steps
    RxCap, TxCap,\* lengths of the radio queues
    MaxPolls,    \* bound of the model: polls
    MaxExtras    \* bound of the model: foreign frames and repeats together

Nodes == Producers \cup Strangers

ASSUME MeshAssumption ==
    /\ QUEUE_STARTUP_ADVERT \in BOOLEAN
    /\ IsFiniteSet(Producers)
    /\ Repeaters \subseteq Producers /\ PathReturners \subseteq Producers
    /\ Producers \cap Strangers = {} /\ {Nobody, Gateway} \cap Nodes = {}
    /\ Producers \subseteq DOMAIN PublicText /\ Strangers \subseteq DOMAIN Route
    /\ {LoginSteps, AnswerSteps, RxCap, TxCap} \subseteq Nat \ {0}
    /\ {MaxPolls, MaxExtras} \subseteq Nat

VARIABLES
    pc,        \* "idle" (main loop), "pass" (between polls), "drain", "wait"
    due,       \* producers the pass has still to poll
    poll,      \* the poll under way: locals of poll_producer_blocking and its waits
    tag,       \* NEXT_REQUEST_TAG, as the number of tags taken
    polls,     \* number of polls begun
    txq, rxq,  \* RADIO_TX_QUEUE (with the poll of each frame), RADIO_RX_QUEUE
    air,       \* responses on their way to the gateway
    store,     \* store[p]: poll whose answer p's telemetry is, observations merged since
    outcome,   \* outcome[p]: "none", "ok" or the PollFailureReason of p's last poll
    left,      \* history, left[p]: p's observations that left the RX queue since then
    refused,   \* history: repeaters that refused a login
    heard, faults \* foreign frames and repeats so far

meshVars == <<pc, due, poll, tag, polls, txq, rxq, air, store, outcome,
              left, refused, heard, faults>>

Response(src, dst, number, look, n) ==
    [kind |-> "response", src |-> src, dst |-> dst, tag |-> number, look |-> look, poll |-> n]
Observation(src, n) == [kind |-> "observation", src |-> src, number |-> n]

\* dst is "alike" when it is another node with the gateway's path hash.
Frames ==
    [kind : {"response"}, src : Nodes, dst : {"gateway", "alike", "other"}, tag : Nat,
     look : {"ok", "other", "unreadable", "short"}, poll : 0..MaxPolls]
    \cup [kind : {"observation"}, src : Nodes, number : 1..MaxExtras]

Reasons == {"InvalidConfig", "TxQueueFull", "AuthFailed", "DecodeFailed", "ResponseMacFailed",
            "ResponseTagMismatch", "ResponseTimeout", "MeshResponseNotSeen",
            "NothingHeard"}

NoPoll == [producer |-> Nobody, phase |-> "none", tag |-> 0, elapsed |-> 0,
           error |-> "none", seen |-> "nothing"]

MeshTypeOK ==
    /\ pc \in {"idle", "pass", "drain", "wait"}
    /\ due \subseteq Producers
    /\ poll \in [producer : Producers \cup {Nobody}, phase : {"none", "login", "answer"},
                 tag : Nat, elapsed : 0..(LoginSteps + AnswerSteps),
                 error : Reasons \cup {"none"}, seen : {"nothing", "frame", "response"}]
    /\ (poll.producer = Nobody) <=> pc \in {"idle", "pass"}
    /\ tag \in Nat /\ polls \in 0..MaxPolls
    /\ \A i \in DOMAIN txq : /\ txq[i].frame.kind \in {"advert", "anon", "request"}
                             /\ txq[i].poll \in 0..MaxPolls
    /\ rxq \in Seq(Frames)
    /\ Len(txq) <= TxCap /\ Len(rxq) <= RxCap
    /\ air \subseteq Frames
    /\ store \in [Producers -> [active : 0..MaxPolls, heard : SUBSET (1..MaxExtras)]]
    /\ outcome \in [Producers -> Reasons \cup {"none", "ok"}]
    /\ left \in [Producers -> SUBSET (1..MaxExtras)]
    /\ refused \subseteq Repeaters
    /\ heard \in Nat /\ faults \in Nat /\ heard + faults <= MaxExtras

-----------------------------------------------------------------------------
(* Frames as they are on the wire, and the checks of a received one.        *)

Plain(f) == [tag |-> f.tag, look |-> f.look]

\* The packet of a frame; another node than the gateway shares another secret.
Wire(f) ==
    IF f.kind = "observation"
    THEN WireFrame("advert", [key |-> f.src, name |-> None, place |-> "none", whole |-> TRUE])
    ELSE LET returned == f.src \in PathReturners IN
         WireFrame(IF returned THEN "path" ELSE "response",
             IF f.look = "short" THEN None
             ELSE [dst |-> IF f.dst = "other" THEN 0 ELSE PathHash(Gateway),
                   src |-> PathHash(f.src),
                   sealed |-> EncryptThenMac(
                       IF f.dst = "gateway" THEN SharedSecret(f.src) ELSE {f.src},
                       IF returned THEN [segment |-> 0, extra |-> "response", behind |-> Plain(f)]
                       ELSE Plain(f))])

\* What a wait for p makes of a frame: a passive observation, a response of p that
\* opens ("none"), or the error of decrypt_response.
FrameVerdict(p, f) ==
    IF IsResponseFrame(Wire(f)) THEN DecryptResponse(p, Wire(f)).error ELSE "observation"

\* packet_error_is_background
Background(verdict) == verdict \in {"NotForGateway", "WrongSource"}

\* telemetry_response_lpp
AnswerVerdictUntagged(f, expected) == IF f.look = "unreadable" THEN "Decode" ELSE "payload"

AnswerVerdict(f, expected) ==
    CASE f.look = "unreadable" -> "Decode"
      [] f.look # "unreadable" /\ f.tag # expected -> "ResponseTagMismatch"
      [] OTHER -> "payload"

\* packet_error_to_reason, for the errors a wait can meet.
Reason(verdict) ==
    CASE verdict = "Mac"    -> "ResponseMacFailed"
      [] verdict = "Decode" -> "DecodeFailed"
      [] OTHER              -> verdict

\* classify_timeout.  "NothingHeard" stands for the four reasons between which the
\* sampled counters of the radio decide when no frame was taken from the queue.
Classify ==
    CASE poll.error # "none" -> poll.error
      [] poll.error = "none" /\ poll.seen = "response" -> "ResponseTimeout"
      [] poll.error = "none" /\ poll.seen = "frame"    -> "MeshResponseNotSeen"
      [] poll.error = "none" /\ poll.seen = "nothing"  -> "NothingHeard"

-----------------------------------------------------------------------------
(* The telemetry store, as far as the client writes it.                     *)

IsResponse(f) == IsResponseFrame(Wire(f))

\* The observations among some frames: of whom (the radio noted the key) and which.
Overheard(frames) ==
    {[of |-> PacketMeta(Wire(f)).advert.key, number |-> f.number] :
        f \in {g \in frames : ~IsResponse(g)}}

Numbers(p, overheard) == {o.number : o \in {each \in overheard : each.of = p}}

Merged(overheard) ==
    [p \in Producers |-> [store[p] EXCEPT !.heard = @ \cup Numbers(p, overheard)]]

ObserveIdle(overheard) == store' = IF pc = "drain" THEN store ELSE Merged(overheard)

\* record_passive_observation and drain_observations: merge_producer.
Observe(overheard) == store' = Merged(overheard)

Leave(overheard) == left' = [p \in Producers |-> left[p] \cup Numbers(p, overheard)]

-----------------------------------------------------------------------------
(* The poll: poll_producer_blocking.                                        *)

\* The poll is over: record_poll_failure stores the reason, or the scheduler the
\* success; the pass goes on with the next producer.
EndPoll(p, result) ==
    /\ pc' = "pass"
    /\ poll' = NoPoll
    /\ outcome' = [outcome EXCEPT ![p] = result]

\* request_nonce
RequestNonce(number, p) == <<number, p>>

\* Take a tag, enqueue the frame of this phase and wait for its answer from a
\* fresh baseline; a full queue ends the poll.
SendAndWait(p, phase, n) ==
    /\ tag' = tag + 1
    /\ \/ /\ Len(txq) = TxCap
          /\ EndPoll(p, "TxQueueFull")
          /\ UNCHANGED txq
       \/ /\ Len(txq) < TxCap
          /\ txq' = Append(txq, [frame |-> IF phase = "login" THEN LoginRequest(p, tag)
                                           ELSE TelemetryRequest(p, tag, RequestNonce(tag, p)),
                                 poll |-> n])
          /\ pc' = "drain"
          /\ poll' = [NoPoll EXCEPT !.producer = p, !.phase = phase, !.tag = tag]
          /\ UNCHANGED outcome

\* The scheduler's tick begins: some producers are due.
BeginPass ==
    /\ pc = "idle"
    /\ \E d \in SUBSET Producers :
          /\ polls + Cardinality(d) <= MaxPolls
          /\ due' = d
    /\ pc' = "pass"
    /\ UNCHANGED <<poll, tag, polls, txq, rxq, air, store, outcome, left,
                   refused, heard, faults>>

StartPoll(p) ==
    /\ pc = "pass" /\ p \in due
    /\ due' = due \ {p}
    /\ polls' = polls + 1
    /\ \/ /\ ~(IdentityIsValid /\ ContactIsValid(p))
          /\ EndPoll(p, "InvalidConfig")
          /\ UNCHANGED <<tag, txq>>
       \/ /\ IdentityIsValid /\ ContactIsValid(p)
          /\ SendAndWait(p, IF p \in Repeaters THEN "login" ELSE "answer", polls + 1)
    /\ UNCHANGED <<rxq, air, store, left, refused, heard, faults>>

\* The tick ends: drain_observations empties the RX queue.
EndPass ==
    /\ pc = "pass" /\ due = {}
    /\ \E overheard \in {Overheard({rxq[i] : i \in DOMAIN rxq})} :
          Observe(overheard) /\ Leave(overheard)
    /\ rxq' = <<>>
    /\ pc' = "idle"
    /\ UNCHANGED <<due, poll, tag, polls, txq, air, outcome, refused, heard,
                   faults>>

-----------------------------------------------------------------------------
(* wait_for_login and wait_for_telemetry take the next frame of the queue.  *)

See(what) == [poll EXCEPT !.seen = IF what = "frame" /\ @ = "response" THEN @ ELSE what]

Fails(verdict) == poll' = [See("response") EXCEPT !.error = Reason(verdict)]

GoOn == UNCHANGED <<pc, tag, txq, store, outcome, left>>

\* The polled producer answers while its login is awaited.
LoginResponse(p, f) ==
    \/ /\ LoginVerdict(Plain(f)) = "accepted"
       /\ SendAndWait(p, "answer", polls)
       /\ UNCHANGED <<store, left>>
    \/ /\ LoginVerdict(Plain(f)) = "AuthFailed"
       /\ EndPoll(p, "AuthFailed")
       /\ UNCHANGED <<tag, txq, store, left>>
    \/ /\ LoginVerdict(Plain(f)) = "Decode"
       /\ Fails("Decode")
       /\ GoOn

\* The polled producer answers while its telemetry is awaited: what looks like a
\* login is skipped, and the answer with the request's tag replaces the telemetry.
AnswerResponse(p, f) ==
    \/ /\ LooksLikeLogin(Plain(f))
       /\ poll' = See("response")
       /\ GoOn
    \/ /\ ~LooksLikeLogin(Plain(f)) /\ AnswerVerdict(f, poll.tag) = "payload"
       /\ EndPoll(p, "ok")
       /\ store' = [store EXCEPT ![p] = [active |-> f.poll, heard |-> {}]]
       /\ left' = [left EXCEPT ![p] = {}]
       /\ UNCHANGED <<tag, txq>>
    \/ /\ ~LooksLikeLogin(Plain(f)) /\ AnswerVerdict(f, poll.tag) # "payload"
       /\ Fails(AnswerVerdict(f, poll.tag))
       /\ GoOn

\* A response of somebody else, or one that does not decrypt.
BadResponse(p, verdict) ==
    \/ /\ Background(verdict)
       /\ poll' = See("frame")
       /\ GoOn
    \/ /\ ~Background(verdict)
       /\ Fails(verdict)
       /\ GoOn

DrainFrame ==
    /\ pc = "drain" /\ rxq # <<>>
    /\ rxq' = Tail(rxq)
    /\ \E f \in {Head(rxq)} : \E verdict \in {FrameVerdict(poll.producer, f)} :
          \/ /\ verdict = "observation"
             /\ \E overheard \in {Overheard({f})} : Observe(overheard) /\ Leave(overheard)
             /\ poll' = See("frame")
             /\ UNCHANGED <<pc, tag, txq, outcome>>
          \/ /\ verdict = "none"
             /\ \/ poll.phase = "login" /\ LoginResponse(poll.producer, f)
                \/ poll.phase = "answer" /\ AnswerResponse(poll.producer, f)
          \/ /\ verdict \notin {"observation", "none"}
             /\ BadResponse(poll.producer, verdict)
    /\ UNCHANGED <<due, polls, air, refused, heard, faults>>

\* The queue is empty: maintenance_delay runs the radio for one step.
BeginStep ==
    /\ pc = "drain" /\ rxq = <<>>
    /\ pc' = "wait"
    /\ UNCHANGED <<due, poll, tag, polls, txq, rxq, air, store, outcome, left,
                   refused, heard, faults>>

\* The step is over: look at the queue again, or time out without looking.
EndStep ==
    /\ pc = "wait"
    /\ LET limit == IF poll.phase = "login" THEN LoginSteps ELSE AnswerSteps
       IN  \/ /\ poll.elapsed + 1 < limit
              /\ poll' = [poll EXCEPT !.elapsed = @ + 1]
              /\ pc' = "drain"
              /\ UNCHANGED outcome
           \/ /\ poll.elapsed + 1 >= limit
              /\ EndPoll(poll.producer, Classify)
    /\ UNCHANGED <<due, tag, polls, txq, rxq, air, store, left, refused, heard,
                   faults>>

-----------------------------------------------------------------------------
(* The radio and the air, in the main loop and within a wait step.          *)

RadioRuns == pc \in {"idle", "wait"}

EnqueueRx(f) == rxq' = IF Len(rxq) < RxCap THEN Append(rxq, f) ELSE rxq

\* The node that shares the secret a request is closed with.
Addressed(frame) == CHOOSE p \in Producers : SharedSecret(p) = frame.body.sealed.secret

\* What the node may answer to a frame: an accepted or a refused login, or the
\* telemetry, which looks like an accepted login when there is nothing to report.
Answers(entry) ==
    LET plain == entry.frame.body.sealed.plain
        From(number, look) ==
            Response(Addressed(entry.frame), "gateway", number, look, entry.poll)
    IN  CASE entry.frame.kind = "anon" -> {From(0, look) : look \in {"ok", "other"}}
          [] entry.frame.kind = "request" ->
                 {From(plain.tag, look) : look \in {"ok", "other", "unreadable"}}
          [] OTHER -> {}

\* The head of the TX queue goes on air; its node may answer or not.
Transmit ==
    /\ RadioRuns /\ txq # <<>>
    /\ txq' = Tail(txq)
    /\ \/ UNCHANGED <<air, refused>>
       \/ \E f \in Answers(Head(txq)) :
             /\ air' = air \cup {f}
             /\ refused' = IF Head(txq).frame.kind = "anon" /\ f.look = "other"
                           THEN refused \cup {f.src} ELSE refused
    /\ UNCHANGED <<pc, due, poll, tag, polls, rxq, store, outcome, left, heard,
                   faults>>

\* A response reaches the gateway, possibly to come again.
Receive ==
    /\ RadioRuns
    /\ \E f \in air :
          /\ EnqueueRx(f)
          /\ \/ air' = air \ {f} /\ UNCHANGED faults
             \/ heard + faults < MaxExtras /\ faults' = faults + 1 /\ UNCHANGED air
    /\ UNCHANGED <<pc, due, poll, tag, polls, txq, store, outcome, left, refused, heard>>

\* Frames of other exchanges.
Foreign(n) ==
    {Observation(src, n) : src \in Nodes}
    \cup {Response(src, "alike", 0, "other", 0) : src \in Nodes}
    \cup {Response(src, "other", 0, look, 0) : src \in Strangers, look \in {"other", "short"}}

Overhear ==
    /\ RadioRuns /\ heard + faults < MaxExtras
    /\ heard' = heard + 1
    /\ \E f \in Foreign(heard') : EnqueueRx(f)
    /\ UNCHANGED <<pc, due, poll, tag, polls, txq, air, store, outcome, left, refused,
                   faults>>

-----------------------------------------------------------------------------

\* queue_startup_advert
QueueStartupAdvert ==
    IF QUEUE_STARTUP_ADVERT /\ IdentityIsValid
    THEN <<[frame |-> GatewayAdvert(Gateway), poll |-> 0]>>
    ELSE <<>>

MeshInit ==
    /\ pc = "idle" /\ due = {} /\ poll = NoPoll
    /\ tag = 1 /\ polls = 0
    /\ txq = QueueStartupAdvert /\ rxq = <<>>
    /\ air = {}
    /\ store = [p \in Producers |-> [active |-> 0, heard |-> {}]]
    /\ outcome = [p \in Producers |-> "none"]
    /\ left = [p \in Producers |-> {}]
    /\ refused = {}
    /\ heard = 0 /\ faults = 0

Client ==
    \/ \E p \in Producers : StartPoll(p)
    \/ EndPass \/ DrainFrame \/ BeginStep \/ EndStep

Radio == Transmit \/ Receive \/ Overhear

MeshNext == BeginPass \/ Client \/ Radio

MeshSpec == MeshInit /\ [][MeshNext]_meshVars

\* A poll blocks the loop: its waits run on the clock and nothing preempts them.
MeshFairSpec == MeshSpec /\ WF_meshVars(Client)

-----------------------------------------------------------------------------
(* Properties.                                                              *)

\* An exchange ends, and telemetry that a poll stores was sent in answer to the
\* request of this very poll, however late, often or out of order the answers to
\* earlier requests arrive (poll_producer_blocking, telemetry_response_lpp).
Exchange == INSTANCE PollExchange WITH
    asked <- poll.producer, turn <- polls, known <- [p \in Producers |-> store[p].active]
KeepsExchange == Exchange!ExchangeSpec

\* Every observation of a producer that leaves the RX queue is merged into its
\* telemetry, whichever loop takes it out: "Nonmatching frames are still
\* considered for passive producer observations before they are discarded".
ObservationsKept == \A p \in Producers : store[p].heard = left[p]

=============================================================================
