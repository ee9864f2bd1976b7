------------------------ MODULE MeshcorePollProofs -------------------------
(***************************************************************************)
(* Proofs about the MeshCore client: for any producers, repeaters and      *)
(* strangers, any queue lengths and timeouts, and any number of polls,     *)
(* foreign frames and repeats.                                             *)
(***************************************************************************)
EXTENDS MeshcorePoll, SequenceTheorems, FiniteSetTheorems, TLAPS

PollState == [producer : Producers \cup {Nobody}, phase : {"none", "login", "answer"},
              tag : Nat, elapsed : 0..(LoginSteps + AnswerSteps),
              error : Reasons \cup {"none"}, seen : {"nothing", "frame", "response"}]

\* A frame in the TX queue is an advert, or was closed for a producer; a login goes
\* to repeaters only.
QueueEntries ==
    [frame : {GatewayAdvert(Gateway)}
             \cup {LoginRequest(p, number) : p \in Repeaters, number \in Nat}
             \cup {TelemetryRequest(p, number, RequestNonce(number, p)) :
                       p \in Producers, number \in Nat},
     poll : 0..MaxPolls]

ClientInv ==
    /\ pc \in {"idle", "pass", "drain", "wait"} /\ due \subseteq Producers
    /\ poll \in PollState
    /\ (poll.producer = Nobody) <=> pc \in {"idle", "pass"}
    /\ tag \in Nat /\ polls \in 0..MaxPolls
    /\ outcome \in [Producers -> Reasons \cup {"none", "ok"}]

QueueInv ==
    /\ txq \in Seq(QueueEntries) /\ Len(txq) <= TxCap
    /\ rxq \in Seq(Frames) /\ Len(rxq) <= RxCap
    /\ air \subseteq Frames
    /\ refused \subseteq Repeaters
    /\ heard \in Nat /\ faults \in Nat /\ heard + faults <= MaxExtras

StoreInv ==
    /\ store \in [Producers -> [active : 0..MaxPolls, heard : SUBSET (1..MaxExtras)]]
    /\ left \in [Producers -> SUBSET (1..MaxExtras)]
    /\ ObservationsKept

\* A tag is of the past, and the tag of the request that is being waited for is of
\* this poll only.
OfPoll(number, n) ==
    /\ number < tag
    /\ poll.phase = "answer" /\ number = poll.tag => n = polls

Travelling == air \cup {rxq[i] : i \in DOMAIN rxq}

TagInv ==
    /\ poll.tag < tag /\ tag >= 1
    /\ poll.phase = "answer" => poll.tag >= 1
    /\ \A i \in DOMAIN txq : txq[i].frame.kind = "request" =>
          OfPoll(txq[i].frame.body.sealed.plain.tag, txq[i].poll)
    /\ \A f \in Travelling : f.kind = "response" => OfPoll(f.tag, f.poll)

\* The pass under way keeps within the polls that are counted.
DueInv == polls + Cardinality(due) <= MaxPolls

MeshInv == ClientInv /\ DueInv /\ QueueInv /\ StoreInv /\ TagInv

-----------------------------------------------------------------------------
(* Constants, frames and what is made of them                              *)

LEMMA MeshConstants ==
    /\ LoginSteps \in Nat /\ LoginSteps >= 1 /\ AnswerSteps \in Nat /\ AnswerSteps >= 1
    /\ RxCap \in Nat /\ RxCap >= 1 /\ TxCap \in Nat /\ TxCap >= 1
    /\ MaxPolls \in Nat /\ MaxExtras \in Nat
    /\ \A p \in Repeaters : p \in Producers
    /\ \A p \in Producers : p \in Nodes /\ p # Nobody /\ p # Gateway
    /\ QUEUE_STARTUP_ADVERT \in BOOLEAN
<1>1. /\ LoginSteps \in Nat \ {0} /\ AnswerSteps \in Nat \ {0}
      /\ RxCap \in Nat \ {0} /\ TxCap \in Nat \ {0}
      /\ MaxPolls \in Nat /\ MaxExtras \in Nat
  BY MeshAssumption
<1>2. /\ \A p \in Repeaters : p \in Producers
      /\ \A p \in Producers : p \in Nodes /\ p # Nobody /\ p # Gateway
  BY MeshAssumption DEF Nodes
<1>3. QUEUE_STARTUP_ADVERT \in BOOLEAN
  BY MeshAssumption, Zenon
<1> QED
  BY <1>1, <1>2, <1>3

LEMMA FrameFields ==
    ASSUME NEW f \in Frames
    PROVE  /\ f.kind \in {"response", "observation"} /\ f.src \in Nodes
           /\ f.kind = "response" =>
                 /\ f.tag \in Nat /\ f.poll \in 0..MaxPolls
                 /\ f.look \in {"ok", "other", "unreadable", "short"}
           /\ f.kind = "observation" => f.number \in 1..MaxExtras
BY DEF Frames

\* On the wire an observation is an advert, and a response can be told from it.
LEMMA FrameOnWire ==
    ASSUME NEW f \in Frames
    PROVE  /\ ParseWire(Wire(f)).error = "none"
           /\ IsResponse(f) <=> f.kind = "response"
<1>1. /\ Wire(f).parts = 5 /\ Wire(f).segment = 0
      /\ f.kind = "observation" => Wire(f).kind = "advert"
      /\ f.kind = "response" => Wire(f).kind \in {"response", "path"}
  BY DEF Wire, WireFrame
<1>2. /\ ParseWire(Wire(f)).error = "none"
      /\ ParseWire(Wire(f)).kind = Wire(f).kind
  BY <1>1 DEF ParseWire, PathIsSupported
<1> QED
  BY <1>1, <1>2, FrameFields DEF IsResponse, IsResponseFrame

LEMMA Verdicts ==
    ASSUME NEW f \in Frames, NEW p
    PROVE  /\ FrameVerdict(p, f) = "observation" <=> f.kind = "observation"
           /\ FrameVerdict(p, f) \in
                 {"observation", "none", "Decode", "Mac", "NotForGateway", "WrongSource"}
<1> DEFINE w == Wire(f)
           returned == f.src \in PathReturners
           verdict == DecryptResponse(p, w).error
<1>1. /\ ParseWire(w).error = "none" /\ (IsResponse(f) <=> f.kind = "response")
      /\ f.kind \in {"response", "observation"}
  BY FrameOnWire, FrameFields
<1>2. ASSUME NEW b
      PROVE  /\ DecryptDatagram(p, b).error
                   \in {"none", "Decode", "Mac", "NotForGateway", "WrongSource"}
             /\ DecryptDatagram(p, b).error = "none" =>
                   b # None /\ DecryptDatagram(p, b).plain = b.sealed.plain
  BY DEF DecryptDatagram, OpenSealed
<1>3. CASE f.kind = "observation"
  BY <1>1, <1>3 DEF FrameVerdict, IsResponse
<1>4. CASE f.kind = "response"
  <2>1. FrameVerdict(p, f) = verdict
    BY <1>1, <1>4 DEF FrameVerdict, IsResponse
  <2>2. /\ ParseWire(w).body = w.body /\ ParseWire(w).kind = w.kind
        /\ w.kind = IF returned THEN "path" ELSE "response"
        /\ returned /\ w.body # None =>
              w.body.sealed.plain = [segment |-> 0, extra |-> "response", behind |-> Plain(f)]
    BY <1>4 DEF Wire, WireFrame, ParseWire, PathIsSupported, EncryptThenMac
  <2> HIDE DEF w, returned
  <2>3. CASE ~returned
    <3>1. verdict = DecryptDatagram(p, w.body).error
      BY <1>1, <2>2, <2>3 DEF DecryptResponse
    <3> QED
      BY <1>2, <1>4, <2>1, <3>1
  <2>4. CASE returned
    <3>1. verdict = DecryptPath(p, w.body).error
      BY <1>1, <2>2, <2>4 DEF DecryptResponse
    <3>2. DecryptPath(p, w.body).error
             \in {"none", "Decode", "Mac", "NotForGateway", "WrongSource"}
      <4> DEFINE opened == DecryptDatagram(p, w.body)
      <4>1. /\ opened.error \in {"none", "Decode", "Mac", "NotForGateway", "WrongSource"}
            /\ opened.error = "none" =>
                  opened.plain = [segment |-> 0, extra |-> "response", behind |-> Plain(f)]
        BY <1>2, <2>2, <2>4
      <4>2. DecryptPath(p, w.body) =
               CASE opened.error # "none" -> opened
                 [] opened.error = "none" /\ ~PathIsSupported(opened.plain.segment) ->
                       [error |-> "UnsupportedRoute"]
                 [] opened.error = "none" /\ PathIsSupported(opened.plain.segment)
                    /\ opened.plain.extra # "response" -> [error |-> "Decode"]
                 [] OTHER -> [error |-> "none", plain |-> opened.plain.behind]
        BY Zenon DEF DecryptPath
      <4> HIDE DEF opened
      <4>3. opened.error = "none" =>
               PathIsSupported(opened.plain.segment) /\ opened.plain.extra = "response"
        BY <4>1 DEF PathIsSupported
      <4> QED
        BY <4>1, <4>2, <4>3
    <3> QED
      BY <1>4, <2>1, <3>1, <3>2
  <2> QED
    BY <2>3, <2>4
<1> QED
  BY <1>1, <1>3, <1>4

\* What is overheard among some frames is numbered as observations are.
LEMMA OverheardNumbers ==
    ASSUME NEW frames, frames \subseteq Frames, NEW p
    PROVE  Numbers(p, Overheard(frames)) \subseteq 1..MaxExtras
<1>1. ASSUME NEW o \in Overheard(frames) PROVE o.number \in 1..MaxExtras
  <2>1. PICK f \in frames : ~IsResponse(f) /\ o.number = f.number
    BY <1>1 DEF Overheard
  <2>2. f \in Frames
    BY <2>1
  <2>3. f.kind = "observation"
    BY <2>1, <2>2, FrameFields, FrameOnWire
  <2> QED
    BY <2>1, <2>2, <2>3, FrameFields
<1> QED
  BY <1>1 DEF Numbers

LEMMA EntryFields ==
    ASSUME NEW e \in QueueEntries
    PROVE  /\ e.poll \in 0..MaxPolls
           /\ e.frame.kind \in {"advert", "anon", "request"}
           /\ e.frame.kind = "request" =>
                 /\ e.frame.body.sealed.plain.tag \in Nat
                 /\ \E p \in Producers : e.frame.body.sealed.secret = SharedSecret(p)
           /\ e.frame.kind = "anon" =>
                 \E p \in Repeaters : e.frame.body.sealed.secret = SharedSecret(p)
<1>1. CASE e.frame = GatewayAdvert(Gateway)
  BY <1>1 DEF QueueEntries, GatewayAdvert, WireFrame
<1>2. ASSUME NEW p \in Repeaters, NEW number \in Nat, e.frame = LoginRequest(p, number)
      PROVE  /\ e.frame.kind = "anon" /\ e.frame.body.sealed.secret = SharedSecret(p)
  BY <1>2 DEF LoginRequest, WireFrame, EncryptThenMac
<1>3. ASSUME NEW p \in Producers, NEW number \in Nat,
             e.frame = TelemetryRequest(p, number, RequestNonce(number, p))
      PROVE  /\ e.frame.kind = "request" /\ e.frame.body.sealed.secret = SharedSecret(p)
             /\ e.frame.body.sealed.plain.tag = number
  BY <1>3 DEF TelemetryRequest, WireFrame, EncryptThenMac
<1>4. e.poll \in 0..MaxPolls
  BY DEF QueueEntries
<1>5. \/ e.frame = GatewayAdvert(Gateway)
      \/ \E p \in Repeaters, number \in Nat : e.frame = LoginRequest(p, number)
      \/ \E p \in Producers, number \in Nat :
            e.frame = TelemetryRequest(p, number, RequestNonce(number, p))
  BY DEF QueueEntries
<1> QED
  BY <1>1, <1>2, <1>3, <1>4, <1>5

\* Nobody but the node addressed shares the secret of a request.
LEMMA OneAddressee ==
    ASSUME NEW p \in Producers, NEW frame, frame.body.sealed.secret = SharedSecret(p)
    PROVE  Addressed(frame) = p
<1>1. \A q \in Producers : SharedSecret(q) = SharedSecret(p) => q = p
  BY MeshConstants DEF SharedSecret
<1>2. /\ Addressed(frame) \in Producers
      /\ SharedSecret(Addressed(frame)) = SharedSecret(p)
  BY Zenon DEF Addressed
<1> QED
  BY <1>1, <1>2

-----------------------------------------------------------------------------
(* Tags                                                                    *)

\* What becomes of the wait in one step: it goes on, it ends, or the next request
\* is sent with a tag of its own.
Moves ==
    \/ /\ poll'.phase = poll.phase /\ poll'.tag = poll.tag
       /\ tag' = tag /\ polls' = polls
    \/ poll'.phase = "none" /\ poll'.tag = 0 /\ tag' \in {tag, tag + 1}
    \/ poll'.phase \in {"login", "answer"} /\ poll'.tag = tag /\ tag' = tag + 1

OfNextPoll(number, n) ==
    /\ number < tag'
    /\ poll'.phase = "answer" /\ number = poll'.tag => n = polls'

\* Where the entries of a queue, and what travels, come from.
TxFrom ==
    \A i \in DOMAIN txq' :
        \/ \E j \in DOMAIN txq : txq'[i] = txq[j]
        \/ txq'[i].frame.kind = "request" =>
              OfNextPoll(txq'[i].frame.body.sealed.plain.tag, txq'[i].poll)

RxFrom ==
    \A f \in Travelling' :
        f \in Travelling \/ (f.kind = "response" => OfNextPoll(f.tag, f.poll))

LEMMA TagTypes ==
    ASSUME ClientInv, TagInv
    PROVE  /\ tag \in Nat /\ tag >= 1 /\ poll.tag \in Nat /\ poll.tag < tag
           /\ poll.phase \in {"none", "login", "answer"}
           /\ poll.phase = "answer" => poll.tag >= 1
BY DEF ClientInv, TagInv, PollState

LEMMA MovesKeep ==
    ASSUME ClientInv, TagInv, Moves
    PROVE  /\ tag' \in Nat /\ tag' >= 1 /\ poll'.tag < tag'
           /\ poll'.phase = "answer" => poll'.tag >= 1
           /\ \A number \in Nat : \A n : OfPoll(number, n) => OfNextPoll(number, n)
BY TagTypes DEF Moves, OfPoll, OfNextPoll

LEMMA TravellingFrames ==
    ASSUME QueueInv, NEW f \in Travelling
    PROVE  f \in Frames
<1>1. CASE f \in air
  BY <1>1 DEF QueueInv
<1>2. ASSUME NEW i \in DOMAIN rxq, f = rxq[i] PROVE f \in Frames
  BY <1>2 DEF QueueInv
<1> QED
  BY <1>1, <1>2 DEF Travelling

LEMMA TagsKept ==
    ASSUME ClientInv, QueueInv, TagInv, Moves, TxFrom, RxFrom
    PROVE  TagInv'
<1>1. ASSUME NEW i \in DOMAIN txq', txq'[i].frame.kind = "request"
      PROVE  OfNextPoll(txq'[i].frame.body.sealed.plain.tag, txq'[i].poll)
  <2>1. ASSUME NEW j \in DOMAIN txq, txq'[i] = txq[j]
        PROVE  OfNextPoll(txq'[i].frame.body.sealed.plain.tag, txq'[i].poll)
    <3>1. txq[j] \in QueueEntries
      BY DEF QueueInv
    <3>2. /\ txq[j].frame.body.sealed.plain.tag \in Nat
          /\ OfPoll(txq[j].frame.body.sealed.plain.tag, txq[j].poll)
      BY <1>1, <2>1, <3>1, EntryFields DEF TagInv
    <3> QED
      BY <2>1, <3>2, MovesKeep
  <2> QED
    BY <1>1, <2>1 DEF TxFrom
<1>2. ASSUME NEW f \in Travelling', f.kind = "response" PROVE OfNextPoll(f.tag, f.poll)
  <2>1. CASE f \in Travelling
    <3>1. f.tag \in Nat /\ OfPoll(f.tag, f.poll)
      BY <1>2, <2>1, TravellingFrames, FrameFields DEF TagInv
    <3> QED
      BY <3>1, MovesKeep
  <2> QED
    BY <1>2, <2>1 DEF RxFrom
<1> QED
  BY <1>1, <1>2, MovesKeep DEF TagInv, OfPoll, OfNextPoll

-----------------------------------------------------------------------------
(* Queues and store                                                        *)

LEMMA TailOf ==
    ASSUME NEW S, NEW s \in Seq(S), s # << >>
    PROVE  /\ Head(s) \in S /\ Tail(s) \in Seq(S) /\ Len(Tail(s)) <= Len(s)
           /\ 1 \in DOMAIN s /\ Head(s) = s[1]
           /\ \A i \in DOMAIN Tail(s) : \E j \in DOMAIN s : Tail(s)[i] = s[j]
<1>1. /\ Tail(s) \in Seq(S) /\ Len(s) \in Nat /\ Len(s) >= 1 /\ Len(Tail(s)) = Len(s) - 1
      /\ DOMAIN s = 1..Len(s) /\ DOMAIN Tail(s) = 1..Len(Tail(s))
      /\ \A i \in 1..Len(Tail(s)) : Tail(s)[i] = s[i + 1]
  OBVIOUS
<1>2. Head(s) \in S /\ Head(s) = s[1]
  OBVIOUS
<1> QED
  BY <1>1, <1>2

LEMMA AppendOf ==
    ASSUME NEW S, NEW s \in Seq(S), NEW e \in S
    PROVE  /\ Append(s, e) \in Seq(S) /\ Len(Append(s, e)) = Len(s) + 1
           /\ \A i \in DOMAIN Append(s, e) :
                 Append(s, e)[i] = e \/ \E j \in DOMAIN s : Append(s, e)[i] = s[j]
<1>1. /\ Append(s, e) \in Seq(S) /\ Len(s) \in Nat /\ Len(Append(s, e)) = Len(s) + 1
      /\ DOMAIN s = 1..Len(s) /\ DOMAIN Append(s, e) = 1..Len(s) + 1
      /\ \A i \in 1..Len(s) : Append(s, e)[i] = s[i]
      /\ Append(s, e)[Len(s) + 1] = e
  OBVIOUS
<1> QED
  BY <1>1

LEMMA TxSame == txq' = txq => TxFrom
BY DEF TxFrom

LEMMA RxSame == air' = air /\ rxq' = rxq => RxFrom
BY DEF RxFrom, Travelling

\* The client takes a frame from the queue, or all of them.
LEMMA RxTaken ==
    ASSUME QueueInv, air' = air, rxq' = << >> \/ (rxq # << >> /\ rxq' = Tail(rxq))
    PROVE  rxq' \in Seq(Frames) /\ Len(rxq') <= RxCap /\ RxFrom
<1>1. rxq \in Seq(Frames) /\ Len(rxq) <= RxCap /\ Len(rxq) \in Nat
  BY DEF QueueInv
<1>2. CASE rxq' = << >>
  BY <1>1, <1>2, MeshConstants DEF RxFrom, Travelling
<1>3. CASE rxq # << >> /\ rxq' = Tail(rxq)
  <2>1. /\ rxq' \in Seq(Frames) /\ Len(rxq') <= Len(rxq) /\ Len(rxq') \in Nat
        /\ \A i \in DOMAIN rxq' : \E j \in DOMAIN rxq : rxq'[i] = rxq[j]
    BY <1>1, <1>3, TailOf
  <2>2. RxFrom
    BY <2>1 DEF RxFrom, Travelling
  <2> QED
    BY <1>1, <2>1, <2>2, MeshConstants
<1> QED
  BY <1>2, <1>3

\* What a poll stored of each producer, as the history of exchanges sees it.
Known == [p \in Producers |-> store[p].active]

LEMMA StoreSame ==
    ASSUME StoreInv, store' = store, left' = left
    PROVE  StoreInv' /\ Known' = Known
BY DEF StoreInv, ObservationsKept, Known

\* Observations are merged for every producer, and are none of its answers.
LEMMA MergeKeeps ==
    ASSUME StoreInv, NEW frames, frames \subseteq Frames,
           Observe(Overheard(frames)), Leave(Overheard(frames))
    PROVE  StoreInv' /\ Known' = Known
<1> DEFINE N(p) == Numbers(p, Overheard(frames))
<1>1. \A p : N(p) \subseteq 1..MaxExtras
  BY OverheardNumbers
<1>2. /\ store' = [p \in Producers |-> [store[p] EXCEPT !.heard = @ \cup N(p)]]
      /\ left' = [p \in Producers |-> left[p] \cup N(p)]
  BY DEF Observe, Leave, Merged
<1> HIDE DEF N
<1>3. ASSUME NEW p \in Producers
      PROVE  /\ store'[p] \in [active : 0..MaxPolls, heard : SUBSET (1..MaxExtras)]
             /\ left'[p] \in SUBSET (1..MaxExtras)
             /\ store'[p].heard = left'[p] /\ store'[p].active = store[p].active
  <2>1. /\ store[p] \in [active : 0..MaxPolls, heard : SUBSET (1..MaxExtras)]
        /\ left[p] \in SUBSET (1..MaxExtras) /\ store[p].heard = left[p]
    BY DEF StoreInv, ObservationsKept
  <2>2. /\ store'[p] = [store[p] EXCEPT !.heard = store[p].heard \cup N(p)]
        /\ left'[p] = left[p] \cup N(p)
    BY <1>2
  <2>3. store[p].heard \cup N(p) \in SUBSET (1..MaxExtras)
    BY <1>1, <2>1
  <2> QED
    BY <2>1, <2>2, <2>3
<1>4. StoreInv'
  BY <1>2, <1>3 DEF StoreInv, ObservationsKept
<1>5. Known' = Known
  BY <1>3 DEF Known
<1> QED
  BY <1>4, <1>5

\* An answer replaces what was known of its producer.
LEMMA AnswerKeeps ==
    ASSUME StoreInv, NEW p \in Producers, NEW n \in 0..MaxPolls,
           store' = [store EXCEPT ![p] = [active |-> n, heard |-> {}]],
           left' = [left EXCEPT ![p] = {}]
    PROVE  StoreInv' /\ Known' = [Known EXCEPT ![p] = n]
<1>1. /\ store \in [Producers -> [active : 0..MaxPolls, heard : SUBSET (1..MaxExtras)]]
      /\ left \in [Producers -> SUBSET (1..MaxExtras)]
      /\ \A q \in Producers : store[q].heard = left[q]
  BY DEF StoreInv, ObservationsKept
<1>2. [active |-> n, heard |-> {}] \in [active : 0..MaxPolls, heard : SUBSET (1..MaxExtras)]
  OBVIOUS
<1>3. /\ store' \in [Producers -> [active : 0..MaxPolls, heard : SUBSET (1..MaxExtras)]]
      /\ left' \in [Producers -> SUBSET (1..MaxExtras)]
  BY <1>1, <1>2
<1>4. /\ \A q \in Producers : store'[q].heard = left'[q]
      /\ \A q \in Producers : store'[q].active = IF q = p THEN n ELSE store[q].active
  BY <1>1
<1>5. StoreInv'
  BY <1>3, <1>4 DEF StoreInv, ObservationsKept
<1>6. Known' = [Known EXCEPT ![p] = n]
  BY <1>4 DEF Known
<1> QED
  BY <1>5, <1>6

-----------------------------------------------------------------------------
(* The client                                                              *)

LEMMA NoPollFields ==
    /\ NoPoll \in PollState /\ NoPoll.producer = Nobody
    /\ NoPoll.phase = "none" /\ NoPoll.tag = 0
BY MeshConstants DEF NoPoll, PollState

LEMMA EndPollKeeps ==
    ASSUME ClientInv, NEW p \in Producers, NEW result \in Reasons \cup {"ok"},
           EndPoll(p, result), tag' \in {tag, tag + 1}, polls' \in 0..MaxPolls,
           due' \subseteq Producers
    PROVE  ClientInv' /\ Moves /\ poll'.producer = Nobody
<1>1. /\ pc' = "pass" /\ poll' = NoPoll /\ outcome' = [outcome EXCEPT ![p] = result]
  BY DEF EndPoll
<1>2. tag' \in Nat
  BY DEF ClientInv
<1>3. outcome' \in [Producers -> Reasons \cup {"none", "ok"}]
  BY <1>1 DEF ClientInv
<1>4. Moves /\ poll'.producer = Nobody
  BY <1>1, NoPollFields DEF Moves
<1> QED
  BY <1>1, <1>2, <1>3, <1>4, NoPollFields DEF ClientInv

LEMMA SendKeeps ==
    ASSUME ClientInv, QueueInv, TagInv, NEW p \in Producers,
           NEW phase \in {"login", "answer"}, phase = "login" => p \in Repeaters,
           NEW n \in 0..MaxPolls, polls' = n, due' \subseteq Producers,
           SendAndWait(p, phase, n)
    PROVE  /\ ClientInv' /\ Moves /\ TxFrom
           /\ txq' \in Seq(QueueEntries) /\ Len(txq') <= TxCap
           /\ poll'.producer \in {p, Nobody}
<1>1. /\ tag' = tag + 1
      /\ \/ EndPoll(p, "TxQueueFull") /\ txq' = txq
         \/ /\ Len(txq) < TxCap
            /\ txq' = Append(txq, [frame |-> IF phase = "login" THEN LoginRequest(p, tag)
                                             ELSE TelemetryRequest(p, tag, RequestNonce(tag, p)),
                                   poll |-> n])
            /\ pc' = "drain"
            /\ poll' = [NoPoll EXCEPT !.producer = p, !.phase = phase, !.tag = tag]
            /\ outcome' = outcome
  BY DEF SendAndWait
<1>2. txq \in Seq(QueueEntries) /\ Len(txq) <= TxCap /\ Len(txq) \in Nat
  BY DEF QueueInv
<1>3. CASE EndPoll(p, "TxQueueFull") /\ txq' = txq
  <2>1. "TxQueueFull" \in Reasons \cup {"ok"}
    BY DEF Reasons
  <2>2. ClientInv' /\ Moves /\ poll'.producer = Nobody
    BY <1>1, <1>3, <2>1, EndPollKeeps
  <2> QED
    BY <1>2, <1>3, <2>2, TxSame
<1>4. CASE ~(EndPoll(p, "TxQueueFull") /\ txq' = txq)
  <2> DEFINE entry == [frame |-> IF phase = "login" THEN LoginRequest(p, tag)
                                 ELSE TelemetryRequest(p, tag, RequestNonce(tag, p)),
                       poll |-> n]
  <2>1. /\ Len(txq) < TxCap /\ txq' = Append(txq, entry) /\ pc' = "drain"
        /\ poll' = [NoPoll EXCEPT !.producer = p, !.phase = phase, !.tag = tag]
        /\ outcome' = outcome
    BY <1>1, <1>4
  <2>2. tag \in Nat /\ entry \in QueueEntries
    <3>1. tag \in Nat
      BY TagTypes
    <3>2. \/ p \in Repeaters /\ entry.frame = LoginRequest(p, tag)
          \/ entry.frame = TelemetryRequest(p, tag, RequestNonce(tag, p))
      OBVIOUS
    <3> QED
      BY <3>1, <3>2 DEF QueueEntries
  <2>3. entry.frame.kind = "request" =>
           entry.frame.body.sealed.plain.tag = tag /\ entry.poll = n /\ phase = "answer"
    BY DEF LoginRequest, TelemetryRequest, WireFrame, EncryptThenMac
  <2> HIDE DEF entry
  <2>4. /\ txq' \in Seq(QueueEntries) /\ Len(txq') = Len(txq) + 1
        /\ \A i \in DOMAIN txq' : txq'[i] = entry \/ \E j \in DOMAIN txq : txq'[i] = txq[j]
    BY <1>2, <2>1, <2>2, AppendOf
  <2>5. /\ poll' \in PollState /\ poll'.producer = p /\ poll'.phase = phase
        /\ poll'.tag = tag
    BY <2>1, <2>2, NoPollFields DEF PollState
  <2>6. Moves
    BY <1>1, <2>5 DEF Moves
  <2>7. TxFrom
    <3>1. entry.frame.kind = "request" =>
             OfNextPoll(entry.frame.body.sealed.plain.tag, entry.poll)
      BY <1>1, <2>2, <2>3 DEF OfNextPoll
    <3> QED
      BY <2>4, <3>1 DEF TxFrom
  <2>8. ClientInv'
    BY <1>1, <2>1, <2>2, <2>5, MeshConstants DEF ClientInv
  <2> QED
    BY <1>2, <2>1, <2>4, <2>5, <2>6, <2>7, <2>8, MeshConstants
<1> QED
  BY <1>3, <1>4

\* The wait notes a frame, and perhaps why it was of no use.
LEMMA NotedKeeps ==
    ASSUME ClientInv, NEW what \in {"frame", "response"},
           poll' = See(what) \/ \E error \in Reasons : poll' = [See(what) EXCEPT !.error = error],
           pc' = pc, due' = due, tag' = tag, polls' = polls, outcome' = outcome
    PROVE  ClientInv' /\ Moves /\ poll'.producer = poll.producer
<1> DEFINE seen == IF what = "frame" /\ poll.seen = "response" THEN poll.seen ELSE what
<1>1. /\ poll \in PollState /\ seen \in {"nothing", "frame", "response"}
      /\ See(what) = [poll EXCEPT !.seen = seen]
  BY DEF ClientInv, PollState, See
<1> HIDE DEF seen
<1>2. \/ poll' = [poll EXCEPT !.seen = seen]
      \/ \E error \in Reasons : poll' = [poll EXCEPT !.seen = seen, !.error = error]
  BY <1>1
<1>3. /\ poll' \in PollState /\ poll'.producer = poll.producer
      /\ poll'.phase = poll.phase /\ poll'.tag = poll.tag
  BY <1>1, <1>2 DEF PollState
<1> QED
  BY <1>3 DEF ClientInv, Moves

-----------------------------------------------------------------------------
(* Every step keeps the invariant, and is a step of PollExchange or none.  *)

Exchanges == [Exchange!ExchangeNext]_(Exchange!exchangeVars)

LEMMA InvFrom ==
    ASSUME MeshInv, ClientInv', QueueInv', StoreInv', Moves, TxFrom, RxFrom,
           DueInv' \/ (due' = due /\ polls' = polls)
    PROVE  MeshInv'
BY TagsKept DEF MeshInv, DueInv

LEMMA NoExchange ==
    ASSUME poll'.producer = poll.producer, polls' = polls, Known' = Known
    PROVE  Exchanges
BY DEF Exchanges, Exchange!exchangeVars, Known

LEMMA PassBegins == MeshInv /\ BeginPass => MeshInv' /\ Exchanges
<1> SUFFICES ASSUME MeshInv, BeginPass PROVE MeshInv' /\ Exchanges
  OBVIOUS
<1>1. /\ pc = "idle" /\ pc' = "pass" /\ due' \subseteq Producers
      /\ poll' = poll /\ tag' = tag /\ polls' = polls /\ txq' = txq /\ rxq' = rxq
      /\ air' = air /\ store' = store /\ outcome' = outcome /\ left' = left
      /\ refused' = refused /\ heard' = heard /\ faults' = faults
  BY DEF BeginPass
<1>2. DueInv'
  BY <1>1 DEF BeginPass, DueInv
<1>3. ClientInv' /\ QueueInv' /\ Moves
  BY <1>1 DEF MeshInv, ClientInv, QueueInv, Moves
<1>4. StoreInv' /\ Known' = Known
  BY <1>1, StoreSame DEF MeshInv
<1> QED
  BY <1>1, <1>2, <1>3, <1>4, InvFrom, TxSame, RxSame, NoExchange

LEMMA PollStarts == ASSUME MeshInv, NEW p \in Producers, StartPoll(p) PROVE MeshInv' /\ Exchanges
<1>1. /\ pc = "pass" /\ due' \subseteq Producers /\ polls' = polls + 1
      /\ rxq' = rxq /\ air' = air /\ store' = store /\ left' = left
      /\ refused' = refused /\ heard' = heard /\ faults' = faults
      /\ \/ EndPoll(p, "InvalidConfig") /\ tag' = tag /\ txq' = txq
         \/ SendAndWait(p, IF p \in Repeaters THEN "login" ELSE "answer", polls + 1)
  BY DEF StartPoll, MeshInv, ClientInv
<1>2. ClientInv /\ QueueInv /\ StoreInv /\ TagInv /\ poll.producer = Nobody
  BY <1>1 DEF MeshInv, ClientInv
<1>3. DueInv' /\ polls' \in 0..MaxPolls
  <2>1. p \in due /\ due' = due \ {p} /\ polls' = polls + 1
    BY DEF StartPoll
  <2>2. IsFiniteSet(due) /\ polls \in Nat /\ polls + Cardinality(due) <= MaxPolls
    <3>1. due \subseteq Producers /\ polls \in Nat
      BY <1>2, MeshConstants DEF ClientInv
    <3>2. IsFiniteSet(Producers)
      BY MeshAssumption
    <3>3. IsFiniteSet(due)
      BY <3>1, <3>2, FS_Subset
    <3> QED
      BY <3>1, <3>3 DEF MeshInv, DueInv
  <2>3. IsFiniteSet(due') /\ Cardinality(due') = Cardinality(due) - 1
    BY <2>1, <2>2, FS_RemoveElement
  <2>4. Cardinality(due) \in Nat /\ Cardinality(due') \in Nat
    BY <2>2, <2>3, FS_CardinalityType
  <2> QED
    BY <2>1, <2>2, <2>3, <2>4, MeshConstants DEF DueInv
<1>4. /\ ClientInv' /\ Moves /\ TxFrom /\ txq' \in Seq(QueueEntries) /\ Len(txq') <= TxCap
      /\ poll'.producer \in {p, Nobody}
  <2>1. CASE EndPoll(p, "InvalidConfig") /\ tag' = tag /\ txq' = txq
    <3>1. "InvalidConfig" \in Reasons \cup {"ok"}
      BY DEF Reasons
    <3>2. ClientInv' /\ Moves /\ poll'.producer = Nobody
      BY <1>1, <1>2, <1>3, <2>1, <3>1, EndPollKeeps
    <3> QED
      BY <1>2, <2>1, <3>2, TxSame DEF QueueInv
  <2>2. CASE SendAndWait(p, IF p \in Repeaters THEN "login" ELSE "answer", polls + 1)
    <3>1. PICK phase \in {"login", "answer"} :
             (phase = "login" => p \in Repeaters) /\ SendAndWait(p, phase, polls + 1)
      BY <2>2
    <3> QED
      BY <1>1, <1>2, <1>3, <3>1, SendKeeps
  <2> QED
    BY <1>1, <2>1, <2>2
<1>5. StoreInv' /\ Known' = Known
  BY <1>1, <1>2, StoreSame
<1>6. QueueInv'
  BY <1>1, <1>2, <1>4 DEF QueueInv
<1>7. MeshInv'
  BY <1>1, <1>3, <1>4, <1>5, <1>6, InvFrom, RxSame
<1>8. Exchange!Ask(p) \/ Exchange!Refused
  BY <1>1, <1>2, <1>4, <1>5 DEF Exchange!Ask, Exchange!Refused, Known
<1> QED
  BY <1>7, <1>8 DEF Exchanges, Exchange!ExchangeNext

LEMMA PassEnds == MeshInv /\ EndPass => MeshInv' /\ Exchanges
<1> SUFFICES ASSUME MeshInv, EndPass PROVE MeshInv' /\ Exchanges
  OBVIOUS
<1> DEFINE frames == {rxq[i] : i \in DOMAIN rxq}
<1>1. /\ pc = "pass" /\ pc' = "idle" /\ due' = due /\ rxq' = << >>
      /\ Observe(Overheard(frames)) /\ Leave(Overheard(frames))
      /\ poll' = poll /\ tag' = tag /\ polls' = polls /\ txq' = txq
      /\ air' = air /\ outcome' = outcome
      /\ refused' = refused /\ heard' = heard /\ faults' = faults
  BY DEF EndPass
<1>2. frames \subseteq Frames
  BY DEF MeshInv, QueueInv
<1> HIDE DEF frames
<1>3. StoreInv' /\ Known' = Known
  BY <1>1, <1>2, MergeKeeps DEF MeshInv
<1>4. rxq' \in Seq(Frames) /\ Len(rxq') <= RxCap /\ RxFrom
  BY <1>1, RxTaken DEF MeshInv
<1>5. ClientInv' /\ QueueInv' /\ Moves
  BY <1>1, <1>4 DEF MeshInv, ClientInv, QueueInv, Moves
<1> QED
  BY <1>1, <1>3, <1>4, <1>5, InvFrom, TxSame, NoExchange

LEMMA StepBegins == MeshInv /\ BeginStep => MeshInv' /\ Exchanges
<1> SUFFICES ASSUME MeshInv, BeginStep PROVE MeshInv' /\ Exchanges
  OBVIOUS
<1>1. /\ pc = "drain" /\ pc' = "wait" /\ due' = due
      /\ poll' = poll /\ tag' = tag /\ polls' = polls /\ txq' = txq /\ rxq' = rxq
      /\ air' = air /\ store' = store /\ outcome' = outcome /\ left' = left
      /\ refused' = refused /\ heard' = heard /\ faults' = faults
  BY DEF BeginStep
<1>2. ClientInv' /\ QueueInv' /\ Moves
  BY <1>1 DEF MeshInv, ClientInv, QueueInv, Moves
<1>3. StoreInv' /\ Known' = Known
  BY <1>1, StoreSame DEF MeshInv
<1> QED
  BY <1>1, <1>2, <1>3, InvFrom, TxSame, RxSame, NoExchange

LEMMA StepEnds == MeshInv /\ EndStep => MeshInv' /\ Exchanges
<1> SUFFICES ASSUME MeshInv, EndStep PROVE MeshInv' /\ Exchanges
  OBVIOUS
<1> DEFINE limit == IF poll.phase = "login" THEN LoginSteps ELSE AnswerSteps
<1>1. /\ pc = "wait" /\ due' = due /\ tag' = tag /\ polls' = polls /\ txq' = txq /\ rxq' = rxq
      /\ air' = air /\ store' = store /\ left' = left
      /\ refused' = refused /\ heard' = heard /\ faults' = faults
      /\ \/ /\ poll.elapsed + 1 < limit /\ poll' = [poll EXCEPT !.elapsed = poll.elapsed + 1]
            /\ pc' = "drain" /\ outcome' = outcome
         \/ EndPoll(poll.producer, Classify)
  BY DEF EndStep
<1>2. /\ ClientInv /\ poll \in PollState /\ poll.producer \in Producers
      /\ poll.producer # Nobody /\ polls \in 0..MaxPolls /\ due \subseteq Producers
  BY <1>1 DEF MeshInv, ClientInv, PollState
<1>3. StoreInv' /\ Known' = Known
  BY <1>1, StoreSame DEF MeshInv
<1>4. QueueInv'
  BY <1>1 DEF MeshInv, QueueInv
<1>5. CASE /\ poll.elapsed + 1 < limit /\ poll' = [poll EXCEPT !.elapsed = poll.elapsed + 1]
           /\ pc' = "drain" /\ outcome' = outcome
  <2>1. poll.elapsed + 1 \in 0..(LoginSteps + AnswerSteps)
    BY <1>2, <1>5, MeshConstants DEF PollState
  <2>2. /\ poll' \in PollState /\ poll'.producer = poll.producer
        /\ poll'.phase = poll.phase /\ poll'.tag = poll.tag
    BY <1>2, <1>5, <2>1 DEF PollState
  <2>3. ClientInv' /\ Moves
    BY <1>1, <1>2, <1>5, <2>2 DEF ClientInv, Moves
  <2> QED
    BY <1>1, <1>3, <1>4, <2>2, <2>3, InvFrom, TxSame, RxSame, NoExchange
<1>6. CASE EndPoll(poll.producer, Classify)
  <2>1. Classify \in Reasons \cup {"ok"}
    BY <1>2 DEF Classify, PollState, Reasons
  <2>2. ClientInv' /\ Moves /\ poll'.producer = Nobody
    BY <1>1, <1>2, <1>6, <2>1, EndPollKeeps
  <2>3. Exchange!GivenUp
    BY <1>1, <1>2, <1>3, <2>2 DEF Exchange!GivenUp, Known
  <2> QED
    BY <1>1, <1>3, <1>4, <2>2, <2>3, InvFrom, TxSame, RxSame
       DEF Exchanges, Exchange!ExchangeNext
<1> QED
  BY <1>1, <1>5, <1>6

\* What the client does with the frame it takes.
LEMMA FrameTaken == MeshInv /\ DrainFrame => MeshInv' /\ Exchanges
<1> SUFFICES ASSUME MeshInv, DrainFrame PROVE MeshInv' /\ Exchanges
  OBVIOUS
<1> DEFINE p == poll.producer
           f == Head(rxq)
           verdict == FrameVerdict(p, f)
<1>1. /\ pc = "drain" /\ rxq # << >> /\ rxq' = Tail(rxq)
      /\ due' = due /\ polls' = polls /\ air' = air
      /\ refused' = refused /\ heard' = heard /\ faults' = faults
      /\ \/ /\ Observe(Overheard({f})) /\ Leave(Overheard({f}))
            /\ poll' = See("frame")
            /\ pc' = pc /\ tag' = tag /\ txq' = txq /\ outcome' = outcome
         \/ /\ verdict = "none"
            /\ \/ poll.phase = "login" /\ LoginResponse(p, f)
               \/ poll.phase = "answer" /\ AnswerResponse(p, f)
         \/ /\ verdict \notin {"observation", "none"}
            /\ BadResponse(p, verdict)
  BY DEF DrainFrame
<1>2. /\ ClientInv /\ QueueInv /\ StoreInv /\ TagInv
      /\ p \in Producers /\ p # Nobody /\ polls \in 0..MaxPolls /\ due \subseteq Producers
      /\ rxq \in Seq(Frames)
  BY <1>1 DEF MeshInv, ClientInv, QueueInv, PollState
<1>3. f \in Frames /\ f \in Travelling
  BY <1>1, <1>2, TailOf DEF Travelling
<1>4. /\ verdict \in {"observation", "none", "Decode", "Mac", "NotForGateway", "WrongSource"}
      /\ verdict = "none" => f.kind = "response"
  BY <1>3, Verdicts, FrameFields
<1>5. rxq' \in Seq(Frames) /\ Len(rxq') <= RxCap /\ RxFrom
  BY <1>1, <1>2, RxTaken
<1> HIDE DEF p, f, verdict
\* A frame that is noted and nothing else.
<1>6. ASSUME NEW what \in {"frame", "response"},
             poll' = See(what) \/ \E error \in Reasons : poll' = [See(what) EXCEPT !.error = error],
             GoOn
      PROVE  MeshInv' /\ Exchanges
  <2>1. /\ pc' = pc /\ tag' = tag /\ txq' = txq /\ store' = store /\ outcome' = outcome
        /\ left' = left
    BY <1>6 DEF GoOn
  <2>2. ClientInv' /\ Moves /\ poll'.producer = poll.producer
    BY <1>1, <1>2, <1>6, <2>1, NotedKeeps
  <2>3. StoreInv' /\ Known' = Known
    BY <1>2, <2>1, StoreSame
  <2>4. QueueInv'
    BY <1>1, <1>2, <1>5, <2>1 DEF QueueInv
  <2> QED
    BY <1>1, <1>5, <2>1, <2>2, <2>3, <2>4, InvFrom, TxSame, NoExchange
<1>7. ASSUME NEW reason, Reason(reason) \in Reasons, Fails(reason), GoOn
      PROVE  MeshInv' /\ Exchanges
  <2>1. poll' = [See("response") EXCEPT !.error = Reason(reason)]
    BY <1>7 DEF Fails
  <2> QED
    BY <1>6, <1>7, <2>1
\* The poll ends without an answer.
<1>8. ASSUME NEW result \in Reasons, EndPoll(p, result), tag' = tag, txq' = txq,
             store' = store, left' = left
      PROVE  MeshInv' /\ Exchanges
  <2>1. ClientInv' /\ Moves /\ poll'.producer = Nobody
    BY <1>1, <1>2, <1>8, EndPollKeeps
  <2>2. StoreInv' /\ Known' = Known
    BY <1>2, <1>8, StoreSame
  <2>3. QueueInv'
    BY <1>1, <1>2, <1>5, <1>8 DEF QueueInv
  <2>4. Exchange!GivenUp
    BY <1>1, <1>2, <2>1, <2>2 DEF Exchange!GivenUp, Known, p
  <2> QED
    BY <1>1, <1>5, <1>8, <2>1, <2>2, <2>3, <2>4, InvFrom, TxSame
       DEF Exchanges, Exchange!ExchangeNext
<1>9. CASE /\ Observe(Overheard({f})) /\ Leave(Overheard({f})) /\ poll' = See("frame")
           /\ pc' = pc /\ tag' = tag /\ txq' = txq /\ outcome' = outcome
  <2>1. ClientInv' /\ Moves /\ poll'.producer = poll.producer
    BY <1>1, <1>2, <1>9, NotedKeeps
  <2>2. StoreInv' /\ Known' = Known
    BY <1>2, <1>3, <1>9, MergeKeeps
  <2>3. QueueInv'
    BY <1>1, <1>2, <1>5, <1>9 DEF QueueInv
  <2> QED
    BY <1>1, <1>5, <1>9, <2>1, <2>2, <2>3, InvFrom, TxSame, NoExchange
<1>10. CASE poll.phase = "login" /\ LoginResponse(p, f)
  <2>1. CASE SendAndWait(p, "answer", polls) /\ store' = store /\ left' = left
    <3>1. /\ ClientInv' /\ Moves /\ TxFrom /\ txq' \in Seq(QueueEntries) /\ Len(txq') <= TxCap
          /\ poll'.producer \in {p, Nobody}
      BY <1>1, <1>2, <2>1, SendKeeps
    <3>2. StoreInv' /\ Known' = Known
      BY <1>2, <2>1, StoreSame
    <3>3. QueueInv'
      BY <1>1, <1>2, <1>5, <3>1 DEF QueueInv
    <3>4. MeshInv'
      BY <1>1, <1>5, <3>1, <3>2, <3>3, InvFrom
    <3>5. CASE poll'.producer = p
      BY <1>1, <3>2, <3>4, <3>5, NoExchange DEF p
    <3>6. CASE poll'.producer = Nobody
      <4>1. Exchange!GivenUp
        BY <1>1, <1>2, <3>2, <3>6 DEF Exchange!GivenUp, Known, p
      <4> QED
        BY <3>4, <4>1 DEF Exchanges, Exchange!ExchangeNext
    <3> QED
      BY <3>1, <3>5, <3>6
  <2>2. CASE EndPoll(p, "AuthFailed") /\ UNCHANGED <<tag, txq, store, left>>
    BY <1>8, <2>2 DEF Reasons
  <2>3. CASE Fails("Decode") /\ GoOn
    BY <1>7, <2>3 DEF Reason, Reasons
  <2> QED
    BY <1>10, <2>1, <2>2, <2>3 DEF LoginResponse
<1>11. CASE verdict = "none" /\ poll.phase = "answer" /\ AnswerResponse(p, f)
  <2>1. CASE poll' = See("response") /\ GoOn
    BY <1>6, <2>1
  <2>2. CASE /\ AnswerVerdict(f, poll.tag) = "payload" /\ EndPoll(p, "ok")
             /\ store' = [store EXCEPT ![p] = [active |-> f.poll, heard |-> {}]]
             /\ left' = [left EXCEPT ![p] = {}]
             /\ tag' = tag /\ txq' = txq
    <3>1. f.tag = poll.tag
      BY <2>2 DEF AnswerVerdict
    <3>2. f.poll = polls
      BY <1>2, <1>3, <1>4, <1>11, <3>1 DEF TagInv, OfPoll
    <3>3. ClientInv' /\ Moves /\ poll'.producer = Nobody
      BY <1>1, <1>2, <2>2, EndPollKeeps
    <3>4. StoreInv' /\ Known' = [Known EXCEPT ![p] = polls]
      BY <1>2, <2>2, <3>2, AnswerKeeps
    <3>5. QueueInv'
      BY <1>1, <1>2, <1>5, <2>2 DEF QueueInv
    <3>6. Exchange!Answered
      BY <1>1, <1>2, <3>3, <3>4 DEF Exchange!Answered, Known, p
    <3> QED
      BY <1>1, <1>5, <2>2, <3>3, <3>4, <3>5, <3>6, InvFrom, TxSame
         DEF Exchanges, Exchange!ExchangeNext
  <2>3. CASE AnswerVerdict(f, poll.tag) # "payload" /\ Fails(AnswerVerdict(f, poll.tag)) /\ GoOn
    <3>1. AnswerVerdict(f, poll.tag) \in {"Decode", "ResponseTagMismatch"}
      BY <2>3 DEF AnswerVerdict
    <3> QED
      BY <1>7, <2>3, <3>1 DEF Reason, Reasons
  <2> QED
    BY <1>11, <2>1, <2>2, <2>3 DEF AnswerResponse
<1>12. CASE verdict \notin {"observation", "none"} /\ BadResponse(p, verdict)
  <2>1. CASE poll' = See("frame") /\ GoOn
    BY <1>6, <2>1
  <2>2. CASE ~Background(verdict) /\ Fails(verdict) /\ GoOn
    <3>1. verdict \in {"Decode", "Mac"}
      BY <1>4, <1>12, <2>2 DEF Background
    <3> QED
      BY <1>7, <2>2, <3>1 DEF Reason, Reasons
  <2> QED
    BY <1>12, <2>1, <2>2 DEF BadResponse
<1> QED
  BY <1>1, <1>9, <1>10, <1>11, <1>12

-----------------------------------------------------------------------------
(* The radio and the air                                                   *)

\* An answer comes from the node asked, with the tag and the poll of the request.
LEMMA AnswerFields ==
    ASSUME NEW e \in QueueEntries, NEW f \in Answers(e)
    PROVE  /\ f \in Frames
           /\ e.frame.kind = "anon" => f.tag = 0 /\ f.src \in Repeaters
           /\ e.frame.kind # "anon" =>
                 /\ e.frame.kind = "request"
                 /\ f.tag = e.frame.body.sealed.plain.tag /\ f.poll = e.poll
<1>1. PICK number \in Nat, look \in {"ok", "other", "unreadable"} :
         /\ f = Response(Addressed(e.frame), "gateway", number, look, e.poll)
         /\ \/ e.frame.kind = "anon" /\ number = 0
            \/ e.frame.kind = "request" /\ number = e.frame.body.sealed.plain.tag
  <2> DEFINE From(number, look) ==
                 Response(Addressed(e.frame), "gateway", number, look, e.poll)
  <2>1. e.frame.kind = "anon" => \E look \in {"ok", "other"} : f = From(0, look)
    BY DEF Answers
  <2>2. e.frame.kind = "request" =>
           \E look \in {"ok", "other", "unreadable"} :
              f = From(e.frame.body.sealed.plain.tag, look)
    BY DEF Answers
  <2>3. e.frame.kind \in {"anon", "request"}
    BY DEF Answers
  <2>4. CASE e.frame.kind = "anon"
    <3>1. PICK look \in {"ok", "other"} : f = From(0, look)
      BY <2>1, <2>4
    <3> QED
      BY <2>4, <3>1
  <2>5. CASE e.frame.kind = "request"
    <3>1. PICK look \in {"ok", "other", "unreadable"} :
             f = From(e.frame.body.sealed.plain.tag, look)
      BY <2>2, <2>5
    <3> QED
      BY <2>5, <3>1, EntryFields
  <2> QED
    BY <2>3, <2>4, <2>5
<1>2. /\ number \in Nat /\ e.poll \in 0..MaxPolls
      /\ Addressed(e.frame) \in Nodes
      /\ e.frame.kind = "anon" => Addressed(e.frame) \in Repeaters
  <2>1. CASE e.frame.kind = "anon"
    <3>1. PICK p \in Repeaters : e.frame.body.sealed.secret = SharedSecret(p)
      BY <2>1, EntryFields
    <3>2. p \in Producers /\ p \in Nodes
      BY MeshConstants
    <3>3. Addressed(e.frame) = p
      BY <3>1, <3>2, OneAddressee
    <3> QED
      BY <1>1, <2>1, <3>2, <3>3, EntryFields
  <2>2. CASE e.frame.kind = "request"
    <3>1. PICK p \in Producers : e.frame.body.sealed.secret = SharedSecret(p)
      BY <2>2, EntryFields
    <3>2. Addressed(e.frame) = p /\ p \in Nodes
      BY <3>1, OneAddressee, MeshConstants
    <3> QED
      BY <1>1, <2>2, <3>2, EntryFields
  <2> QED
    BY <1>1, <2>1, <2>2
<1> QED
  BY <1>1, <1>2 DEF Response, Frames

\* The radio changes queues, the air and what is counted there.
LEMMA RadioKeeps ==
    ASSUME MeshInv, QueueInv', TxFrom, RxFrom,
           pc' = pc, due' = due, poll' = poll, tag' = tag, polls' = polls,
           store' = store, outcome' = outcome, left' = left
    PROVE  MeshInv' /\ Exchanges
<1>1. ClientInv' /\ Moves
  BY DEF MeshInv, ClientInv, Moves
<1>2. StoreInv' /\ Known' = Known
  BY StoreSame DEF MeshInv
<1> QED
  BY <1>1, <1>2, InvFrom, NoExchange

LEMMA Transmitted == MeshInv /\ Transmit => MeshInv' /\ Exchanges
<1> SUFFICES ASSUME MeshInv, Transmit PROVE MeshInv' /\ Exchanges
  OBVIOUS
<1> DEFINE e == Head(txq)
<1>1. /\ txq # << >> /\ txq' = Tail(txq) /\ rxq' = rxq
      /\ pc' = pc /\ due' = due /\ poll' = poll /\ tag' = tag /\ polls' = polls
      /\ store' = store /\ outcome' = outcome /\ left' = left
      /\ heard' = heard /\ faults' = faults
      /\ \/ air' = air /\ refused' = refused
         \/ \E f \in Answers(e) :
               /\ air' = air \cup {f}
               /\ refused' = IF e.frame.kind = "anon" /\ f.look = "other"
                             THEN refused \cup {f.src} ELSE refused
  BY DEF Transmit
<1>2. QueueInv /\ ClientInv /\ TagInv
  BY DEF MeshInv
<1>3. /\ e \in QueueEntries /\ txq' \in Seq(QueueEntries) /\ Len(txq') <= TxCap
      /\ 1 \in DOMAIN txq /\ e = txq[1] /\ TxFrom
  <2>1. txq \in Seq(QueueEntries) /\ Len(txq) <= TxCap /\ Len(txq) \in Nat
    BY <1>2 DEF QueueInv
  <2>2. /\ e \in QueueEntries /\ txq' \in Seq(QueueEntries) /\ Len(txq') <= Len(txq)
        /\ 1 \in DOMAIN txq /\ e = txq[1]
        /\ \A i \in DOMAIN txq' : \E j \in DOMAIN txq : txq'[i] = txq[j]
    BY <1>1, <2>1, TailOf
  <2>3. Len(txq') \in Nat
    BY <2>2
  <2> QED
    BY <2>1, <2>2, <2>3, MeshConstants DEF TxFrom
<1> HIDE DEF e
<1>4. CASE air' = air /\ refused' = refused
  <2>1. QueueInv'
    BY <1>1, <1>2, <1>3, <1>4 DEF QueueInv
  <2> QED
    BY <1>1, <1>3, <1>4, <2>1, RxSame, RadioKeeps
<1>5. ASSUME NEW f \in Answers(e), air' = air \cup {f},
             refused' = IF e.frame.kind = "anon" /\ f.look = "other"
                        THEN refused \cup {f.src} ELSE refused
      PROVE  MeshInv' /\ Exchanges
  <2>1. /\ f \in Frames
        /\ e.frame.kind = "anon" => f.tag = 0 /\ f.src \in Repeaters
        /\ e.frame.kind # "anon" => /\ e.frame.kind = "request"
                                    /\ f.tag = e.frame.body.sealed.plain.tag /\ f.poll = e.poll
    BY <1>3, <1>5, AnswerFields
  <2>2. refused' \subseteq Repeaters
    BY <1>2, <1>5, <2>1 DEF QueueInv
  <2>3. QueueInv'
    BY <1>1, <1>2, <1>3, <1>5, <2>1, <2>2 DEF QueueInv
  <2>4. OfNextPoll(f.tag, f.poll)
    <3>1. CASE e.frame.kind = "anon"
      BY <1>1, <1>2, <2>1, <3>1, TagTypes DEF OfNextPoll
    <3>2. CASE e.frame.kind # "anon"
      <4>1. OfPoll(f.tag, f.poll)
        BY <1>2, <1>3, <2>1, <3>2 DEF TagInv
      <4> QED
        BY <1>1, <4>1 DEF OfPoll, OfNextPoll
    <3> QED
      BY <3>1, <3>2
  <2>5. RxFrom
    BY <1>1, <1>5, <2>4 DEF RxFrom, Travelling
  <2> QED
    BY <1>1, <1>3, <2>3, <2>5, RadioKeeps
<1> QED
  BY <1>1, <1>4, <1>5

\* A full queue drops the newest frame.
LEMMA Enqueued ==
    ASSUME QueueInv, NEW f \in Frames, EnqueueRx(f)
    PROVE  /\ rxq' \in Seq(Frames) /\ Len(rxq') <= RxCap
           /\ \A i \in DOMAIN rxq' : rxq'[i] = f \/ \E j \in DOMAIN rxq : rxq'[i] = rxq[j]
<1>1. rxq \in Seq(Frames) /\ Len(rxq) <= RxCap /\ Len(rxq) \in Nat
  BY DEF QueueInv
<1>2. CASE Len(rxq) < RxCap /\ rxq' = Append(rxq, f)
  <2>1. /\ rxq' \in Seq(Frames) /\ Len(rxq') = Len(rxq) + 1
        /\ \A i \in DOMAIN rxq' : rxq'[i] = f \/ \E j \in DOMAIN rxq : rxq'[i] = rxq[j]
    BY <1>1, <1>2, AppendOf
  <2> QED
    BY <1>1, <1>2, <2>1, MeshConstants
<1>3. CASE rxq' = rxq
  BY <1>1, <1>3
<1> QED
  BY <1>2, <1>3 DEF EnqueueRx

LEMMA Received == MeshInv /\ Receive => MeshInv' /\ Exchanges
<1> SUFFICES ASSUME MeshInv, Receive PROVE MeshInv' /\ Exchanges
  OBVIOUS
<1>1. PICK f \in air :
         /\ EnqueueRx(f)
         /\ \/ air' = air \ {f} /\ faults' = faults
            \/ heard + faults < MaxExtras /\ faults' = faults + 1 /\ air' = air
  BY DEF Receive
<1>2. /\ txq' = txq /\ pc' = pc /\ due' = due /\ poll' = poll /\ tag' = tag /\ polls' = polls
      /\ store' = store /\ outcome' = outcome /\ left' = left
      /\ heard' = heard /\ refused' = refused
  BY DEF Receive
<1>3. QueueInv /\ f \in Frames
  BY DEF MeshInv, QueueInv
<1>4. /\ rxq' \in Seq(Frames) /\ Len(rxq') <= RxCap
      /\ \A i \in DOMAIN rxq' : rxq'[i] = f \/ \E j \in DOMAIN rxq : rxq'[i] = rxq[j]
  BY <1>1, <1>3, Enqueued
<1>5. RxFrom
  BY <1>1, <1>4 DEF RxFrom, Travelling
<1>6. air' \subseteq Frames /\ faults' \in Nat /\ heard + faults' <= MaxExtras
  BY <1>1, <1>3, MeshConstants DEF QueueInv
<1>7. QueueInv'
  BY <1>2, <1>3, <1>4, <1>6 DEF QueueInv
<1> QED
  BY <1>2, <1>5, <1>7, TxSame, RadioKeeps

LEMMA ForeignHeard == MeshInv /\ Overhear => MeshInv' /\ Exchanges
<1> SUFFICES ASSUME MeshInv, Overhear PROVE MeshInv' /\ Exchanges
  OBVIOUS
<1>1. /\ heard + faults < MaxExtras /\ heard' = heard + 1
      /\ txq' = txq /\ pc' = pc /\ due' = due /\ poll' = poll /\ tag' = tag /\ polls' = polls
      /\ store' = store /\ outcome' = outcome /\ left' = left
      /\ air' = air /\ refused' = refused /\ faults' = faults
  BY DEF Overhear
<1>2. PICK f \in Foreign(heard') : EnqueueRx(f)
  BY DEF Overhear
<1>3. QueueInv /\ ClientInv /\ TagInv /\ heard \in Nat /\ faults \in Nat
  BY DEF MeshInv, QueueInv
<1>4. heard' \in 1..MaxExtras
  BY <1>1, <1>3, MeshConstants
<1>5. f \in Frames /\ (f.kind = "response" => f.tag = 0)
  <2> DEFINE n == heard'
  <2>1. \/ \E src \in Nodes : f = Observation(src, n)
        \/ \E src \in Nodes : f = Response(src, "alike", 0, "other", 0)
        \/ \E src \in Strangers, look \in {"other", "short"} :
              f = Response(src, "other", 0, look, 0)
    BY <1>2 DEF Foreign
  <2>2. n \in 1..MaxExtras
    BY <1>4
  <2> HIDE DEF n
  <2> QED
    BY <2>1, <2>2, MeshConstants DEF Observation, Response, Frames, Nodes
<1>6. /\ rxq' \in Seq(Frames) /\ Len(rxq') <= RxCap
      /\ \A i \in DOMAIN rxq' : rxq'[i] = f \/ \E j \in DOMAIN rxq : rxq'[i] = rxq[j]
  BY <1>2, <1>3, <1>5, Enqueued
<1>7. f.kind = "response" => OfNextPoll(f.tag, f.poll)
  BY <1>1, <1>3, <1>5, TagTypes DEF OfNextPoll
<1>8. RxFrom
  BY <1>1, <1>6, <1>7 DEF RxFrom, Travelling
<1>9. heard' + faults' <= MaxExtras /\ heard' \in Nat
  BY <1>1, <1>3, MeshConstants
<1>10. QueueInv'
  BY <1>1, <1>3, <1>6, <1>9 DEF QueueInv
<1> QED
  BY <1>1, <1>8, <1>10, TxSame, RadioKeeps

-----------------------------------------------------------------------------
(* Theorems                                                                *)

LEMMA MeshStep == MeshInv /\ [MeshNext]_meshVars => MeshInv' /\ Exchanges
<1> SUFFICES ASSUME MeshInv, [MeshNext]_meshVars PROVE MeshInv' /\ Exchanges
  OBVIOUS
<1>1. CASE MeshNext
  BY <1>1, PassBegins, PollStarts, PassEnds, FrameTaken, StepBegins, StepEnds, Transmitted,
     Received, ForeignHeard DEF MeshNext, Client, Radio
<1>2. CASE UNCHANGED meshVars
  <2>1. /\ txq' = txq /\ rxq' = rxq /\ pc' = pc /\ due' = due /\ poll' = poll /\ tag' = tag
        /\ polls' = polls /\ store' = store /\ outcome' = outcome /\ left' = left
        /\ air' = air /\ refused' = refused /\ heard' = heard /\ faults' = faults
    BY <1>2 DEF meshVars
  <2>2. QueueInv'
    BY <2>1 DEF MeshInv, QueueInv
  <2> QED
    BY <2>1, <2>2, TxSame, RxSame, RadioKeeps
<1> QED
  BY <1>1, <1>2

LEMMA MeshInitially == MeshInit => MeshInv /\ Exchange!ExchangeInit
<1> SUFFICES ASSUME MeshInit PROVE MeshInv /\ Exchange!ExchangeInit
  OBVIOUS
<1>1. /\ pc = "idle" /\ due = {} /\ poll = NoPoll /\ tag = 1 /\ polls = 0
      /\ txq = QueueStartupAdvert /\ rxq = << >> /\ air = {}
      /\ store = [p \in Producers |-> [active |-> 0, heard |-> {}]]
      /\ outcome = [p \in Producers |-> "none"] /\ left = [p \in Producers |-> {}]
      /\ refused = {} /\ heard = 0 /\ faults = 0
  BY DEF MeshInit
<1>2. ClientInv
  BY <1>1, NoPollFields, MeshConstants DEF ClientInv
<1>3. DueInv
  BY <1>1, FS_EmptySet, MeshConstants DEF DueInv
<1>4. /\ txq \in Seq(QueueEntries) /\ Len(txq) <= TxCap
      /\ \A i \in DOMAIN txq : txq[i].frame.kind = "advert"
  <2> DEFINE e == [frame |-> GatewayAdvert(Gateway), poll |-> 0]
  <2>1. e \in QueueEntries /\ e.frame.kind = "advert"
    BY MeshConstants DEF QueueEntries, GatewayAdvert, WireFrame
  <2>2. txq = << >> \/ txq = <<e>>
    BY <1>1 DEF QueueStartupAdvert
  <2> HIDE DEF e
  <2>3. /\ << >> \in Seq(QueueEntries) /\ Len(<< >>) = 0
        /\ <<e>> \in Seq(QueueEntries) /\ Len(<<e>>) = 1 /\ <<e>>[1] = e
        /\ DOMAIN << >> = {} /\ DOMAIN <<e>> = {1}
    BY <2>1
  <2>4. CASE txq = << >>
    BY <2>3, <2>4, MeshConstants
  <2>5. CASE txq = <<e>>
    BY <2>1, <2>3, <2>5, MeshConstants
  <2> QED
    BY <2>2, <2>4, <2>5
<1>5. QueueInv
  BY <1>1, <1>4, MeshConstants DEF QueueInv
<1>6. StoreInv
  BY <1>1, MeshConstants DEF StoreInv, ObservationsKept
<1>7. TagInv
  BY <1>1, <1>4, NoPollFields DEF TagInv, Travelling
<1>8. Exchange!ExchangeInit
  BY <1>1, NoPollFields DEF Exchange!ExchangeInit
<1> QED
  BY <1>2, <1>3, <1>5, <1>6, <1>7, <1>8 DEF MeshInv

\* Queues, tags and telemetry agree in every reachable state of the client.
THEOREM MeshInvariance == MeshSpec => []MeshInv
<1> QED
  BY MeshInitially, MeshStep, PTL DEF MeshSpec

\* Every variable keeps its type: an answer on the air is one of a node that was asked,
\* and a poll fails for a reason the statistics know.
THEOREM MeshTypeCorrect == MeshSpec => []MeshTypeOK
<1>1. MeshInv => MeshTypeOK
  <2> SUFFICES ASSUME MeshInv PROVE MeshTypeOK
    OBVIOUS
  <2>1. ClientInv /\ QueueInv /\ StoreInv
    BY DEF MeshInv
  <2>2. \A i \in DOMAIN txq : /\ txq[i].frame.kind \in {"advert", "anon", "request"}
                              /\ txq[i].poll \in 0..MaxPolls
    <3> SUFFICES ASSUME NEW i \in DOMAIN txq
                 PROVE  /\ txq[i].frame.kind \in {"advert", "anon", "request"}
                        /\ txq[i].poll \in 0..MaxPolls
      OBVIOUS
    <3>1. txq[i] \in QueueEntries
      BY <2>1 DEF QueueInv
    <3> QED
      BY <3>1, EntryFields
  <2> QED
    BY <2>1, <2>2 DEF MeshTypeOK, ClientInv, QueueInv, StoreInv, PollState
<1> QED
  BY <1>1, MeshInvariance, PTL

\* Every observation that leaves the RX queue is merged, whichever loop takes it out.
THEOREM ObservationsMerged == MeshSpec => []ObservationsKept
<1>1. MeshInv => ObservationsKept
  BY DEF MeshInv, StoreInv
<1> QED
  BY <1>1, MeshInvariance, PTL

\* The client implements the safety of PollExchange: one exchange at a time, and
\* telemetry that a poll stores answers the request of this very poll.
THEOREM ExchangesKept == MeshSpec => Exchange!ExchangeSafety
<1> QED
  BY MeshInitially, MeshStep, MeshInvariance, PTL
     DEF MeshSpec, Exchanges, Exchange!ExchangeSafety

=============================================================================
