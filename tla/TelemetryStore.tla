--------------------------- MODULE TelemetryStore ---------------------------
(***************************************************************************)
(* The telemetry the gateway keeps of its producers: what polls answer     *)
(* replaces it, what the radio overhears is merged into it (meshcore.rs,   *)
(* telemetry_state.rs, FixedTelemetryStore in muninn-gate-core), and the   *)
(* metrics page reads it (wifi.rs).  The page is served in the main loop   *)
(* and in the waits of a poll; the clock runs all the time.                *)
(***************************************************************************)
EXTENDS MeshPacket, Telemetry

CONSTANTS
    Producers,   \* the configured producers, in order: [node, name, enabled]
    KeyPrefix,   \* KeyPrefix[n]: first two bytes of n's public key
    AdvertName,  \* AdvertName[n]: the name n advertises, None without one
    AdvertBytes, \* AdvertBytes[n]: n's advert read as LPP from its first and its fifth byte
    Answers,     \* payloads of telemetry answers
    WireForms,   \* forms of a frame on the wire
    RxCap,       \* length of RADIO_RX_QUEUE
    MaxTime, MaxFrames, MaxAnswers \* bounds of the model: clock, frames heard, answers

Ids == DOMAIN Producers
Nodes == DOMAIN AdvertBytes

\* What a payload or an advert may say, and what becomes of it.
Payloads == Answers \cup UNION {{AdvertBytes[n][1], AdvertBytes[n][2]} : n \in Nodes}
Entries == UNION {ToSet(payload) : payload \in Payloads}
MetricValues == [Metrics -> {e.value : e \in Entries} \cup {Unset}]
Telemetries ==
    [heard : Nat, signal : Nat \cup {Unset}, view : MetricValues,
     channels : Seq([id : {e.channel : e \in Entries}, metrics : MetricValues])]

\* Nothing keeps producers from having the same name, or none.
ASSUME StoreAssumption ==
    /\ Producers \in Seq([node : Nodes \cup DOMAIN PublicText, name : STRING, enabled : BOOLEAN])
    /\ \A payload \in Payloads : payload \in Seq(Entries)
    /\ {RxCap, MaxTime, MaxFrames, MaxAnswers} \subseteq Nat
    /\ None \notin Nat \cup Telemetries

VARIABLES
    records,  \* records[i]: telemetry of the TelemetryRecord of producer i, or None
    totals,   \* totals[i]: its poll_success_total and poll_failure_total
    rxq,      \* RADIO_RX_QUEUE, with a number for the signal strength of each frame
    now,      \* the clock
    tick,     \* now_ms of the polls of the scheduler's tick under way, or None
    drain,    \* now_ms of its drain_observations under way, or None
    said,     \* history, said[i]: readings of the last answer and of each frame since
    heard, answers \* frames heard and answers so far

storeVars == <<records, totals, rxq, now, tick, drain, said, heard, answers>>

-----------------------------------------------------------------------------
(* Which producer a frame is of, and what it says of it.                    *)

\* producer_matches_frame with producer_public_key_prefix
Matches(i, meta) ==
    \/ /\ meta.key # None /\ PublicText[Producers[i].node].digits >= 4
       /\ KeyPrefix[meta.key] = KeyPrefix[Producers[i].node]
    \/ Producers[i].name # "" /\ meta.name = Producers[i].name

\* telemetry_for_any_producer: the first enabled one that matches.
ProducerOf(f) ==
    LET matching == {i \in Ids : Producers[i].enabled /\ Matches(i, PacketMeta(f).advert)}
    IN  IF matching = {} THEN None ELSE CHOOSE i \in matching : \A j \in matching : i <= j

\* The body of the frame read as LPP, if it has one.
BodyReadings(f) ==
    IF ParseWire(f).error # "none" THEN <<>>
    ELSE Readings(AdvertBytes[f.body.key][1]) \o Readings(AdvertBytes[f.body.key][2])

\* telemetry_from_frame
FromFrame(received, stamp) ==
    LET f == received.frame
        fresh == [NoTelemetry(stamp) EXCEPT !.signal = received.signal]
    IN  IF ParseWire(f).error # "none" THEN fresh
        ELSE Decode(Decode(fresh, AdvertBytes[f.body.key][1]), AdvertBytes[f.body.key][2])

\* merge_producer
MergeProducer(i, t) == IF records[i] = None THEN t ELSE MergeFrom(records[i], t)

-----------------------------------------------------------------------------
(* What is written.                                                         *)

\* A frame from the queue is discarded, or merged into what is known of its
\* producer (record_producer_observation).
Observe(stamp) ==
    /\ rxq # <<>>
    /\ rxq' = Tail(rxq)
    /\ \E received \in {Head(rxq)} : \E i \in {ProducerOf(received.frame)} :
          \/ /\ i = None
             /\ UNCHANGED <<records, said>>
          \/ /\ i # None
             /\ \E t \in {FromFrame(received, stamp)} :
                   records' = [records EXCEPT ![i] = MergeProducer(i, t)]
             /\ said' = [said EXCEPT ![i] = Append(@, BodyReadings(received.frame))]

\* Changed: the running clock of the wait (poll_wait_now_ms).
ObservationStampRunning == now

\* What record_passive_observation stamps a frame with: now_ms of the client.
ObservationStamp == tick

\* Changed: an answer is merged as an observation is.
UpdateProducerMerging(i, t) == records' = [records EXCEPT ![i] = MergeProducer(i, t)]

\* SharedTelemetryStore::update_producer
UpdateProducer(i, t) == records' = [records EXCEPT ![i] = t]

-----------------------------------------------------------------------------
(* The metrics page: stream_metrics_response.                               *)

Sample(name, value) == [name |-> name, labels |-> <<>>, value |-> value]

\* write_node_metric: the name of the producer is its label.
NodeSample(name, i, value) ==
    [name |-> name, labels |-> <<Producers[i].name>>, value |-> value]

\* write_optional_channel_metric
ChannelSample(name, i, id, value) ==
    [name |-> name, labels |-> <<Producers[i].name, id>>, value |-> value]

\* write_labeled_metric and write_optional_labeled_metric
StateSample(name, state, value) == [name |-> name, labels |-> <<state>>, value |-> value]

MetricOrder ==
    <<"battery_voltage", "battery_percent", "voltage", "current_amps", "power_watts",
      "temperature_celsius", "humidity_percent", "pressure_pa", "gas_resistance_ohms">>

\* The metrics of a channel that were reported.
ChannelSamples(i, channel) ==
    LET Line(m) == Optional(channel.metrics[m] # Unset,
                            ChannelSample(m, i, channel.id, channel.metrics[m]))
    IN  FlattenSeq([k \in DOMAIN MetricOrder |-> Line(MetricOrder[k])])

\* saturating_sub
Age(uptime, stamp) == IF uptime >= stamp THEN uptime - stamp ELSE 0

\* write_producer_metrics; a frame brings its RSSI and its SNR.
ProducerSamples(i, uptime) ==
    LET t == records[i]
    IN  <<NodeSample("node_poll_success_total", i, totals[i].success),
          NodeSample("node_poll_failure_total", i, totals[i].failure)>>
        \o IF t = None THEN <<>>
           ELSE <<NodeSample("node_last_heard_age_ms", i, Age(uptime, t.heard)),
                  NodeSample("node_rssi", i, t.signal), NodeSample("node_snr", i, t.signal)>>
                \o FlattenSeq([k \in DOMAIN t.channels |-> ChannelSamples(i, t.channels[k])])

\* The series of the gateway itself, in the order they are written.  Those that are
\* left out while their value is not known are all there: the widest page.
RadioSeries ==
    <<"battery_voltage_mv", "poll_success_total", "poll_failure_total",
      "radio_rx_total", "radio_tx_total", "radio_rx_crc_error_total", "radio_last_rssi_dbm",
      "radio_last_snr_db", "radio_noise_floor_dbm", "radio_last_tx_airtime_ms",
      "tx_output_milliwatts">>

StationSeries ==
    <<"wifi_connected", "wifi_disconnect_total", "wifi_rssi_dbm", "wifi_channel",
      "wifi_connect_started_age_ms", "wifi_connected_age_ms", "wifi_connect_request_total",
      "wifi_connect_request_error_total", "dhcp_configured", "dhcp_started_age_ms",
      "dhcp_configured_age_ms", "dhcp_last_acquire_ms", "network_startup_to_serving_ms">>

HttpSeries ==
    <<"http_requests_total", "http_success_total", "http_send_error_total",
      "http_last_success_age_ms", "http_listening_sockets">>

LoopSeries ==
    <<"smoltcp_poll_total", "smoltcp_ms_since_last_poll", "smoltcp_poll_gap_max_ms",
      "smoltcp_poll_delay_miss_total", "smoltcp_poll_bad_gap_total", "main_loop_gap_last_ms",
      "main_loop_gap_max_ms", "scheduler_tick_last_ms", "scheduler_tick_max_ms",
      "lora_service_last_ms", "lora_service_max_ms", "http_service_last_ms",
      "http_service_max_ms">>

SocketStates ==
    <<"closed", "listen", "syn_sent", "syn_received", "established", "fin_wait_1", "fin_wait_2",
      "close_wait", "closing", "last_ack", "time_wait">>

AgedStates ==
    <<"any", "syn_sent", "syn_received", "established", "fin_wait_1", "fin_wait_2",
      "close_wait", "closing", "last_ack", "time_wait">>

\* The values of the gateway's samples are not modelled here, its uptime excepted.
Samples(names) == [k \in DOMAIN names |-> Sample(names[k], None)]

\* write_http_socket_state_metrics
SocketSamples ==
    [k \in DOMAIN SocketStates |-> StateSample("http_sockets", SocketStates[k], None)]
    \o [k \in DOMAIN AgedStates |->
           StateSample("http_oldest_socket_age_ms", AgedStates[k], None)]

\* stream_metrics_response up to the producers
GatewaySamples(uptime) ==
    <<Sample("up", 1), Sample("uptime_ms", uptime)>>
    \o Samples(RadioSeries \o StationSeries \o HttpSeries)
    \o SocketSamples
    \o Samples(LoopSeries)

\* refresh_gateway_metrics, before the snapshot is taken
PageUptime == now

-----------------------------------------------------------------------------
(* Steps.                                                                   *)

\* The clock and the radio run in the main loop and in the waits of a poll.
Waiting == drain = None

Pass ==
    /\ Waiting /\ now < MaxTime
    /\ now' = now + 1
    /\ UNCHANGED <<records, totals, rxq, tick, drain, said, heard, answers>>

\* The advert of a node, as it may come.
AdvertFrame(n, form) ==
    LET advert == [key |-> n, name |-> AdvertName[n], place |-> form.place, whole |-> TRUE]
    IN  [WireFrame("advert", advert) EXCEPT !.segment = form.segment, !.parts = form.parts]

\* An advert is received; the newest frame is dropped when the queue is full.
Hear ==
    /\ Waiting /\ heard < MaxFrames
    /\ heard' = heard + 1
    /\ \E n \in Nodes, form \in WireForms :
          rxq' = IF Len(rxq) < RxCap
                 THEN Append(rxq, [frame |-> AdvertFrame(n, form), signal |-> heard']) ELSE rxq
    /\ UNCHANGED <<records, totals, now, tick, drain, said, answers>>

\* Producers are due: poll_due stamps everything with the time it began.
BeginPolls ==
    /\ tick = None /\ drain = None
    /\ tick' = now
    /\ UNCHANGED <<records, totals, rxq, now, drain, said, heard, answers>>

\* A poll under way takes a frame that is no response (record_passive_observation).
PollObserves ==
    /\ tick # None
    /\ Observe(ObservationStamp)
    /\ UNCHANGED <<totals, now, tick, drain, heard, answers>>

\* A poll is answered: the telemetry replaces what was known.
PollAnswered(i) ==
    /\ tick # None /\ Producers[i].enabled /\ answers < MaxAnswers
    /\ answers' = answers + 1
    /\ \E payload \in Answers :
          /\ \E t \in {Decode([NoTelemetry(tick) EXCEPT !.signal = 0], payload)} :
                UpdateProducer(i, t)
          /\ said' = [said EXCEPT ![i] = <<Readings(payload)>>]
    /\ totals' = [totals EXCEPT ![i].success = @ + 1]
    /\ UNCHANGED <<rxq, now, tick, drain, heard>>

PollFailed(i) ==
    /\ tick # None /\ Producers[i].enabled /\ answers < MaxAnswers
    /\ answers' = answers + 1
    /\ totals' = [totals EXCEPT ![i].failure = @ + 1]
    /\ UNCHANGED <<records, rxq, now, tick, drain, said, heard>>

\* The polls, if any, are over: drain_observations until the queue is empty.
BeginDrain ==
    /\ drain = None /\ rxq # <<>>
    /\ drain' = now
    /\ tick' = None
    /\ UNCHANGED <<records, totals, rxq, now, said, heard, answers>>

DrainObserves ==
    /\ drain # None
    /\ Observe(drain)
    /\ drain' = IF Len(rxq) = 1 THEN None ELSE drain
    /\ UNCHANGED <<totals, now, tick, heard, answers>>

\* The tick found the queue empty.
EndPolls ==
    /\ tick # None /\ rxq = <<>>
    /\ tick' = None
    /\ UNCHANGED <<records, totals, rxq, now, drain, said, heard, answers>>

\* reset_from_config
StoreInit ==
    /\ records = [i \in Ids |-> None]
    /\ totals = [i \in Ids |-> [success |-> 0, failure |-> 0]]
    /\ rxq = <<>> /\ now = 0 /\ tick = None /\ drain = None
    /\ said = [i \in Ids |-> <<>>]
    /\ heard = 0 /\ answers = 0

StoreNext ==
    \/ Pass \/ Hear
    \/ BeginPolls \/ PollObserves \/ EndPolls
    \/ \E i \in Ids : PollAnswered(i) \/ PollFailed(i)
    \/ BeginDrain \/ DrainObserves

StoreSpec == StoreInit /\ [][StoreNext]_storeVars

-----------------------------------------------------------------------------
(* Properties.                                                              *)

StoreTypeOK ==
    /\ records \in [Ids -> Telemetries \cup {None}]
    /\ totals \in [Ids -> [success : Nat, failure : Nat]]
    /\ rxq \in Seq([frame : {AdvertFrame(n, form) : n \in Nodes, form \in WireForms},
                     signal : 1..MaxFrames])
    /\ Len(rxq) <= RxCap
    /\ now \in 0..MaxTime
    /\ tick \in 0..MaxTime \cup {None} /\ drain \in 0..MaxTime \cup {None}
    /\ said \in [Ids -> Seq(Seq(Entries))]
    /\ heard \in 0..MaxFrames /\ answers \in 0..MaxAnswers

\* What a sequence of readings leaves of a metric of a channel: the last value.
LastSaid(readings, id, m) ==
    LET about == {k \in DOMAIN readings :
                      readings[k].channel = id /\ Said(readings[k])[m] # Unset}
    IN  IF about = {} THEN Unset
        ELSE readings[CHOOSE k \in about : \A j \in about : j <= k].value

\* The first channels named, as many as there is room for.
Retained(readings) ==
    LET Earlier(k) == {readings[j].channel : j \in 1..k-1}
    IN  {readings[k].channel :
            k \in {j \in DOMAIN readings : Cardinality(Earlier(j) \ {readings[j].channel})
                                               < MaxChannels}}

\* What a table made of one message alone has of it.
Kept(message) ==
    FlattenSeq([k \in DOMAIN message |->
                   Optional(message[k].channel \in Retained(message), message[k])])

Told(messages) == FlattenSeq([k \in DOMAIN messages |-> Kept(messages[k])])

\* The table of a producer holds what its last answer and all the observations
\* since said, the newest value of every metric of every channel there was room
\* for, and nothing of earlier answers (update_producer, merge_producer,
\* decode_lpp_payload): "one partial observation drops no channel".  What one message
\* says of more channels than a table has does not come so far.
TableMatchesHeard ==
    \A i \in Ids :
        /\ (records[i] = None) <=> (said[i] = <<>>)
        /\ records[i] # None =>
               LET channels == records[i].channels
                   readings == Told(said[i])
               IN  /\ {c.id : c \in ToSet(channels)} = Retained(readings)
                   /\ \A c \in ToSet(channels), m \in Metrics :
                          c.metrics[m] = LastSaid(readings, c.id, m)

\* What an answer or a frame says first of a metric, of whatever channel.
FirstSaid(readings, m) ==
    LET about == {k \in DOMAIN readings : Said(readings[k])[m] # Unset}
    IN  IF about = {} THEN Unset
        ELSE readings[CHOOSE k \in about : \A j \in about : k <= j].value

\* The default view is not stale: of each metric it shows what the newest message that
\* says anything of it said first, also of a channel there was no room for; serial output
\* and display show the view (set_channel_..., merge_from).  This is what the code does:
\* within one message the first channel wins, as 7_GATEWAY_METRICS.md:287 and :307 and
\* telemetry.rs:152 put it, but merge_from lays the newer message over the view, which
\* may then be a value of another channel than the first that was ever seen.
ViewIsCurrent ==
    \A i \in Ids : records[i] # None =>
        \A m \in Metrics :
            LET saying == {k \in DOMAIN said[i] : FirstSaid(said[i][k], m) # Unset}
            IN  records[i].view[m] =
                    IF saying = {} THEN Unset
                    ELSE FirstSaid(said[i][CHOOSE k \in saying : \A j \in saying : j <= k], m)

\* The name and the labels of a sample: the series it belongs to.
SeriesOf(samples) == {<<samples[k].name, samples[k].labels>> : k \in DOMAIN samples}

\* Prometheus refuses a page that names one series twice.  Of one producer and the
\* gateway itself it names none twice, a channel has one line per metric however often
\* it was reported (update_channel, write_producer_metrics); and two producers share a
\* series only if they have the same name, which is all that node="..." tells of them:
\* validation compares keys alone and a name left out is the empty one.
SeriesOnce ==
    \A own \in {[i \in Ids |-> ProducerSamples(i, PageUptime)]} :
    \A i \in Ids :
        /\ \A part \in {GatewaySamples(PageUptime) \o own[i]} :
               Cardinality(SeriesOf(part)) = Len(part)
        /\ \A j \in Ids : SeriesOf(own[i]) \cap SeriesOf(own[j]) # {}
                          => Producers[i].name = Producers[j].name

\* When a producer was last heard, as the page tells it.
LastHeard(i) == now - Age(now, records[i].heard)

\* The time a producer was last heard never goes back, though answers, passive
\* observations within a poll and those of the main loop are stamped by different
\* code and one replaces the other.
HeardNeverGoesBack ==
    [][ \A i \in Ids : records[i] # None => records'[i] # None /\ LastHeard(i)' >= LastHeard(i) ]_storeVars

=============================================================================
