------------------------------ MODULE Telemetry ------------------------------
(***************************************************************************)
(* Telemetry of one producer (telemetry.rs in muninn-gate-core): the table *)
(* of channels, the default view over all channels, decoding of Cayenne    *)
(* LPP payloads and merging of partial observations.                       *)
(*                                                                         *)
(* A payload is a sequence of entries; bytes that are no complete entry    *)
(* are an entry of a type that is not known.                               *)
(***************************************************************************)
EXTENDS Naturals, SequencesExt

CONSTANTS
    Unset,         \* a metric that was not reported
    MaxChannels,   \* MAX_TELEMETRY_CHANNELS
    SelfChannel    \* MESHCORE_SELF_CHANNEL

ASSUME ChannelAssumption == MaxChannels \in Nat \ {0}

\* The metric each supported type of entry carries (decode_lpp_payload).
MetricOf ==
    [analog_input |-> "gas_resistance_ohms", temperature |-> "temperature_celsius",
     relative_humidity |-> "humidity_percent", barometric_pressure |-> "pressure_pa",
     voltage |-> "voltage", current |-> "current_amps", power |-> "power_watts",
     percentage |-> "battery_percent"]

Metrics == {MetricOf[type] : type \in DOMAIN MetricOf} \cup {"battery_voltage"}

\* lpp_value_length: the types whose values are skipped.
SkippedTypes ==
    {"digital_input", "digital_output", "presence", "switch", "analog_output", "luminosity",
     "concentration", "altitude", "direction", "colour", "generic_sensor", "frequency",
     "distance", "energy", "unixtime", "accelerometer", "gyrometer", "gps"}

\* TelemetryMetrics::new and ProducerTelemetry::new
NoMetrics == [m \in Metrics |-> Unset]
NoTelemetry(now) == [heard |-> now, signal |-> Unset, view |-> NoMetrics, channels |-> <<>>]

\* TelemetryMetrics::merge_from: overlay what the other one has.
Overlay(metrics, other) ==
    [m \in Metrics |-> IF other[m] # Unset THEN other[m] ELSE metrics[m]]

\* Changed: a channel of its own for each entry.
UpdateChannelAppending(channels, id, metrics) ==
    IF Len(channels) < MaxChannels
    THEN Append(channels, [id |-> id, metrics |-> metrics]) ELSE channels

\* update_channel, with the overlay that every caller makes: a new channel needs
\* a free slot, without one the metrics are lost.
UpdateChannel(channels, id, metrics) ==
    IF \E i \in DOMAIN channels : channels[i].id = id
    THEN [i \in DOMAIN channels |->
             IF channels[i].id = id
             THEN [channels[i] EXCEPT !.metrics = Overlay(@, metrics)] ELSE channels[i]]
    ELSE IF Len(channels) < MaxChannels
         THEN Append(channels, [id |-> id, metrics |-> Overlay(NoMetrics, metrics)])
         ELSE channels

\* What one entry says; the voltage of the producer itself is that of its battery.
Said(entry) ==
    [m \in Metrics |->
        IF \/ m = MetricOf[entry.type]
           \/ m = "battery_voltage" /\ entry.type = "voltage" /\ entry.channel = SelfChannel
        THEN entry.value ELSE Unset]

\* Changed: the last channel of a message gives the view its value.
SetChannelLastWins(t, entry) ==
    [t EXCEPT !.view = Overlay(@, Said(entry)),
              !.channels = UpdateChannel(@, entry.channel, Said(entry))]

\* set_channel_...: the view keeps what it has, the channel takes the new value.
SetChannel(t, entry) ==
    [t EXCEPT !.view = Overlay(Said(entry), @),
              !.channels = UpdateChannel(@, entry.channel, Said(entry))]

\* The percentage of another channel than the producer's own is skipped.
IsReading(entry) ==
    /\ entry.type \in DOMAIN MetricOf
    /\ entry.type = "percentage" => entry.channel = SelfChannel

\* x, if it is there.
Optional(present, x) == IF present THEN <<x>> ELSE <<>>

\* Decoding ends at the first entry whose length is not known.
Readings(payload) ==
    LET Known(entry) == entry.type \in DOMAIN MetricOf \cup SkippedTypes
        unknown == {i \in DOMAIN payload : ~Known(payload[i])}
        before == IF unknown = {} THEN payload
                  ELSE SubSeq(payload, 1, (CHOOSE i \in unknown : \A j \in unknown : i <= j) - 1)
    IN  FlattenSeq([i \in DOMAIN before |-> Optional(IsReading(before[i]), before[i])])

\* decode_lpp_payload: one reading after the other.
Decode(t, payload) ==
    LET readings == Readings(payload)
        after[k \in 0..Len(readings)] ==
            IF k = 0 THEN t
            ELSE CHOOSE next \in {SetChannel(before, readings[k]) : before \in {after[k-1]}} : TRUE
    IN  after[Len(readings)]

\* Channels merged into a table: update_channel for one after the other.
MergeChannels(channels, others) ==
    LET merged[k \in 0..Len(others)] ==
            IF k = 0 THEN channels
            ELSE CHOOSE next \in {UpdateChannel(before, others[k].id, others[k].metrics) :
                                     before \in {merged[k-1]}} : TRUE
    IN  merged[Len(others)]

\* ProducerTelemetry::merge_from; every frame brings its RSSI and SNR.  The view takes
\* whatever the newer message has, of whichever channel.
MergeFrom(t, other) ==
    [heard |-> other.heard, signal |-> other.signal,
     view |-> Overlay(t.view, other.view), channels |-> MergeChannels(t.channels, other.channels)]
=============================================================================
