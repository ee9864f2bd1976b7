--------------------------- MODULE GatewayConfig ---------------------------
(***************************************************************************)
(* Provisioning documents (provisioning.rs) and the configuration they     *)
(* become (config.rs in muninn-gate-core): conversion with its defaults    *)
(* and capacity checks, and validation.  A string is a value, "" when it   *)
(* is empty and Long when it exceeds its fixed capacity; an absent or null *)
(* field is None.                                                          *)
(***************************************************************************)
EXTENDS Integers, Sequences, TLC

CONSTANTS
    None,
    Long,             \* any string too long for its field
    MaxProducers,     \* MAX_TELEMETRY_PRODUCERS
    MaxTokens,        \* MAX_HTTP_AUTH_TOKENS
    MinInterval, DefaultInterval, MaxInterval, \* seconds between polls
    DefaultJitter, MaxJitter,
    MaxPathMode,
    DisplayValues,    \* what parse_display_value accepts
    HttpServer,       \* whether the board has Wi-Fi and an HTTP server
    UsbSerial         \* whether it has a USB serial port

ASSUME ConfigAssumption ==
    /\ {MaxProducers, MaxTokens, MaxJitter, MaxPathMode, DefaultJitter} \subseteq Nat
    /\ MinInterval \in Nat \ {0} /\ DefaultInterval \in Nat /\ MaxInterval \in Nat
    /\ MinInterval <= DefaultInterval /\ DefaultInterval <= MaxInterval
    /\ DefaultJitter <= MaxJitter
    /\ HttpServer \in BOOLEAN /\ UsbSerial \in BOOLEAN
    /\ None \notin Int

OrElse(x, default) == IF x = None THEN default ELSE x

\* fixed_string, fixed_trimmed_string
Fits(s) == s # Long

-----------------------------------------------------------------------------
(* Radio parameters.  The synchronization word and the inversion of IQ are  *)
(* passed through and left out.                                             *)

\* RadioParams::default
DefaultRadio ==
    [frequency_hz |-> 910525000, bandwidth_hz |-> 62500, spreading_factor |-> 7,
     coding_rate |-> 5, tx_power_level |-> 14, preamble_len |-> 16, tx_ramp_time_us |-> 200]

\* WireRadioConfig::to_config: the document has some of the fields.
RadioToConfig(w) == IF w = None THEN DefaultRadio ELSE w @@ DefaultRadio

SupportedBandwidths ==
    {7810, 10420, 15630, 20830, 31250, 41670, 62500, 125000, 250000, 500000}
SupportedRampTimes == {10, 20, 40, 80, 200, 800, 1700, 3400}

\* Changed: the list of bandwidths is taken for the data sheet's.
IsSupportedAnyBandwidth(r) ==
    /\ r.frequency_hz > 0
    /\ r.spreading_factor \in 5..12 /\ r.coding_rate \in 5..8
    /\ r.tx_power_level \in -9..22
    /\ r.preamble_len > 0
    /\ r.tx_ramp_time_us \in SupportedRampTimes

\* RadioParams::is_supported
IsSupported(r) ==
    /\ r.frequency_hz > 0
    /\ r.bandwidth_hz \in SupportedBandwidths
    /\ r.spreading_factor \in 5..12 /\ r.coding_rate \in 5..8
    /\ r.tx_power_level \in -9..22
    /\ r.preamble_len > 0
    /\ r.tx_ramp_time_us \in SupportedRampTimes

\* What the driver has a setting for: bandwidth, coding_rate, ramp_time of the
\* platform and LoRaSpreadFactor::try_from of the driver.
DriverBandwidths ==
    {7810, 10420, 15630, 20830, 31250, 41670, 62500, 125000, 250000, 500000}
DriverCodingRates == {5, 6, 7, 8}
DriverRampTimes == {10, 20, 40, 80, 200, 800, 1700, 3400}
DriverSpreadFactors == {5, 6, 7, 8, 9, 10, 11, 12}

\* mesh_radio_config_from_gateway succeeds.
MapsToDriver(r) ==
    /\ r.spreading_factor \in DriverSpreadFactors
    /\ r.bandwidth_hz \in DriverBandwidths
    /\ r.coding_rate \in DriverCodingRates
    /\ r.tx_ramp_time_us \in DriverRampTimes

\* The levels of the Heltec V4 whose output has been measured, and the level that
\* is set for the one configured (map_tx_power, clamp_to_driver_tx_power_level).
MeasuredLevels == {1, 5, 10, 12, 14, 16, 18, 20, 22}
SelectedLevel(level) == IF level < 1 THEN 1 ELSE IF level > 22 THEN 22 ELSE level

\* conducted_output_at_or_below: the level whose output is reported, if any
OutputLevel(level) ==
    LET below == {l \in MeasuredLevels : l <= level}
    IN  IF below = {} THEN None ELSE CHOOSE l \in below : \A other \in below : other <= l

-----------------------------------------------------------------------------
\* WireHttpConfig::to_config and HttpConfig::new, add_token
HttpConverts(h) ==
    /\ Fits(h.wifi_ssid) /\ Fits(h.wifi_password)
    /\ Len(h.tokens) <= MaxTokens
    /\ \A i \in DOMAIN h.tokens : Fits(h.tokens[i])

\* WireDisplayConfig::to_config: the fields of a disabled display are not read.
DisplayConverts(d) ==
    d.enabled => /\ d.node_display \in DisplayValues \cup {None}
                 /\ OrElse(d.brightness_percent, 0) <= 100

\* WireProducerConfig::to_config with parse_producer_kind and parse_route
ProducerConverts(p) ==
    /\ Fits(p.public_key) /\ Fits(p.name) /\ Fits(p.password)
    /\ p.kind \in {"companion", "repeater", None}
    /\ p.route # ""

ProducerToConfig(p) ==
    [public_key |-> p.public_key, name |-> OrElse(p.name, ""),
     kind |-> OrElse(p.kind, "companion"), password |-> p.password,
     enabled |-> OrElse(p.enabled, TRUE),
     polling_interval_secs |-> p.polling_interval_secs, route |-> "direct"]

\* The numbers and the list of a document, each of its type or absent (the fields of
\* WireGatewayConfig and of the structures in it).
WireDocument(w) ==
    /\ {w.interval, w.jitter, w.path_mode} \subseteq Nat \cup {None}
    /\ Len(w.producers) \in Nat /\ DOMAIN w.producers = 1 .. Len(w.producers)
    /\ \A i \in DOMAIN w.producers :
           w.producers[i].polling_interval_secs \in Nat \cup {None}

\* WireGatewayConfig::to_config succeeds: what it refuses are values outside
\* their capacity or their list of names.
Converts(w) ==
    /\ Fits(w.name) /\ Fits(w.public_key) /\ Fits(w.private_key)
    /\ w.http # None => HttpConverts(w.http)
    /\ w.display # None => DisplayConverts(w.display)
    /\ Len(w.producers) <= MaxProducers
    /\ \A i \in DOMAIN w.producers : ProducerConverts(w.producers[i])

ToConfig(w) ==
    [name |-> w.name, public_key |-> w.public_key, private_key |-> w.private_key,
     http |-> w.http,
     interval |-> OrElse(w.interval, DefaultInterval),
     jitter |-> OrElse(w.jitter, DefaultJitter),
     radio |-> RadioToConfig(w.radio),
     path_mode |-> OrElse(w.path_mode, MaxPathMode),
     producers |-> [i \in DOMAIN w.producers |-> ProducerToConfig(w.producers[i])]]

-----------------------------------------------------------------------------
\* PollingConfig::is_valid; the bounds are not in the document.
PollingValid(c) ==
    /\ MinInterval <= c.interval /\ c.interval <= MaxInterval
    /\ c.jitter <= MaxJitter

\* HttpConfig::is_valid
HttpValid(h) == h.port # 0 /\ h.wifi_ssid # "" /\ \A i \in DOMAIN h.tokens : h.tokens[i] # ""

-----------------------------------------------------------------------------
\* Changed: the interval of a single producer is not looked at.
ProducerValidAnyInterval(p) ==
    /\ p.public_key # ""
    /\ p.password # ""
    /\ p.kind = "companion" => p.password = None

\* What validate asks of one producer
ProducerValid(p) ==
    /\ p.public_key # ""
    /\ p.password # ""
    /\ p.kind = "companion" => p.password = None
    /\ p.polling_interval_secs # None =>
           MinInterval <= p.polling_interval_secs /\ p.polling_interval_secs <= MaxInterval

KeysDiffer(c) ==
    \A i, j \in DOMAIN c.producers :
        i # j => c.producers[i].public_key # c.producers[j].public_key

\* GatewayConfig::validate; brightness was checked by the conversion.
Validate(c) ==
    /\ c.name # "" /\ c.public_key # ""
    /\ PollingValid(c)
    /\ IsSupported(c.radio)
    /\ c.path_mode <= MaxPathMode
    /\ c.http # None => HttpValid(c.http)
    /\ \A i \in DOMAIN c.producers : ProducerValid(c.producers[i])
    /\ KeysDiffer(c)

\* validate_outputs
OutputsSupported(c) == UsbSerial /\ (c.http # None => HttpServer)

\* PollingConfig::clamp_interval_secs
Clamp(n) == IF n < MinInterval THEN MinInterval ELSE IF n > MaxInterval THEN MaxInterval ELSE n

\* TelemetryProducerConfig::effective_polling_interval_ms, in seconds
EffectiveInterval(c, p) == Clamp(OrElse(p.polling_interval_secs, c.interval))

\* FixedTelemetryStore::from_config and PollScheduler::new have a slot for each
\* producer.
HasRoom(c) == Len(c.producers) <= MaxProducers

\* run_gateway gives up on the configuration it has loaded and spins for ever.
Halts(c) == ~OutputsSupported(c) \/ ~HasRoom(c) \/ ~MapsToDriver(c.radio)

\* What the scheduler, the radio and the HTTP loop take for granted of a
\* configuration: the gateway starts with it; each producer is polled at the
\* interval its owner wrote, within the policy; producers have ids of their own;
\* the power that is reported was measured at the level set or below, and is not
\* more than the level asked for unless that has no output; there is a port.
Runs(c) ==
    /\ ~Halts(c)
    /\ LET set == SelectedLevel(c.radio.tx_power_level)
       IN  /\ OutputLevel(set) # None
           /\ c.radio.tx_power_level >= 1 => OutputLevel(set) <= c.radio.tx_power_level
    /\ \A i \in DOMAIN c.producers :
           LET p == c.producers[i] IN
           /\ EffectiveInterval(c, p) \in MinInterval..MaxInterval
           /\ EffectiveInterval(c, p) = OrElse(p.polling_interval_secs, c.interval)
    /\ KeysDiffer(c)
    /\ c.http # None => c.http.port # 0
=============================================================================
