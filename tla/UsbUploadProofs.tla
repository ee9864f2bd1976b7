-------------------------- MODULE UsbUploadProofs --------------------------
(***************************************************************************)
(* Proofs about UsbUpload and the configurations of GatewayConfig, for all *)
(* documents, all texts a host may send, and all buffer lengths and times. *)
(***************************************************************************)
EXTENDS UsbUpload, WellFoundedInduction, TLAPS

-----------------------------------------------------------------------------
(* A configuration that is accepted is one the gateway can run.             *)

\* ConfigAssumption, constant by constant.
LEMMA ConfigTypes ==
    /\ MaxProducers \in Nat /\ MaxTokens \in Nat /\ MaxJitter \in Nat
    /\ MaxPathMode \in Nat /\ DefaultJitter \in Nat
    /\ MinInterval \in Nat /\ DefaultInterval \in Nat /\ MaxInterval \in Nat
    /\ MinInterval <= DefaultInterval /\ DefaultInterval <= MaxInterval
    /\ None \notin Int
BY ConfigAssumption

\* Supported settings are settings of the driver.
LEMMA SupportedMaps ==
    ASSUME NEW r, IsSupported(r)
    PROVE  MapsToDriver(r)
BY DEF IsSupported, MapsToDriver, SupportedBandwidths, SupportedRampTimes,
       DriverBandwidths, DriverCodingRates, DriverRampTimes, DriverSpreadFactors

\* Of the levels measured, one is the highest at or below the level set.
LEMMA HighestMeasured ==
    ASSUME NEW level \in 1..22
    PROVE  \E l \in MeasuredLevels : l <= level /\ \A other \in MeasuredLevels :
                                                      other <= level => other <= l
<1>1. CASE level < 5
  <2>1. 1 \in MeasuredLevels
    BY DEF MeasuredLevels
  <2>2. \A other \in MeasuredLevels : other <= level => other <= 1
    BY <1>1 DEF MeasuredLevels
  <2> QED BY <2>1, <2>2
<1>2. CASE level \in 5..9
  <2>1. 5 \in MeasuredLevels
    BY DEF MeasuredLevels
  <2>2. \A other \in MeasuredLevels : other <= level => other <= 5
    BY <1>2 DEF MeasuredLevels
  <2> QED BY <1>2, <2>1, <2>2
<1>3. CASE level \in 10..11
  <2>1. 10 \in MeasuredLevels
    BY DEF MeasuredLevels
  <2>2. \A other \in MeasuredLevels : other <= level => other <= 10
    BY <1>3 DEF MeasuredLevels
  <2> QED BY <1>3, <2>1, <2>2
<1>4. CASE level \in {12, 14, 16, 18, 20, 22}
  <2>1. level \in MeasuredLevels
    BY <1>4 DEF MeasuredLevels
  <2> QED BY <2>1
<1>5. CASE level \in {13, 15, 17, 19, 21}
  <2>1. level - 1 \in MeasuredLevels
    BY <1>5 DEF MeasuredLevels
  <2>2. \A other \in MeasuredLevels : other <= level => other <= level - 1
    BY <1>5 DEF MeasuredLevels
  <2> QED BY <1>5, <2>1, <2>2
<1> QED
  BY <1>1, <1>2, <1>3, <1>4, <1>5

\* The output that is reported was measured at the level set or below it.
LEMMA OutputMeasured ==
    ASSUME NEW level \in 1..22
    PROVE  /\ OutputLevel(level) \in MeasuredLevels
           /\ OutputLevel(level) <= level
<1> DEFINE below == {l \in MeasuredLevels : l <= level}
<1>1. PICK l \in below : \A other \in below : other <= l
  BY HighestMeasured
<1>2. below # {}
  BY <1>1
<1>3. OutputLevel(level) = CHOOSE l2 \in below : \A other \in below : other <= l2
  BY <1>2, Zenon DEF OutputLevel
<1>4. OutputLevel(level) \in below
  BY <1>1, <1>3, Zenon
<1> QED
  BY <1>4

\* The level set lies within the driver's range, and is the one asked for if that does.
LEMMA PowerReported ==
    ASSUME NEW level \in -9..22
    PROVE  LET set == SelectedLevel(level)
           IN  /\ OutputLevel(set) # None
               /\ level >= 1 => OutputLevel(set) <= level
<1>1. SelectedLevel(level) \in 1..22
  BY DEF SelectedLevel
<1>2. level >= 1 => SelectedLevel(level) = level
  BY DEF SelectedLevel
<1>3. /\ OutputLevel(SelectedLevel(level)) \in MeasuredLevels
      /\ OutputLevel(SelectedLevel(level)) <= SelectedLevel(level)
  BY <1>1, OutputMeasured
<1>4. OutputLevel(SelectedLevel(level)) \in Int
  BY <1>3 DEF MeasuredLevels
<1>5. OutputLevel(SelectedLevel(level)) # None
  BY <1>4, ConfigTypes
<1> QED
  BY <1>2, <1>3, <1>5

-----------------------------------------------------------------------------
\* Converting a document keeps its list of producers and their intervals.
LEMMA ProducersConverted ==
    ASSUME NEW w, WireDocument(w)
    PROVE  LET c == ToConfig(w) IN
           /\ DOMAIN c.producers = DOMAIN w.producers
           /\ Len(c.producers) = Len(w.producers)
           /\ \A i \in DOMAIN c.producers :
                  c.producers[i].polling_interval_secs = w.producers[i].polling_interval_secs
<1> DEFINE list == [i \in DOMAIN w.producers |-> ProducerToConfig(w.producers[i])]
<1>1. ToConfig(w).producers = list
  BY DEF ToConfig
<1>2. DOMAIN list = 1 .. Len(w.producers) /\ Len(w.producers) \in Nat
  BY DEF WireDocument
<1>3. list \in Seq({ProducerToConfig(w.producers[i]) : i \in 1 .. Len(w.producers)})
  BY <1>2
<1>4. Len(list) = Len(w.producers)
  BY <1>2, <1>3
<1>5. \A i \in DOMAIN list :
         list[i].polling_interval_secs = w.producers[i].polling_interval_secs
  BY DEF ProducerToConfig
<1> HIDE DEF list
<1> QED
  BY <1>1, <1>2, <1>4, <1>5 DEF WireDocument

\* A document that is converted, that validates and whose outputs the board has is
\* one the gateway runs (WireGatewayConfig::to_config, GatewayConfig::validate and
\* validate_outputs against run_gateway).
THEOREM ValidatedRuns ==
    ASSUME NEW w, WireDocument(w), Converts(w), Validate(ToConfig(w)),
           OutputsSupported(ToConfig(w))
    PROVE  Runs(ToConfig(w))
<1> DEFINE c == ToConfig(w)
<1>1. /\ c.interval \in Int
      /\ \A i \in DOMAIN c.producers :
            c.producers[i].polling_interval_secs \in Nat \cup {None}
  <2>1. c.interval = OrElse(w.interval, DefaultInterval)
    BY DEF ToConfig
  <2>2. c.interval \in Nat
    BY <2>1, ConfigTypes DEF OrElse, WireDocument
  <2>3. \A i \in DOMAIN w.producers :
           w.producers[i].polling_interval_secs \in Nat \cup {None}
    BY DEF WireDocument
  <2>4. \A i \in DOMAIN c.producers :
           c.producers[i].polling_interval_secs \in Nat \cup {None}
    BY <2>3, ProducersConverted
  <2> QED
    BY <2>2, <2>4
<1>2. ~Halts(c)
  <2>1. MapsToDriver(c.radio)
    BY SupportedMaps DEF Validate
  <2>2. HasRoom(c)
    BY ProducersConverted DEF HasRoom, Converts
  <2> QED
    BY <2>1, <2>2 DEF Halts
<1>3. c.radio.tx_power_level \in -9..22
  BY DEF Validate, IsSupported
<1>4. ASSUME NEW i \in DOMAIN c.producers
      PROVE  LET p == c.producers[i] IN
             /\ EffectiveInterval(c, p) \in MinInterval..MaxInterval
             /\ EffectiveInterval(c, p) = OrElse(p.polling_interval_secs, c.interval)
  <2> DEFINE p == c.producers[i]
             n == OrElse(p.polling_interval_secs, c.interval)
  <2>1. ProducerValid(p) /\ PollingValid(c)
    BY <1>4 DEF Validate
  <2>2. p.polling_interval_secs \in Nat \cup {None}
    BY <1>1, <1>4
  <2>3. n \in Int /\ MinInterval <= n /\ n <= MaxInterval
    <3>1. CASE p.polling_interval_secs = None
      <4>1. n = c.interval
        BY <3>1, Zenon DEF OrElse
      <4> QED
        BY <1>1, <2>1, <4>1 DEF PollingValid
    <3>2. CASE p.polling_interval_secs # None
      <4>1. n = p.polling_interval_secs
        BY <3>2, Zenon DEF OrElse
      <4>2. n \in Nat
        BY <2>2, <3>2, <4>1
      <4>3. MinInterval <= p.polling_interval_secs /\ p.polling_interval_secs <= MaxInterval
        BY <2>1, <3>2, Zenon DEF ProducerValid
      <4> HIDE DEF n, p
      <4> QED
        BY <4>1, <4>2, <4>3
    <3> QED
      BY <3>1, <3>2
  <2>4. EffectiveInterval(c, p) = Clamp(n)
    BY DEF EffectiveInterval
  <2> HIDE DEF n, p
  <2>5. Clamp(n) = n
    BY <2>3, ConfigTypes DEF Clamp
  <2>6. EffectiveInterval(c, p) \in MinInterval..MaxInterval /\ EffectiveInterval(c, p) = n
    BY <2>3, <2>4, <2>5, ConfigTypes
  <2> QED
    BY <2>6 DEF n, p
<1>5. KeysDiffer(c) /\ (c.http # None => c.http.port # 0)
  BY DEF Validate, HttpValid
<1> HIDE DEF c
<1>6. LET set == SelectedLevel(c.radio.tx_power_level)
      IN  /\ OutputLevel(set) # None
          /\ c.radio.tx_power_level >= 1 => OutputLevel(set) <= c.radio.tx_power_level
  BY <1>3, PowerReported
<1>7. Runs(c)
  BY <1>2, <1>4, <1>5, <1>6, Zenon DEF Runs
<1> QED
  BY <1>7 DEF c

-----------------------------------------------------------------------------
(* What the parser returns, whatever the text is.                           *)

\* A result is a configuration only when a document said so that converts and
\* validates (parse_usb_document, parse_config_wire).
AcceptedConfig(result) ==
    result.is = "config" =>
        \E d \in Documents :
            LET w == Content[d].config IN
            /\ WireDocument(w) /\ Converts(w) /\ Validate(ToConfig(w))
            /\ result.config = ToConfig(w)

LEMMA WireAccepted ==
    ASSUME NEW d \in Documents, Content[d].config # None, WireDocument(Content[d].config)
    PROVE  AcceptedConfig(ParseWire(Content[d].config))
<1> DEFINE w == Content[d].config
<1>1. CASE Converts(w) /\ Validate(ToConfig(w))
  <2>1. ParseWire(w) = [is |-> "config", config |-> ToConfig(w)]
    BY <1>1 DEF ParseWire
  <2>2. ParseWire(w).config = ToConfig(w)
    BY <2>1
  <2> QED
    BY <1>1, <2>2, Zenon DEF AcceptedConfig
<1>2. CASE ~(Converts(w) /\ Validate(ToConfig(w)))
  <2>1. ParseWire(w) = [is |-> "error", code |-> "InvalidConfig"]
    BY <1>2 DEF ParseWire
  <2>2. ParseWire(w).is # "config"
    BY <2>1
  <2> QED
    BY <2>2 DEF AcceptedConfig
<1> QED
  BY <1>1, <1>2

LEMMA StrippedAccepted ==
    ASSUME NEW text
    PROVE  AcceptedConfig(ParseStripped(text))
<1> DEFINE first == Body(text.out)[1]
           d == Content[first]
<1>1. CASE text.string \/ ~OneObject(text.out) \/ d.type = "other"
  <2>1. ParseStripped(text) = [is |-> "error", code |-> "Json"]
    BY <1>1, Zenon DEF ParseStripped
  <2> QED
    BY <2>1 DEF AcceptedConfig
<1>2. CASE ~(text.string \/ ~OneObject(text.out) \/ d.type = "other")
  <2>1. first \in Documents
    BY <1>2, Zenon DEF OneObject, Opens
  <2>2. Document(d)
    BY <2>1, TextAssumption
  <2>3. ParseStripped(text) =
            IF d.type = "unknown" THEN [is |-> "error", code |-> "Command"]
            ELSE IF d.config # None THEN ParseWire(d.config)
            ELSE IF d.type = "set_config" THEN [is |-> "error", code |-> "MissingField"]
            ELSE [is |-> d.type]
    BY <1>2, Zenon DEF ParseStripped
  <2>4. CASE d.type = "unknown"
    <3>1. ParseStripped(text).is = "error"
      BY <2>3, <2>4
    <3> QED
      BY <3>1 DEF AcceptedConfig
  <2>5. CASE d.type # "unknown" /\ d.config # None
    <3>1. ParseStripped(text) = ParseWire(d.config)
      BY <2>3, <2>5, Zenon
    <3>2. WireDocument(d.config)
      BY <2>2, <2>5, Zenon DEF Document
    <3> QED
      BY <2>1, <2>5, <3>1, <3>2, WireAccepted, Zenon
  <2>6. CASE d.type # "unknown" /\ d.config = None
    <3>1. ParseStripped(text).is # "config"
      <4>1. d.type # "config"
        BY <2>2, <2>6 DEF Document
      <4> HIDE DEF d
      <4> QED
        BY <2>3, <2>6, <4>1
    <3> QED
      BY <3>1 DEF AcceptedConfig
  <2> QED
    BY <2>4, <2>5, <2>6
<1> QED
  BY <1>1, <1>2

LEMMA ParseAccepted ==
    ASSUME NEW t
    PROVE  AcceptedConfig(Parse(t))
<1>1. Parse(t) = ParseStripped(Strip(t))
  BY Zenon DEF Parse
<1> QED
  BY <1>1, StrippedAccepted, Zenon

-----------------------------------------------------------------------------
\* An answered document leaves what is stored as it was, or stores a configuration
\* that the gateway runs (handle_document, handle_provisioning_document).
LEMMA HandledRuns ==
    ASSUME NEW t, HandleDocument(t)
    PROVE  stored' = stored \/ Runs(stored')
<1>1. CASE UNCHANGED stored
  BY <1>1
<1>2. CASE /\ Parse(t).is = "config" /\ OutputsSupported(Parse(t).config)
           /\ stored' = Parse(t).config
  <2>1. PICK d \in Documents :
            /\ WireDocument(Content[d].config) /\ Converts(Content[d].config)
            /\ Validate(ToConfig(Content[d].config))
            /\ Parse(t).config = ToConfig(Content[d].config)
    BY <1>2, ParseAccepted, Zenon DEF AcceptedConfig
  <2>2. Runs(ToConfig(Content[d].config))
    BY <1>2, <2>1, ValidatedRuns, Zenon
  <2> QED
    BY <1>2, <2>1, <2>2, Zenon
<1> QED
  BY <1>1, <1>2, Zenon DEF HandleDocument

\* A configuration is stored by an answered document only.
LEMMA StoreStep ==
    ASSUME [UsbNext]_usbVars
    PROVE  stored' = stored \/ Runs(stored')
<1>1. CASE ReadByte
  <2>1. stored' = stored \/ HandleDocument(Append(buffer, line[1]))
    BY <1>1, Zenon DEF ReadByte, RejectPoll, Complete
  <2> QED
    BY <2>1, HandledRuns, Zenon
<1>2. CASE EndPoll
  <2>1. stored' = stored \/ HandleDocument(buffer)
    BY <1>2, Zenon DEF EndPoll, TakeBuffered
  <2> QED
    BY <2>1, HandledRuns, Zenon
<1>3. CASE CloseWindow \/ (\E tick \in {0, 1} : Pause(tick)) \/ Boot \/ StartUpload \/ SendByte
  BY <1>3, Zenon DEF CloseWindow, Pause, Boot, StartUpload, SendByte
<1>4. CASE UNCHANGED usbVars
  BY <1>4, Zenon DEF usbVars
<1> QED
  BY <1>1, <1>2, <1>3, <1>4, Zenon DEF UsbNext, Poll

\* Whatever is uploaded, and however it arrives, the configuration in flash is one
\* the gateway starts with and runs as its owner wrote it (parse_usb_document and
\* validate_outputs against run_gateway).
THEOREM UploadsRun == UsbSpec => []StoredRuns
<1>1. UsbInit => StoredRuns
  BY DEF UsbInit, StoredRuns
<1>2. StoredRuns /\ [UsbNext]_usbVars => StoredRuns'
  <2> SUFFICES ASSUME StoredRuns, [UsbNext]_usbVars PROVE StoredRuns'
    OBVIOUS
  <2>1. stored' = stored \/ Runs(stored')
    BY StoreStep
  <2> QED
    BY <2>1, Zenon DEF StoredRuns
<1> QED
  BY <1>1, <1>2, PTL DEF UsbSpec

-----------------------------------------------------------------------------
(* The receiver and the loops: what a byte, a poll and a pause leave.       *)

\* The flags of a receiver that has seen n bytes: a bracket is one of them.
ScanOf(n) ==
    [depth : 0..n, started : BOOLEAN, string : BOOLEAN, escaped : BOOLEAN,
     comment : BOOLEAN, slash : BOOLEAN]

\* A window whose loop is in the middle of a round has not ended.
WindowInv == phase = "window" /\ pc # "loop" => elapsed < WindowLength

UploadInv == UsbTypeOK /\ scan \in ScanOf(Len(buffer)) /\ WindowInv

\* UploadAssumption, constant by constant.
LEMMA UploadTypes ==
    /\ Cap \in Nat /\ Cap > 0 /\ LineCap \in Nat /\ LineCap > 0
    /\ IdleTimeout \in Nat /\ IdleTimeout > 0 /\ WindowLength \in Nat /\ WindowLength > 0
    /\ ReadyEvery \in Nat /\ ReadyEvery > 0
    /\ MaxUploads \in Nat /\ MaxUploads > 0 /\ MaxBoots \in Nat /\ MaxBoots > 0
BY UploadAssumption

\* A byte deepens the nesting by one bracket at most and never below none.
LEMMA AcceptTyped ==
    ASSUME NEW n \in Nat, NEW s \in ScanOf(n), NEW b, ~Underflows(s, b)
    PROVE  Accept(s, b) \in ScanOf(n + 1)
<1>1. s \in ScanOf(n + 1)
  BY DEF ScanOf
<1>2. CASE s.comment
  <2>1. Accept(s, b) = [s EXCEPT !.comment = b # "newline"]
    BY <1>2, Zenon DEF Accept
  <2>2. (b # "newline") \in BOOLEAN
    OBVIOUS
  <2> QED
    BY <1>1, <2>1, <2>2 DEF ScanOf
<1>3. CASE ~s.comment /\ s.string
  <2>1. Accept(s, b) = [s EXCEPT !.escaped = ~s.escaped /\ b = "escape",
                                 !.string = s.escaped \/ b # "quote"]
    BY <1>3, Zenon DEF Accept
  <2> QED
    BY <1>1, <2>1 DEF ScanOf
<1>4. CASE ~s.comment /\ ~s.string /\ s.slash /\ b = "slash"
  <2>1. Accept(s, b) = [s EXCEPT !.slash = FALSE, !.comment = TRUE]
    BY <1>4, Zenon DEF Accept
  <2> QED
    BY <1>1, <2>1 DEF ScanOf
<1>5. CASE ~s.comment /\ ~s.string /\ ~(s.slash /\ b = "slash")
  <2> DEFINE d == IF Opens(b) THEN s.depth + 1
                  ELSE IF b = "close" THEN s.depth - 1 ELSE s.depth
  <2>1. Accept(s, b) = [s EXCEPT !.slash = b = "slash", !.string = b = "quote", !.depth = d]
    BY <1>5, Zenon DEF Accept
  <2>2. b = "close" => s.depth # 0
    BY <1>5, Zenon DEF Underflows, Counts
  <2>3. d \in 0 .. n + 1
    BY <2>2 DEF ScanOf
  <2> HIDE DEF d
  <2> QED
    BY <1>1, <2>1, <2>3 DEF ScanOf
<1> QED
  BY <1>2, <1>3, <1>4, <1>5, Zenon

Phases == {"provision", "window", "reboot", "serving", "halted"}

\* An answered document leads to a phase with or without a receiver, and to a window
\* only from a window.
LEMMA HandledTyped ==
    ASSUME NEW t, phase \in Phases, HandleDocument(t)
    PROVE  owed' = FALSE /\ phase' \in Phases /\ (phase' = "window" => phase = "window")
<1>1. owed' = FALSE
  BY Zenon DEF HandleDocument
<1>2. \/ phase' \in {"halted", "serving", "reboot"}
      \/ phase' = phase
  BY Zenon DEF HandleDocument, RunGateway
<1> QED
  BY <1>1, <1>2 DEF Phases

\* No byte, and none of the flags.
LEMMA IdleTyped ==
    /\ <<>> \in Seq(Bytes) /\ Len(<<>>) = 0
    /\ Idle \in ScanOf(0)
BY DEF Idle, ScanOf

\* What a poll that answers leaves of the receiver.
LEMMA ResetTyped ==
    ASSUME ResetReceiver
    PROVE  /\ buffer' \in Seq(Bytes) /\ Len(buffer') <= Cap
           /\ scan' \in ScanOf(Len(buffer')) /\ scan' \in ScanOf(Cap)
<1>1. buffer' = <<>> /\ scan' = Idle
  BY DEF ResetReceiver
<1>2. buffer' \in Seq(Bytes) /\ Len(buffer') = 0
  BY <1>1, IdleTyped, Zenon
<1>3. scan' \in ScanOf(0)
  BY <1>1, IdleTyped, Zenon
<1>4. scan' \in ScanOf(Cap)
  BY <1>3, UploadTypes DEF ScanOf
<1> QED
  BY <1>2, <1>3, <1>4, UploadTypes

LEMMA HeadOfLine ==
    ASSUME line \in Seq(Bytes), Len(line) <= LineCap, line # <<>>
    PROVE  /\ line[1] \in Bytes
           /\ Tail(line) \in Seq(Bytes) /\ Len(Tail(line)) <= LineCap
BY UploadTypes

\* A byte is skipped, rejected with what came before, the last of a document, or one
\* more of it.
LEMMA ReadByteStep ==
    ASSUME UploadInv, ReadByte
    PROVE  UploadInv'
<1> DEFINE b == line[1]
           s == [scan EXCEPT !.started = TRUE]
<1>1. /\ UsbTypeOK /\ scan \in ScanOf(Len(buffer)) /\ WindowInv
  BY DEF UploadInv
<1>2. /\ line \in Seq(Bytes) /\ Len(line) <= LineCap /\ line # <<>>
      /\ buffer \in Seq(Bytes) /\ Len(buffer) <= Cap /\ Len(buffer) \in Nat
      /\ phase \in Phases /\ pc \in {"loop", "reading", "pause"}
      /\ last \in 0..IdleTimeout \cup {None}
  BY <1>1 DEF UsbTypeOK, ReadByte, Phases
<1>3. b \in Bytes /\ line' \in Seq(Bytes) /\ Len(line') <= LineCap
  BY <1>2, HeadOfLine DEF ReadByte
<1>4. phase = "window" => elapsed < WindowLength
  BY <1>1 DEF WindowInv, ReadByte, Polling
<1>5. s \in ScanOf(Len(buffer))
  BY <1>1 DEF ScanOf
<1>6. \/ /\ pc' = "reading" /\ buffer' = buffer /\ scan' = scan /\ owed' = owed
         /\ last' = last /\ phase' = phase
      \/ RejectPoll
      \/ Complete(b)
      \/ /\ ~Full /\ ~Underflows(s, b)
         /\ pc' = "reading" /\ buffer' = Append(buffer, b) /\ scan' = Accept(s, b)
         /\ owed' = TRUE /\ last' = last /\ phase' = phase
  BY Zenon DEF ReadByte
<1>7. /\ ready' = ready /\ elapsed' = elapsed /\ host' = host /\ uploads' = uploads
      /\ boots' = boots
  BY DEF ReadByte
<1> DEFINE Read == /\ buffer' \in Seq(Bytes) /\ Len(buffer') <= Cap
                   /\ scan' \in ScanOf(Len(buffer')) /\ scan' \in ScanOf(Cap)
                   /\ pc' \in {"loop", "reading", "pause"} /\ phase' \in Phases
                   /\ last' \in 0..IdleTimeout \cup {None}
                   /\ owed' \in BOOLEAN
                   /\ phase' = "window" => phase = "window"
<1>8. Read
  <2>1. CASE /\ pc' = "reading" /\ buffer' = buffer /\ scan' = scan /\ owed' = owed
             /\ last' = last /\ phase' = phase
    <3>1. scan \in ScanOf(Cap) /\ owed \in BOOLEAN
      BY <1>1, Zenon DEF UsbTypeOK, ScanOf
    <3>2. owed' \in BOOLEAN
      BY <2>1, <3>1, Zenon
    <3>3. scan' \in ScanOf(Len(buffer')) /\ scan' \in ScanOf(Cap)
      BY <1>1, <2>1, <3>1, Zenon
    <3> QED
      BY <1>2, <2>1, <3>2, <3>3
  <2>2. CASE RejectPoll
    <3>1. ResetReceiver /\ owed' = FALSE /\ pc' = "pause" /\ phase' = phase
      BY <2>2 DEF RejectPoll
    <3>2. last' \in {last, None}
      BY <2>2 DEF RejectPoll
    <3> QED
      BY <1>2, <3>1, <3>2, ResetTyped
  <2>3. CASE Complete(b)
    <3>1. /\ ResetReceiver /\ last' = None /\ pc' = "pause"
          /\ HandleDocument(Append(buffer, b))
      BY <2>3, Zenon DEF Complete
    <3>2. owed' = FALSE /\ phase' \in Phases /\ (phase' = "window" => phase = "window")
      BY <1>2, <3>1, HandledTyped, Zenon
    <3> QED
      BY <3>1, <3>2, ResetTyped
  <2>4. CASE /\ ~Full /\ ~Underflows(s, b)
             /\ pc' = "reading" /\ buffer' = Append(buffer, b) /\ scan' = Accept(s, b)
             /\ owed' = TRUE /\ last' = last /\ phase' = phase
    <3>1. Len(buffer) < Cap
      BY <1>2, <2>4, UploadTypes DEF Full
    <3>2. buffer' \in Seq(Bytes) /\ Len(buffer') = Len(buffer) + 1
      BY <1>2, <1>3, <2>4
    <3>3. scan' \in ScanOf(Len(buffer) + 1)
      BY <1>2, <1>5, <2>4, AcceptTyped, Zenon
    <3>4. scan' \in ScanOf(Cap)
      BY <1>2, <3>1, <3>3, UploadTypes DEF ScanOf
    <3>5. scan' \in ScanOf(Len(buffer'))
      BY <3>2, <3>3, Zenon
    <3> QED
      BY <1>2, <2>4, <3>1, <3>2, <3>4, <3>5, UploadTypes
  <2> QED
    BY <1>6, <2>1, <2>2, <2>3, <2>4, Zenon
<1>9. UsbTypeOK'
  BY <1>1, <1>3, <1>7, <1>8, Zenon DEF UsbTypeOK, ScanOf, Phases
<1>10. WindowInv'
  BY <1>4, <1>7, <1>8 DEF WindowInv
<1> QED
  BY <1>8, <1>9, <1>10, Zenon DEF UploadInv

\* The end of a poll: what has waited too long is taken as a document or rejected.
LEMMA EndPollStep ==
    ASSUME UploadInv, EndPoll
    PROVE  UploadInv'
<1>1. /\ UsbTypeOK /\ scan \in ScanOf(Len(buffer)) /\ WindowInv
  BY DEF UploadInv
<1>2. /\ buffer \in Seq(Bytes) /\ Len(buffer) <= Cap /\ scan \in ScanOf(Cap)
      /\ phase \in Phases /\ pc \in {"loop", "reading", "pause"}
      /\ last \in 0..IdleTimeout \cup {None} /\ ready \in 0..ReadyEvery
      /\ owed \in BOOLEAN
  BY <1>1, Zenon DEF UsbTypeOK, Phases, ScanOf
<1>3. /\ pc' = "pause" /\ line' = line /\ elapsed' = elapsed /\ host' = host
      /\ uploads' = uploads /\ boots' = boots
  BY DEF EndPoll
<1>4. phase = "window" => elapsed < WindowLength
  BY <1>1 DEF WindowInv, EndPoll, Polling
<1>5. ready' \in 0..ReadyEvery
  <2>1. ready' = 0 \/ ready' = ready
    BY DEF EndPoll
  <2> QED
    BY <1>2, <2>1, UploadTypes
<1>6. last' \in 0..IdleTimeout \cup {None}
  <2>1. last' \in {None, last, 0}
    BY DEF EndPoll, NoteActivity
  <2> QED
    BY <1>2, <2>1, UploadTypes
<1> DEFINE Taken == /\ buffer' \in Seq(Bytes) /\ Len(buffer') <= Cap
                    /\ scan' \in ScanOf(Len(buffer')) /\ scan' \in ScanOf(Cap)
                    /\ phase' \in Phases
                    /\ owed' \in BOOLEAN
                    /\ phase' = "window" => phase = "window"
<1>7. Taken
  <2>1. CASE ResetReceiver /\ HandleDocument(buffer)
    <3>1. owed' = FALSE /\ phase' \in Phases /\ (phase' = "window" => phase = "window")
      BY <1>2, <2>1, HandledTyped, Zenon
    <3> QED
      BY <2>1, <3>1, ResetTyped
  <2>2. CASE /\ buffer' = buffer /\ scan' = scan /\ phase' = phase
             /\ (owed' = FALSE \/ owed' = owed)
    <3>1. owed' \in BOOLEAN
      BY <1>2, <2>2, Zenon
    <3> QED
      BY <1>1, <1>2, <2>2, <3>1, Zenon
  <2>3. \/ ResetReceiver /\ HandleDocument(buffer)
        \/ /\ buffer' = buffer /\ scan' = scan /\ phase' = phase
           /\ (owed' = FALSE \/ owed' = owed)
    BY Zenon DEF EndPoll, TakeBuffered
  <2> QED
    BY <2>1, <2>2, <2>3, Zenon
<1>8. UsbTypeOK'
  BY <1>1, <1>3, <1>5, <1>6, <1>7, Zenon DEF UsbTypeOK, ScanOf, Phases
<1>9. WindowInv'
  BY <1>3, <1>4, <1>7 DEF WindowInv
<1> QED
  BY <1>7, <1>8, <1>9, Zenon DEF UploadInv

\* The delay: the ages grow to their bounds and the window by one second.
LEMMA PauseStep ==
    ASSUME UploadInv, NEW tick \in {0, 1}, Pause(tick)
    PROVE  UploadInv'
<1>1. /\ UsbTypeOK /\ scan \in ScanOf(Len(buffer)) /\ WindowInv
  BY DEF UploadInv
<1>2. /\ last \in 0..IdleTimeout \cup {None} /\ ready \in 0..ReadyEvery
      /\ elapsed \in 0..WindowLength
  BY <1>1 DEF UsbTypeOK
<1>3. /\ pc = "pause" /\ pc' = "loop" /\ phase' = phase /\ line' = line /\ buffer' = buffer
      /\ scan' = scan /\ stored' = stored /\ host' = host /\ uploads' = uploads
      /\ boots' = boots
  BY DEF Pause
<1>4. owed' = owed
  BY DEF Pause
<1>5. last' \in 0..IdleTimeout \cup {None}
  <2>1. last' = last \/ last' = None \/ (last # None /\ last' = Older(last, IdleTimeout))
    BY DEF Pause
  <2> QED
    BY <1>2, <2>1, UploadTypes DEF Older
<1>6. ready' \in 0..ReadyEvery
  <2>1. ready' = ready \/ ready' = Older(ready, ReadyEvery)
    BY DEF Pause
  <2> QED
    BY <1>2, <2>1, UploadTypes DEF Older
<1>7. elapsed' \in 0..WindowLength
  <2>1. elapsed' = elapsed \/ (phase = "window" /\ elapsed' = elapsed + 1)
    BY DEF Pause
  <2>2. phase = "window" => elapsed < WindowLength
    BY <1>1, <1>3 DEF WindowInv
  <2> QED
    BY <1>2, <2>1, <2>2, UploadTypes
<1>8. UsbTypeOK'
  <2>1. pc' \in {"loop", "reading", "pause"}
    BY <1>3
  <2> QED
    BY <1>1, <1>3, <1>4, <1>5, <1>6, <1>7, <2>1, Zenon DEF UsbTypeOK
<1>9. WindowInv'
  BY <1>3 DEF WindowInv
<1> QED
  BY <1>1, <1>3, <1>8, <1>9, Zenon DEF UploadInv

LEMMA CloseWindowStep ==
    ASSUME UploadInv, CloseWindow
    PROVE  UploadInv'
<1>1. /\ UsbTypeOK /\ WindowInv
  BY DEF UploadInv
<1>2. /\ ResetReceiver /\ owed' = FALSE /\ line' = <<>> /\ host' = <<>>
      /\ phase' \in {"serving", "halted"}
      /\ pc' = pc /\ last' = last /\ ready' = ready /\ elapsed' = elapsed
      /\ uploads' = uploads /\ boots' = boots
  BY DEF CloseWindow, RunGateway
<1>3. /\ line' \in Seq(Bytes) /\ Len(line') <= LineCap /\ host' \in Seq(Bytes)
      /\ phase' \in Phases
  BY <1>2, UploadTypes DEF Phases
<1>4. /\ buffer' \in Seq(Bytes) /\ Len(buffer') <= Cap
      /\ scan' \in ScanOf(Len(buffer')) /\ scan' \in ScanOf(Cap)
  BY <1>2, ResetTyped
<1>5. UsbTypeOK'
  <2>1. owed' \in BOOLEAN
    BY <1>2
  <2> QED
    BY <1>1, <1>2, <1>3, <1>4, <2>1, Zenon DEF UsbTypeOK, ScanOf, Phases
<1>6. WindowInv'
  BY <1>2 DEF WindowInv
<1> QED
  BY <1>4, <1>5, <1>6, Zenon DEF UploadInv

LEMMA BootStep ==
    ASSUME UploadInv, Boot
    PROVE  UploadInv'
<1>1. UsbTypeOK
  BY DEF UploadInv
<1>2. /\ ResetReceiver /\ owed' = FALSE /\ line' = <<>> /\ host' = <<>>
      /\ phase' \in {"provision", "window"} /\ pc' = "loop"
      /\ last' = None /\ elapsed' = 0 /\ ready' \in {0, ReadyEvery}
      /\ uploads' = uploads
  BY DEF Boot
<1>3. boots' \in 0..MaxBoots
  BY <1>1, UploadTypes DEF Boot, UsbTypeOK
<1>4. /\ line' \in Seq(Bytes) /\ Len(line') <= LineCap /\ host' \in Seq(Bytes)
      /\ phase' \in Phases /\ pc' \in {"loop", "reading", "pause"}
      /\ last' \in 0..IdleTimeout \cup {None} /\ elapsed' \in 0..WindowLength
      /\ ready' \in 0..ReadyEvery /\ owed' \in BOOLEAN
  <2>1. line' \in Seq(Bytes) /\ Len(line') <= LineCap /\ host' \in Seq(Bytes)
    BY <1>2, UploadTypes
  <2>2. phase' \in Phases /\ pc' \in {"loop", "reading", "pause"} /\ owed' \in BOOLEAN
    BY <1>2 DEF Phases
  <2>3. /\ last' \in 0..IdleTimeout \cup {None} /\ elapsed' \in 0..WindowLength
        /\ ready' \in 0..ReadyEvery
    BY <1>2, UploadTypes
  <2> QED
    BY <2>1, <2>2, <2>3, Zenon
<1>5. /\ buffer' \in Seq(Bytes) /\ Len(buffer') <= Cap
      /\ scan' \in ScanOf(Len(buffer')) /\ scan' \in ScanOf(Cap)
  BY <1>2, ResetTyped
<1>6. UsbTypeOK'
  BY <1>1, <1>2, <1>3, <1>4, <1>5, Zenon DEF UsbTypeOK, ScanOf, Phases
<1>7. WindowInv'
  BY <1>2 DEF WindowInv
<1> QED
  BY <1>5, <1>6, <1>7, Zenon DEF UploadInv

LEMMA HostStep ==
    ASSUME UploadInv, StartUpload \/ SendByte
    PROVE  UploadInv'
<1>1. /\ UsbTypeOK /\ scan \in ScanOf(Len(buffer)) /\ WindowInv
  BY DEF UploadInv
<1>2. /\ phase' = phase /\ pc' = pc /\ buffer' = buffer /\ scan' = scan /\ last' = last
      /\ ready' = ready /\ elapsed' = elapsed /\ boots' = boots
  BY DEF StartUpload, SendByte
<1>3. owed' = owed
  BY DEF StartUpload, SendByte
<1>4. /\ host' \in Seq(Bytes) /\ line' \in Seq(Bytes) /\ Len(line') <= LineCap
      /\ uploads' \in 0..MaxUploads
  <2>1. CASE StartUpload
    <3>1. host' \in Texts /\ line' = line /\ uploads' = uploads + 1 /\ uploads < MaxUploads
      BY <2>1 DEF StartUpload
    <3>2. host' \in Seq(Bytes)
      BY <3>1, TextAssumption
    <3> QED
      BY <1>1, <3>1, <3>2, UploadTypes DEF UsbTypeOK
  <2>2. CASE SendByte
    <3>1. /\ host # <<>> /\ Len(line) < LineCap /\ line' = Append(line, host[1])
          /\ host' = Tail(host) /\ uploads' = uploads
      BY <2>2 DEF SendByte
    <3>2. host \in Seq(Bytes) /\ line \in Seq(Bytes) /\ uploads \in 0..MaxUploads
      BY <1>1 DEF UsbTypeOK
    <3>3. host[1] \in Bytes /\ host' \in Seq(Bytes)
      BY <3>1, <3>2
    <3> QED
      BY <3>1, <3>2, <3>3, UploadTypes
  <2> QED
    BY <2>1, <2>2
<1>5. UsbTypeOK'
  BY <1>1, <1>2, <1>3, <1>4, Zenon DEF UsbTypeOK
<1>6. WindowInv'
  BY <1>1, <1>2 DEF WindowInv
<1> QED
  BY <1>1, <1>2, <1>5, <1>6, Zenon DEF UploadInv

LEMMA UploadInit == UsbInit => UploadInv
<1> SUFFICES ASSUME UsbInit PROVE UploadInv
  OBVIOUS
<1>1. buffer = <<>> /\ scan = Idle
  BY DEF UsbInit
<1>2. /\ buffer \in Seq(Bytes) /\ Len(buffer) = 0 /\ scan \in ScanOf(0)
  BY <1>1, IdleTyped, Zenon
<1>3. scan \in ScanOf(Len(buffer)) /\ scan \in ScanOf(Cap) /\ Len(buffer) <= Cap
  BY <1>2, UploadTypes DEF ScanOf
<1>4. /\ line \in Seq(Bytes) /\ Len(line) <= LineCap /\ host \in Seq(Bytes)
      /\ phase \in Phases /\ pc \in {"loop", "reading", "pause"}
      /\ last \in 0..IdleTimeout \cup {None} /\ elapsed \in 0..WindowLength
      /\ ready \in 0..ReadyEvery /\ owed \in BOOLEAN
      /\ uploads \in 0..MaxUploads /\ boots \in 0..MaxBoots
  <2>1. line = <<>> /\ host = <<>>
    BY DEF UsbInit
  <2>2. line \in Seq(Bytes) /\ Len(line) <= LineCap /\ host \in Seq(Bytes)
    BY <2>1, UploadTypes
  <2>3. phase \in Phases /\ pc \in {"loop", "reading", "pause"} /\ owed \in BOOLEAN
    BY DEF UsbInit, Phases
  <2>4. /\ last \in 0..IdleTimeout \cup {None} /\ elapsed \in 0..WindowLength
        /\ ready \in 0..ReadyEvery
        /\ uploads \in 0..MaxUploads /\ boots \in 0..MaxBoots
    BY UploadTypes DEF UsbInit
  <2> QED
    BY <2>2, <2>3, <2>4, Zenon
<1>5. WindowInv
  BY DEF UsbInit, WindowInv
<1> QED
  BY <1>2, <1>3, <1>4, <1>5, Zenon DEF UploadInv, UsbTypeOK, ScanOf, Phases

\* Every step of the loops, of the host and of a reset keeps the receiver within its
\* buffer, its nesting within the bytes seen, and a round within its window.
THEOREM UploadInvariance == UsbSpec => []UploadInv
<1>1. UploadInv /\ [UsbNext]_usbVars => UploadInv'
  <2> SUFFICES ASSUME UploadInv, [UsbNext]_usbVars PROVE UploadInv'
    OBVIOUS
  <2>1. CASE ReadByte
    BY <2>1, ReadByteStep
  <2>2. CASE EndPoll
    BY <2>2, EndPollStep
  <2>3. CASE CloseWindow
    BY <2>3, CloseWindowStep
  <2>4. CASE \E tick \in {0, 1} : Pause(tick)
    BY <2>4, PauseStep
  <2>5. CASE Boot
    BY <2>5, BootStep
  <2>6. CASE StartUpload \/ SendByte
    BY <2>6, HostStep
  <2>7. CASE UNCHANGED usbVars
    <3>1. /\ phase' = phase /\ pc' = pc /\ line' = line /\ buffer' = buffer /\ scan' = scan
          /\ last' = last /\ ready' = ready /\ elapsed' = elapsed /\ host' = host
          /\ uploads' = uploads /\ boots' = boots
      BY <2>7 DEF usbVars
    <3>2. owed' = owed
      BY <2>7 DEF usbVars
    <3> QED
      BY <3>1, <3>2, ZenonT(60) DEF UploadInv, UsbTypeOK, WindowInv
  <2> QED
    BY <2>1, <2>2, <2>3, <2>4, <2>5, <2>6, <2>7, Zenon DEF UsbNext, Poll
<1> QED
  BY <1>1, UploadInit, PTL DEF UsbSpec

\* The receiver's buffer and flags, the ages of the loop and the bytes on the line keep
\* their types and their bounds (UsbJsonReceiver, run_usb_config_update_window).
THEOREM UploadTypeCorrect == UsbSpec => []UsbTypeOK
BY UploadInvariance, PTL DEF UploadInv

-----------------------------------------------------------------------------
(* Induction over texts.  What is proved of every prefix is the set of the   *)
(* lengths it holds for.                                                    *)

LEMMA LeastNatural ==
    ASSUME NEW T, T \subseteq Nat, T # {}
    PROVE  \E n \in T : \A m \in T : ~(m < n)
<1> DEFINE R == OpToRel(<, Nat)
<1>1. IsWellFoundedOn(R, Nat)
  BY NatLessThanWellFounded, Zenon
<1>2. R = {pair \in Nat \X Nat : pair[1] < pair[2]}
  BY Zenon DEF OpToRel
<1> HIDE DEF R
<1>3. PICK n \in T : \A m \in T : ~(<<m, n>> \in R)
  BY <1>1, WFMin, Zenon
<1>4. \A m \in T : m < n => <<m, n>> \in R
  BY <1>2
<1> QED
  BY <1>3, <1>4

LEMMA AllNaturals ==
    ASSUME NEW S, 0 \in S, \A n \in S : n + 1 \in S
    PROVE  Nat \subseteq S
<1> SUFFICES ASSUME Nat \ S # {} PROVE FALSE
  OBVIOUS
<1>1. PICK n \in Nat \ S : \A m \in Nat \ S : ~(m < n)
  BY LeastNatural
<1>2. n # 0 /\ n - 1 \in Nat
  BY <1>1
<1>3. n - 1 \in S
  BY <1>1, <1>2
<1>4. n - 1 + 1 \in S
  BY <1>3
<1> QED
  BY <1>1, <1>2, <1>4

-----------------------------------------------------------------------------
(* The stripping of comments, one character after the other.                *)

Unread == [out |-> <<>>, string |-> FALSE, escaped |-> FALSE, comment |-> FALSE, skip |-> FALSE]

Stripped ==
    [out : Seq(Bytes), string : BOOLEAN, escaped : BOOLEAN, comment : BOOLEAN, skip : BOOLEAN]

\* f has the states of the parser over the first n characters of t.
StripRun(f, t, n) ==
    f = [i \in 0..n |-> IF i = 0 THEN Unread ELSE StripStep(t, f[i - 1], i)]

LEMMA StripRunSteps ==
    ASSUME NEW f, NEW t, NEW n \in Nat, StripRun(f, t, n)
    PROVE  /\ f[0] = Unread
           /\ \A i \in 1..n : f[i] = StripStep(t, f[i - 1], i)
<1>1. 0 \in 0..n /\ \A i \in 1..n : i \in 0..n /\ i # 0
  OBVIOUS
<1>2. \A i \in 0..n : f[i] = IF i = 0 THEN Unread ELSE StripStep(t, f[i - 1], i)
  BY Zenon DEF StripRun
<1> QED
  BY <1>1, <1>2, Zenon

LEMMA StripRunExists ==
    ASSUME NEW t, NEW n \in Nat
    PROVE  \E f : StripRun(f, t, n)
<1> DEFINE S == {k \in Nat : \E f : StripRun(f, t, k)}
<1>1. 0 \in S
  <2> DEFINE g == [i \in 0..0 |-> Unread]
  <2>1. g = [i \in 0..0 |-> IF i = 0 THEN Unread ELSE StripStep(t, g[i - 1], i)]
    OBVIOUS
  <2> QED
    BY <2>1 DEF StripRun
<1>2. ASSUME NEW k \in S PROVE k + 1 \in S
  <2>1. PICK f : StripRun(f, t, k)
    BY <1>2
  <2> DEFINE next == StripStep(t, f[k], k + 1)
             g == [i \in 0 .. k + 1 |-> IF i = k + 1 THEN next ELSE f[i]]
             h == [i \in 0 .. k + 1 |-> IF i = 0 THEN Unread ELSE StripStep(t, g[i - 1], i)]
  <2>2. ASSUME NEW i \in 0 .. k + 1 PROVE g[i] = h[i]
    <3>1. CASE i = k + 1
      <4>1. g[i] = next /\ g[k] = f[k] /\ i - 1 = k /\ i # 0
        BY <3>1
      <4>2. h[i] = StripStep(t, g[i - 1], i)
        BY <4>1
      <4> QED
        BY <3>1, <4>1, <4>2
    <3>2. CASE i = 0
      <4>1. g[i] = f[0] /\ h[i] = Unread
        BY <3>2
      <4> QED
        BY <2>1, <4>1, StripRunSteps
    <3>3. CASE i \in 1..k
      <4>1. g[i] = f[i] /\ g[i - 1] = f[i - 1] /\ h[i] = StripStep(t, g[i - 1], i)
        BY <3>3
      <4>2. f[i] = StripStep(t, f[i - 1], i)
        BY <2>1, <3>3, StripRunSteps
      <4> QED
        BY <4>1, <4>2
    <3> QED
      BY <3>1, <3>2, <3>3
  <2>3. g = h
    <3> HIDE DEF next
    <3> QED
      BY <2>2
  <2>4. StripRun(g, t, k + 1)
    BY <2>3, Zenon DEF StripRun
  <2> QED
    BY <2>4
<1>3. Nat \subseteq S
  <2> HIDE DEF S
  <2> QED
    BY <1>1, <1>2, AllNaturals
<1> QED
  BY <1>3

\* Strip is the last state of its run.
LEMMA StripIsRun ==
    ASSUME NEW t, Len(t) \in Nat
    PROVE  \E f : StripRun(f, t, Len(t)) /\ Strip(t) = f[Len(t)]
<1> DEFINE Upto(f) == f = [i \in 0..Len(t) |->
                              IF i = 0 THEN Unread
                              ELSE CHOOSE s \in {StripStep(t, before, i) : before \in {f[i - 1]}} : TRUE]
<1>1. Strip(t) = (CHOOSE f : Upto(f))[Len(t)]
  BY Zenon DEF Strip, Unread
<1>2. \A f : StripRun(f, t, Len(t)) <=> Upto(f)
  <2>1. \A f, i : (CHOOSE s \in {StripStep(t, before, i) : before \in {f[i - 1]}} : TRUE)
                      = StripStep(t, f[i - 1], i)
    BY Zenon
  <2> QED
    BY <2>1, Zenon DEF StripRun
<1>3. \E f : Upto(f)
  BY <1>2, StripRunExists, Zenon
<1> HIDE DEF Upto
<1>4. Upto(CHOOSE f : Upto(f))
  BY <1>3, Zenon
<1> QED
  BY <1>1, <1>2, <1>4, Zenon

\* Two runs that take the same steps are the same.
LEMMA StripRunsAgree ==
    ASSUME NEW f, NEW t, NEW m \in Nat, StripRun(f, t, m),
           NEW g, NEW u, NEW n \in Nat, StripRun(g, u, n),
           NEW k \in Nat, k <= m, k <= n,
           \A i \in 1..k : \A s : StripStep(t, s, i) = StripStep(u, s, i)
    PROVE  \A i \in 0..k : f[i] = g[i]
<1> DEFINE S == {i \in Nat : i <= k => f[i] = g[i]}
<1>1. 0 \in S
  BY StripRunSteps
<1>2. ASSUME NEW i \in S PROVE i + 1 \in S
  <2> SUFFICES ASSUME i + 1 <= k PROVE f[i + 1] = g[i + 1]
    OBVIOUS
  <2>1. f[i] = g[i] /\ i + 1 \in 1..m /\ i + 1 \in 1..n /\ i + 1 \in 1..k /\ (i + 1) - 1 = i
    BY <1>2
  <2>2. f[i + 1] = StripStep(t, f[i], i + 1)
    BY <2>1, StripRunSteps
  <2>3. g[i + 1] = StripStep(u, g[i], i + 1)
    BY <2>1, StripRunSteps
  <2> QED
    BY <2>1, <2>2, <2>3, Zenon
<1>3. Nat \subseteq S
  <2> HIDE DEF S
  <2> QED
    BY <1>1, <1>2, AllNaturals
<1> QED
  BY <1>3

\* A text is not a comment and a string at once.
Apart(s) == ~(s.comment /\ s.string)

LEMMA StripStepTyped ==
    ASSUME NEW t \in Seq(Bytes), NEW i \in 1 .. Len(t), NEW s \in Stripped, Apart(s)
    PROVE  StripStep(t, s, i) \in Stripped /\ Apart(StripStep(t, s, i))
<1>1. t[i] \in Bytes
  OBVIOUS
<1>2. Append(s.out, t[i]) \in Seq(Bytes)
  BY <1>1 DEF Stripped
<1> DEFINE grown == Append(s.out, t[i])
<1>3. grown \in Seq(Bytes)
  BY <1>2
<1> HIDE DEF grown
<1>4. CASE s.skip
  <2>1. StripStep(t, s, i) = [s EXCEPT !.skip = FALSE]
    BY <1>4, Zenon DEF StripStep
  <2> QED
    BY <2>1 DEF Stripped, Apart
<1>5. CASE ~s.skip /\ s.comment /\ t[i] = "newline"
  <2>1. StripStep(t, s, i) = [s EXCEPT !.comment = FALSE, !.out = grown]
    BY <1>5, Zenon DEF StripStep, grown
  <2> QED
    BY <1>3, <2>1 DEF Stripped, Apart
<1>6. CASE ~s.skip /\ s.comment /\ t[i] # "newline"
  <2>1. StripStep(t, s, i) = s
    BY <1>6, Zenon DEF StripStep
  <2> QED
    BY <2>1
<1>7. CASE ~s.skip /\ ~s.comment /\ s.string
  <2>1. StripStep(t, s, i) = [s EXCEPT !.out = grown,
                                       !.escaped = ~s.escaped /\ t[i] = "escape",
                                       !.string = s.escaped \/ t[i] # "quote"]
    BY <1>7, Zenon DEF StripStep, grown
  <2> QED
    BY <1>3, <1>7, <2>1 DEF Stripped, Apart
<1>8. CASE /\ ~s.skip /\ ~s.comment /\ ~s.string
           /\ t[i] = "slash" /\ i < Len(t) /\ t[i + 1] = "slash"
  <2>1. StripStep(t, s, i) = [s EXCEPT !.skip = TRUE, !.comment = TRUE]
    BY <1>8, Zenon DEF StripStep
  <2> QED
    BY <1>8, <2>1 DEF Stripped, Apart
<1>9. CASE /\ ~s.skip /\ ~s.comment /\ ~s.string
           /\ ~(t[i] = "slash" /\ i < Len(t) /\ t[i + 1] = "slash")
  <2>1. StripStep(t, s, i) = [s EXCEPT !.out = grown, !.string = t[i] = "quote"]
    BY <1>9, Zenon DEF StripStep, grown
  <2> QED
    BY <1>3, <1>9, <2>1 DEF Stripped, Apart
<1> QED
  BY <1>4, <1>5, <1>6, <1>7, <1>8, <1>9, Zenon

LEMMA StripRunTyped ==
    ASSUME NEW t \in Seq(Bytes), NEW n \in 0 .. Len(t), NEW f, StripRun(f, t, n)
    PROVE  \A i \in 0..n : f[i] \in Stripped /\ Apart(f[i])
<1> DEFINE S == {i \in Nat : i <= n => f[i] \in Stripped /\ Apart(f[i])}
<1>1. 0 \in S
  <2>1. Unread \in Stripped /\ Apart(Unread)
    <3>1. <<>> \in Seq(Bytes)
      OBVIOUS
    <3> QED
      BY <3>1 DEF Unread, Stripped, Apart
  <2> QED
    BY <2>1, StripRunSteps
<1>2. ASSUME NEW i \in S PROVE i + 1 \in S
  <2> SUFFICES ASSUME i + 1 <= n PROVE f[i + 1] \in Stripped /\ Apart(f[i + 1])
    OBVIOUS
  <2>1. /\ f[i] \in Stripped /\ Apart(f[i])
        /\ i + 1 \in 1..n /\ i + 1 \in 1 .. Len(t) /\ (i + 1) - 1 = i
    BY <1>2
  <2>2. f[i + 1] = StripStep(t, f[i], i + 1)
    BY <2>1, StripRunSteps
  <2> QED
    BY <2>1, <2>2, StripStepTyped, Zenon
<1>3. Nat \subseteq S
  <2> HIDE DEF S
  <2> QED
    BY <1>1, <1>2, AllNaturals
<1> QED
  BY <1>3

\* The state before the last character of a text.
BeforeLast(t, s) == \E f : StripRun(f, t, Len(t)) /\ s = f[Len(t) - 1]

\* The last character is a slash that begins a comment if another one follows.
Pending(t, s) == t[Len(t)] = "slash" /\ ~s.skip /\ ~s.comment /\ ~s.string

\* One character more: the state before it is that of the shorter text, or differs from
\* it in the look-ahead of the last character.
LEMMA StripAppend ==
    ASSUME NEW t \in Seq(Bytes), NEW b \in Bytes
    PROVE  LET u == Append(t, b)
               n == Len(t)
           IN  \E s \in Stripped :
                   /\ Apart(s)
                   /\ \A r : BeforeLast(u, r) <=> r = s
                   /\ Strip(u) = StripStep(u, s, n + 1)
                   /\ n = 0 => s = Unread /\ Strip(t) = Unread
                   /\ n > 0 => \E r \in Stripped :
                                   /\ Apart(r)
                                   /\ BeforeLast(t, r)
                                   /\ Strip(t) = StripStep(t, r, n)
                                   /\ s = StripStep(u, r, n)
<1> DEFINE u == Append(t, b)
           n == Len(t)
<1>1. /\ n \in Nat /\ u \in Seq(Bytes) /\ Len(u) = n + 1
      /\ \A i \in 1..n : u[i] = t[i]
      /\ u[n + 1] = b
  OBVIOUS
<1> HIDE DEF u, n
<1>2. PICK g : StripRun(g, u, n + 1) /\ Strip(u) = g[n + 1]
  BY <1>1, StripIsRun
<1>3. PICK f : StripRun(f, t, n) /\ Strip(t) = f[n]
  BY <1>1, StripIsRun DEF n
<1>4. /\ g[0] = Unread /\ f[0] = Unread
      /\ \A i \in 1 .. n + 1 : g[i] = StripStep(u, g[i - 1], i)
      /\ \A i \in 1..n : f[i] = StripStep(t, f[i - 1], i)
  BY <1>1, <1>2, <1>3, StripRunSteps
<1>5. ASSUME NEW i \in 1 .. n - 1, NEW s
      PROVE  StripStep(t, s, i) = StripStep(u, s, i)
  <2>1. i \in 1..n /\ i + 1 \in 1..n
    BY <1>1
  <2>2. u[i] = t[i] /\ u[i + 1] = t[i + 1]
    BY <1>1, <2>1, Zenon
  <2>3. i < Len(t) /\ i < Len(u)
    BY <1>1, <2>1 DEF n
  <2> QED
    BY <2>2, <2>3, Zenon DEF StripStep
<1>6. n > 0 => f[n - 1] = g[n - 1]
  <2> SUFFICES ASSUME n > 0 PROVE f[n - 1] = g[n - 1]
    OBVIOUS
  <2> DEFINE k == n - 1
             m == n + 1
  <2>1. k \in Nat /\ k <= n /\ k <= m /\ m \in Nat /\ k \in 0..k
    BY <1>1
  <2>2. \A i \in 1..k : \A s : StripStep(t, s, i) = StripStep(u, s, i)
    BY <1>5
  <2>3. StripRun(g, u, m)
    BY <1>2
  <2> HIDE DEF k, m
  <2>4. \A i \in 0..k : f[i] = g[i]
    BY <1>1, <1>3, <2>1, <2>2, <2>3, StripRunsAgree, SMTT(30)
  <2>5. f[k] = g[k]
    BY <2>1, <2>4, Zenon
  <2> QED
    BY <2>5 DEF k
<1>7. g[n] \in Stripped /\ Apart(g[n])
  BY <1>1, <1>2, StripRunTyped
<1>8. \A r : BeforeLast(u, r) <=> r = g[n]
  <2>1. \A h : StripRun(h, u, Len(u)) => h[Len(u) - 1] = g[n]
    <3> SUFFICES ASSUME NEW h, StripRun(h, u, n + 1) PROVE h[n] = g[n]
      BY <1>1
    <3> QED
      BY <1>1, <1>2, StripRunsAgree
  <2>2. StripRun(g, u, Len(u)) /\ g[Len(u) - 1] = g[n]
    BY <1>1, <1>2
  <2> QED
    BY <2>1, <2>2, Zenon DEF BeforeLast
<1>9. Strip(u) = StripStep(u, g[n], n + 1)
  BY <1>1, <1>2, <1>4
<1>10. n = 0 => g[n] = Unread /\ Strip(t) = Unread
  BY <1>3, <1>4
<1>11. n > 0 => /\ f[n - 1] \in Stripped /\ Apart(f[n - 1])
                /\ BeforeLast(t, f[n - 1])
                /\ Strip(t) = StripStep(t, f[n - 1], n)
                /\ g[n] = StripStep(u, f[n - 1], n)
  <2> SUFFICES ASSUME n > 0
               PROVE  /\ f[n - 1] \in Stripped /\ Apart(f[n - 1])
                      /\ BeforeLast(t, f[n - 1])
                      /\ Strip(t) = StripStep(t, f[n - 1], n)
                      /\ g[n] = StripStep(u, f[n - 1], n)
    OBVIOUS
  <2>1. n \in 1..n /\ n \in 1 .. n + 1 /\ n - 1 \in 0..n /\ n \in 0 .. Len(t)
    BY <1>1 DEF n
  <2>2. f[n - 1] \in Stripped /\ Apart(f[n - 1])
    BY <1>3, <2>1, StripRunTyped
  <2>3. BeforeLast(t, f[n - 1])
    BY <1>3, Zenon DEF BeforeLast, n
  <2>4. Strip(t) = StripStep(t, f[n - 1], n)
    BY <1>3, <1>4, <2>1
  <2>5. g[n] = StripStep(u, g[n - 1], n)
    BY <1>4, <2>1
  <2> QED
    BY <1>6, <2>2, <2>3, <2>4, <2>5
<1>12. \E s \in Stripped :
           /\ Apart(s)
           /\ \A r : BeforeLast(u, r) <=> r = s
           /\ Strip(u) = StripStep(u, s, n + 1)
           /\ n = 0 => s = Unread /\ Strip(t) = Unread
           /\ n > 0 => \E r \in Stripped :
                           /\ Apart(r)
                           /\ BeforeLast(t, r)
                           /\ Strip(t) = StripStep(t, r, n)
                           /\ s = StripStep(u, r, n)
  BY <1>7, <1>8, <1>9, <1>10, <1>11, Zenon
<1> QED
  BY <1>12 DEF u, n

-----------------------------------------------------------------------------
(* The nesting of brackets, likewise.                                       *)

Outside == [depth |-> 0, depths |-> <<>>, string |-> FALSE, escaped |-> FALSE, stray |-> FALSE]

NestingRun(f, t, n) ==
    f = [i \in 0..n |-> IF i = 0 THEN Outside ELSE NestingStep(f[i - 1], t[i])]

LEMMA NestingRunSteps ==
    ASSUME NEW f, NEW t, NEW n \in Nat, NestingRun(f, t, n)
    PROVE  /\ f[0] = Outside
           /\ \A i \in 1..n : f[i] = NestingStep(f[i - 1], t[i])
<1>1. 0 \in 0..n /\ \A i \in 1..n : i \in 0..n /\ i # 0
  OBVIOUS
<1>2. \A i \in 0..n : f[i] = IF i = 0 THEN Outside ELSE NestingStep(f[i - 1], t[i])
  BY Zenon DEF NestingRun
<1> QED
  BY <1>1, <1>2, Zenon

LEMMA NestingRunExists ==
    ASSUME NEW t, NEW n \in Nat
    PROVE  \E f : NestingRun(f, t, n)
<1> DEFINE S == {k \in Nat : \E f : NestingRun(f, t, k)}
<1>1. 0 \in S
  <2> DEFINE g == [i \in 0..0 |-> Outside]
  <2>1. g = [i \in 0..0 |-> IF i = 0 THEN Outside ELSE NestingStep(g[i - 1], t[i])]
    OBVIOUS
  <2> QED
    BY <2>1 DEF NestingRun
<1>2. ASSUME NEW k \in S PROVE k + 1 \in S
  <2>1. PICK f : NestingRun(f, t, k)
    BY <1>2
  <2> DEFINE next == NestingStep(f[k], t[k + 1])
             g == [i \in 0 .. k + 1 |-> IF i = k + 1 THEN next ELSE f[i]]
             h == [i \in 0 .. k + 1 |-> IF i = 0 THEN Outside ELSE NestingStep(g[i - 1], t[i])]
  <2>2. ASSUME NEW i \in 0 .. k + 1 PROVE g[i] = h[i]
    <3>1. CASE i = k + 1
      <4>1. g[i] = next /\ g[k] = f[k] /\ i - 1 = k /\ i # 0
        BY <3>1
      <4>2. h[i] = NestingStep(g[i - 1], t[i])
        BY <4>1
      <4> QED
        BY <3>1, <4>1, <4>2
    <3>2. CASE i = 0
      <4>1. g[i] = f[0] /\ h[i] = Outside
        BY <3>2
      <4> QED
        BY <2>1, <4>1, NestingRunSteps
    <3>3. CASE i \in 1..k
      <4>1. g[i] = f[i] /\ g[i - 1] = f[i - 1] /\ h[i] = NestingStep(g[i - 1], t[i])
        BY <3>3
      <4>2. f[i] = NestingStep(f[i - 1], t[i])
        BY <2>1, <3>3, NestingRunSteps
      <4> QED
        BY <4>1, <4>2
    <3> QED
      BY <3>1, <3>2, <3>3
  <2>3. g = h
    <3> HIDE DEF next
    <3> QED
      BY <2>2
  <2>4. NestingRun(g, t, k + 1)
    BY <2>3, Zenon DEF NestingRun
  <2> QED
    BY <2>4
<1>3. Nat \subseteq S
  <2> HIDE DEF S
  <2> QED
    BY <1>1, <1>2, AllNaturals
<1> QED
  BY <1>3

LEMMA NestingIsRun ==
    ASSUME NEW t, Len(t) \in Nat
    PROVE  \E f : NestingRun(f, t, Len(t)) /\ Nesting(t) = f[Len(t)]
<1> DEFINE Upto(f) == f = [i \in 0..Len(t) |->
                              IF i = 0 THEN Outside
                              ELSE CHOOSE s \in {NestingStep(before, t[i]) : before \in {f[i - 1]}} : TRUE]
<1>1. Nesting(t) = (CHOOSE f : Upto(f))[Len(t)]
  BY Zenon DEF Nesting, Outside
<1>2. \A f : NestingRun(f, t, Len(t)) <=> Upto(f)
  <2>1. \A f, i : (CHOOSE s \in {NestingStep(before, t[i]) : before \in {f[i - 1]}} : TRUE)
                      = NestingStep(f[i - 1], t[i])
    BY Zenon
  <2> QED
    BY <2>1, Zenon DEF NestingRun
<1>3. \E f : Upto(f)
  BY <1>2, NestingRunExists, Zenon
<1> HIDE DEF Upto
<1>4. Upto(CHOOSE f : Upto(f))
  BY <1>3, Zenon
<1> QED
  BY <1>1, <1>2, <1>4, Zenon

\* One character more is one step more.
LEMMA NestingAppend ==
    ASSUME NEW t \in Seq(Bytes), NEW b \in Bytes
    PROVE  Nesting(Append(t, b)) = NestingStep(Nesting(t), b)
<1> DEFINE u == Append(t, b)
           n == Len(t)
           m == n + 1
<1>1. /\ n \in Nat /\ m \in Nat /\ m \in 1..m /\ m - 1 = n /\ Len(u) = m
      /\ \A i \in 1..n : u[i] = t[i] /\ i \in 1..m
      /\ u[m] = b
  OBVIOUS
<1> HIDE DEF u, n, m
<1>2. PICK g : NestingRun(g, u, m) /\ Nesting(u) = g[m]
  BY <1>1, NestingIsRun
<1>3. PICK f : NestingRun(f, t, n) /\ Nesting(t) = f[n]
  BY <1>1, NestingIsRun DEF n
<1>4. /\ g[0] = Outside /\ f[0] = Outside
      /\ \A i \in 1..m : g[i] = NestingStep(g[i - 1], u[i])
      /\ \A i \in 1..n : f[i] = NestingStep(f[i - 1], t[i])
  BY <1>1, <1>2, <1>3, NestingRunSteps
<1> DEFINE S == {i \in Nat : i <= n => f[i] = g[i]}
<1>5. 0 \in S
  BY <1>4
<1>6. ASSUME NEW i \in S PROVE i + 1 \in S
  <2> SUFFICES ASSUME i + 1 <= n PROVE f[i + 1] = g[i + 1]
    OBVIOUS
  <2>1. f[i] = g[i] /\ i + 1 \in 1..n /\ (i + 1) - 1 = i
    BY <1>1, <1>6
  <2>2. f[i + 1] = NestingStep(f[i], t[i + 1])
    BY <1>4, <2>1
  <2>3. g[i + 1] = NestingStep(g[i], u[i + 1])
    BY <1>1, <1>4, <2>1
  <2>4. u[i + 1] = t[i + 1]
    BY <1>1, <2>1
  <2> QED
    BY <2>1, <2>2, <2>3, <2>4, Zenon
<1>7. Nat \subseteq S
  <2> HIDE DEF S
  <2> QED
    BY <1>5, <1>6, AllNaturals
<1>8. f[n] = g[n]
  BY <1>1, <1>7
<1>9. g[m] = NestingStep(g[n], b)
  BY <1>1, <1>4
<1>10. Nesting(u) = NestingStep(Nesting(t), b)
  BY <1>2, <1>3, <1>8, <1>9, Zenon
<1> QED
  BY <1>10 DEF u

LEMMA NestingEmpty == Nesting(<<>>) = Outside
<1>1. Len(<<>>) = 0 /\ Len(<<>>) \in Nat
  OBVIOUS
<1>2. PICK f : NestingRun(f, <<>>, Len(<<>>)) /\ Nesting(<<>>) = f[Len(<<>>)]
  BY <1>1, NestingIsRun
<1>3. f[0] = Outside
  BY <1>1, <1>2, NestingRunSteps
<1> QED
  BY <1>1, <1>2, <1>3

-----------------------------------------------------------------------------
(* The receiver follows the parser.                                         *)

Nested ==
    [depth : Int, depths : Seq(Int), string : BOOLEAN, escaped : BOOLEAN, stray : BOOLEAN]

Deeper(depth, b) == IF Opens(b) THEN depth + 1 ELSE IF b = "close" THEN depth - 1 ELSE depth

LEMMA NestingStepFields ==
    ASSUME NEW s \in Nested, NEW b
    PROVE  LET n == NestingStep(s, b) IN
           /\ n \in Nested
           /\ s.string => /\ n.depth = s.depth
                          /\ n.string <=> (s.escaped \/ b # "quote")
                          /\ n.escaped <=> (~s.escaped /\ b = "escape")
           /\ ~s.string => /\ n.depth = Deeper(s.depth, b)
                           /\ n.string <=> b = "quote"
                           /\ n.escaped <=> s.escaped
<1>1. CASE s.string
  <2> DEFINE depths == Append(s.depths, s.depth)
  <2>1. NestingStep(s, b) = [s EXCEPT !.escaped = ~s.escaped /\ b = "escape",
                                      !.string = s.escaped \/ b # "quote",
                                      !.depths = depths]
    BY <1>1, Zenon DEF NestingStep
  <2>2. depths \in Seq(Int)
    BY DEF Nested
  <2> HIDE DEF depths
  <2> QED
    BY <1>1, <2>1, <2>2 DEF Nested
<1>2. CASE ~s.string
  <2> DEFINE d == Deeper(s.depth, b)
             depths == Append(s.depths, d)
  <2>1. NestingStep(s, b) = [s EXCEPT !.string = b = "quote", !.depth = d, !.depths = depths,
                                      !.stray = s.stray \/ b = "slash"]
    BY <1>2, Zenon DEF NestingStep, Deeper
  <2>2. d \in Int
    BY DEF Nested, Deeper
  <2> HIDE DEF d
  <2>3. depths \in Seq(Int)
    BY <2>2 DEF Nested
  <2> HIDE DEF depths
  <2>4. /\ NestingStep(s, b) \in Nested /\ NestingStep(s, b).depth = d
        /\ NestingStep(s, b).string <=> b = "quote"
        /\ NestingStep(s, b).escaped <=> s.escaped
    BY <2>1, <2>2, <2>3 DEF Nested
  <2> QED
    BY <1>2, <2>4 DEF d
<1> QED
  BY <1>1, <1>2

\* What accept_byte does to the depth and the flags, by the kind of text it is in.
LEMMA AcceptFields ==
    ASSUME NEW k, NEW s \in ScanOf(k), NEW b
    PROVE  LET a == Accept(s, b) IN
           /\ s.comment => /\ a.comment <=> b # "newline"
                           /\ (a.string <=> s.string) /\ (a.escaped <=> s.escaped)
                           /\ (a.slash <=> s.slash) /\ a.depth = s.depth
           /\ ~s.comment /\ s.string => /\ a.string <=> (s.escaped \/ b # "quote")
                                        /\ a.escaped <=> (~s.escaped /\ b = "escape")
                                        /\ ~a.comment
                                        /\ (a.slash <=> s.slash) /\ a.depth = s.depth
           /\ ~s.comment /\ ~s.string /\ s.slash /\ b = "slash" =>
                  /\ a.comment /\ ~a.slash
                  /\ (a.string <=> s.string) /\ (a.escaped <=> s.escaped)
                  /\ a.depth = s.depth
           /\ ~s.comment /\ ~s.string /\ ~(s.slash /\ b = "slash") =>
                  /\ a.slash <=> b = "slash"
                  /\ a.string <=> b = "quote"
                  /\ (a.escaped <=> s.escaped) /\ ~a.comment
                  /\ a.depth = Deeper(s.depth, b)
<1>1. CASE s.comment
  <2>1. Accept(s, b) = [s EXCEPT !.comment = b # "newline"]
    BY <1>1, Zenon DEF Accept
  <2> QED
    BY <1>1, <2>1 DEF ScanOf
<1>2. CASE ~s.comment /\ s.string
  <2>1. Accept(s, b) = [s EXCEPT !.escaped = ~s.escaped /\ b = "escape",
                                 !.string = s.escaped \/ b # "quote"]
    BY <1>2, Zenon DEF Accept
  <2> QED
    BY <1>2, <2>1 DEF ScanOf
<1>3. CASE ~s.comment /\ ~s.string /\ s.slash /\ b = "slash"
  <2>1. Accept(s, b) = [s EXCEPT !.slash = FALSE, !.comment = TRUE]
    BY <1>3, Zenon DEF Accept
  <2> QED
    BY <1>3, <2>1 DEF ScanOf
<1>4. CASE ~s.comment /\ ~s.string /\ ~(s.slash /\ b = "slash")
  <2> DEFINE d == Deeper(s.depth, b)
  <2>1. Accept(s, b) = [s EXCEPT !.slash = b = "slash", !.string = b = "quote", !.depth = d]
    BY <1>4, Zenon DEF Accept, Deeper
  <2> HIDE DEF d
  <2>2. /\ Accept(s, b).slash <=> b = "slash"
        /\ Accept(s, b).string <=> b = "quote"
        /\ (Accept(s, b).escaped <=> s.escaped) /\ ~Accept(s, b).comment
        /\ Accept(s, b).depth = d
    BY <1>4, <2>1 DEF ScanOf
  <2> QED
    BY <1>4, <2>2 DEF d
<1> QED
  BY <1>1, <1>2, <1>3, <1>4

\* What the parser has kept is nested as deeply, and is in a string, as it is for
\* the receiver.
Reads(text, s) ==
    LET n == Nesting(text.out) IN
    /\ n \in Nested
    /\ (n.string <=> text.string) /\ (n.escaped <=> text.escaped)
    /\ n.depth = s.depth

\* The receiver and the parser agree on the text t; the flag of a slash is set when
\* the parser's look-ahead would see one, and then they agreed before it as well.
Framed(t, s) ==
    LET text == Strip(t) IN
    /\ text \in Stripped /\ Apart(text) /\ ~text.skip
    /\ (s.string <=> text.string) /\ (s.escaped <=> text.escaped)
    /\ s.comment <=> text.comment
    /\ Reads(text, s)
    /\ s.slash => ~text.comment /\ ~text.string
    /\ t = <<>> => ~s.slash
    /\ t # <<>> => \A before : BeforeLast(t, before) =>
                       /\ s.slash <=> Pending(t, before)
                       /\ s.slash => Reads(before, s)

LEMMA StripEmpty == Strip(<<>>) = Unread
<1>1. Len(<<>>) = 0 /\ Len(<<>>) \in Nat
  OBVIOUS
<1>2. PICK f : StripRun(f, <<>>, Len(<<>>)) /\ Strip(<<>>) = f[Len(<<>>)]
  BY <1>1, StripIsRun
<1>3. f[0] = Unread
  BY <1>1, <1>2, StripRunSteps
<1> QED
  BY <1>1, <1>2, <1>3

LEMMA FramedIdle == Framed(<<>>, Idle)
<1>1. Outside \in Nested
  <2>1. <<>> \in Seq(Int)
    OBVIOUS
  <2> QED
    BY <2>1 DEF Outside, Nested
<1>2. Nesting(Unread.out) = Outside
  BY NestingEmpty DEF Unread
<1>3. Reads(Unread, Idle)
  <2>1. /\ (Outside.string <=> Unread.string) /\ (Outside.escaped <=> Unread.escaped)
        /\ Outside.depth = Idle.depth
    BY DEF Unread, Outside, Idle
  <2> QED
    BY <1>1, <1>2, <2>1, Zenon DEF Reads
<1>4. Unread \in Stripped
  <2>1. <<>> \in Seq(Bytes)
    OBVIOUS
  <2> QED
    BY <2>1 DEF Unread, Stripped
<1>5. /\ Apart(Unread) /\ ~Unread.skip
      /\ (Idle.string <=> Unread.string) /\ (Idle.escaped <=> Unread.escaped)
      /\ (Idle.comment <=> Unread.comment) /\ ~Idle.slash
  BY DEF Unread, Idle, Apart
<1> QED
  BY <1>3, <1>4, <1>5, StripEmpty, Zenon DEF Framed

\* Two slashes: the first is dropped after all, and what was read before it stands.
LEMMA FramedComment ==
    ASSUME NEW t \in Seq(Bytes), NEW b \in Bytes, NEW k, NEW s \in ScanOf(k), Framed(t, s),
           ~s.comment, ~s.string, s.slash, b = "slash"
    PROVE  Framed(Append(t, b), Accept(s, b))
<1> DEFINE u == Append(t, b)
           n == Len(t)
           a == Accept(s, b)
<1>1. /\ n \in Nat /\ Len(u) = n + 1 /\ u # <<>> /\ t # <<>> /\ n > 0
      /\ u[n] = t[n] /\ u[n + 1] = b /\ n < Len(u) /\ ~(n + 1 < Len(u)) /\ ~(n < Len(t))
  <2>1. t # <<>>
    BY DEF Framed
  <2> QED
    BY <2>1
<1>2. PICK p \in Stripped :
          /\ \A r : BeforeLast(u, r) <=> r = p
          /\ Strip(u) = StripStep(u, p, n + 1)
          /\ \E r \in Stripped : /\ Apart(r)
                                 /\ BeforeLast(t, r)
                                 /\ Strip(t) = StripStep(t, r, n)
                                 /\ p = StripStep(u, r, n)
  BY <1>1, StripAppend
<1>3. PICK r \in Stripped : /\ Apart(r)
                            /\ BeforeLast(t, r)
                            /\ Strip(t) = StripStep(t, r, n)
                            /\ p = StripStep(u, r, n)
  BY <1>2
<1>4. Pending(t, r) /\ Reads(r, s)
  BY <1>1, <1>3, Zenon DEF Framed
<1>5. ~r.skip /\ ~r.comment /\ ~r.string /\ u[n] = "slash" /\ u[n + 1] = "slash"
  BY <1>1, <1>4 DEF Pending
<1>6. /\ a.comment /\ ~a.slash
      /\ (a.string <=> s.string) /\ (a.escaped <=> s.escaped) /\ a.depth = s.depth
  BY AcceptFields
<1> HIDE DEF a, u, n
<1>7. s.escaped <=> r.escaped
  <2>1. Strip(t) = [r EXCEPT !.out = Append(@, t[n]), !.string = t[n] = "quote"]
    BY <1>1, <1>3, <1>5, Zenon DEF StripStep
  <2>2. Strip(t).escaped <=> r.escaped
    BY <2>1 DEF Stripped
  <2> QED
    BY <2>2, Zenon DEF Framed
<1>8. p = [r EXCEPT !.skip = TRUE, !.comment = TRUE]
  BY <1>1, <1>3, <1>5, Zenon DEF StripStep
<1>9. p.skip
  BY <1>8 DEF Stripped
<1>10. Strip(u) = [p EXCEPT !.skip = FALSE]
  BY <1>2, <1>9, Zenon DEF StripStep
<1>11. /\ Strip(u) \in Stripped /\ ~Strip(u).skip /\ Strip(u).comment
       /\ (Strip(u).string <=> r.string) /\ (Strip(u).escaped <=> r.escaped)
       /\ Strip(u).out = r.out
  BY <1>8, <1>10 DEF Stripped
<1>12. Reads(Strip(u), a)
  BY <1>4, <1>6, <1>11, Zenon DEF Reads
<1>13. ~Pending(u, p)
  BY <1>9, Zenon DEF Pending
<1>14. Apart(Strip(u))
  BY <1>5, <1>11, Zenon DEF Apart
<1>15. Framed(u, a)
  BY <1>1, <1>2, <1>5, <1>6, <1>7, <1>11, <1>12, <1>13, <1>14, Zenon DEF Framed
<1> QED
  BY <1>15 DEF u, a

\* Without two slashes, the parser takes the step that the receiver takes.
LEMMA FramedStep ==
    ASSUME NEW t \in Seq(Bytes), NEW b \in Bytes, NEW k, NEW s \in ScanOf(k), Framed(t, s),
           ~(~s.comment /\ ~s.string /\ s.slash /\ b = "slash")
    PROVE  LET u == Append(t, b)
               text == Strip(t)
               next == Strip(u)
           IN  /\ \A r : BeforeLast(u, r) => r = text
               /\ text.comment =>
                      \/ b = "newline" /\ next = [text EXCEPT !.comment = FALSE, !.out = Append(@, b)]
                      \/ b # "newline" /\ next = text
               /\ ~text.comment /\ text.string =>
                      next = [text EXCEPT !.out = Append(@, b),
                                          !.escaped = ~text.escaped /\ b = "escape",
                                          !.string = text.escaped \/ b # "quote"]
               /\ ~text.comment /\ ~text.string =>
                      next = [text EXCEPT !.out = Append(@, b), !.string = b = "quote"]
<1> DEFINE u == Append(t, b)
           n == Len(t)
           text == Strip(t)
<1>1. /\ n \in Nat /\ Len(u) = n + 1
      /\ u[n + 1] = b /\ ~(n < Len(t)) /\ ~(n + 1 < Len(u)) /\ (n > 0 => u[n] = t[n])
      /\ (n > 0 => t # <<>>)
  OBVIOUS
<1>2. PICK p \in Stripped :
          /\ \A r : BeforeLast(u, r) <=> r = p
          /\ Strip(u) = StripStep(u, p, n + 1)
          /\ n = 0 => p = Unread /\ Strip(t) = Unread
          /\ n > 0 => \E r \in Stripped : /\ Apart(r)
                                          /\ BeforeLast(t, r)
                                          /\ Strip(t) = StripStep(t, r, n)
                                          /\ p = StripStep(u, r, n)
  BY StripAppend
<1>3. text \in Stripped /\ ~text.skip
  BY Zenon DEF Framed
<1> HIDE DEF u, n, text
<1>4. p = text
  <2>1. CASE n = 0
    BY <1>2, <2>1 DEF text
  <2>2. CASE n > 0
    <3>1. PICK r \in Stripped : /\ Apart(r)
                                /\ BeforeLast(t, r)
                                /\ Strip(t) = StripStep(t, r, n)
                                /\ p = StripStep(u, r, n)
      BY <1>2, <2>2
    <3>2. s.slash <=> Pending(t, r)
      BY <1>1, <2>2, <3>1, Zenon DEF Framed
    <3>3. s.slash => ~s.comment /\ ~s.string
      BY Zenon DEF Framed
    <3>4. ~(Pending(t, r) /\ b = "slash")
      BY <3>2, <3>3, Zenon
    <3>5. ~(~r.skip /\ ~r.comment /\ ~r.string /\ u[n] = "slash" /\ u[n + 1] = "slash")
      BY <1>1, <2>2, <3>4, Zenon DEF Pending, n
    <3>6. StripStep(u, r, n) = StripStep(t, r, n)
      BY <1>1, <2>2, <3>5, Zenon DEF StripStep
    <3> QED
      BY <3>1, <3>6, Zenon DEF text
  <2> QED
    BY <1>1, <2>1, <2>2
<1>5. Strip(u) = StripStep(u, text, n + 1)
  BY <1>2, <1>4, Zenon
<1>6. text.comment =>
          \/ b = "newline" /\ Strip(u) = [text EXCEPT !.comment = FALSE, !.out = Append(@, b)]
          \/ b # "newline" /\ Strip(u) = text
  BY <1>1, <1>3, <1>5, Zenon DEF StripStep
<1>7. ~text.comment /\ text.string =>
          Strip(u) = [text EXCEPT !.out = Append(@, b),
                                  !.escaped = ~text.escaped /\ b = "escape",
                                  !.string = text.escaped \/ b # "quote"]
  BY <1>1, <1>3, <1>5, Zenon DEF StripStep
<1>8. ~text.comment /\ ~text.string =>
          Strip(u) = [text EXCEPT !.out = Append(@, b), !.string = b = "quote"]
  BY <1>1, <1>3, <1>5, Zenon DEF StripStep
<1>9. \A r : BeforeLast(u, r) => r = text
  BY <1>2, <1>4, Zenon
<1> QED
  BY <1>6, <1>7, <1>8, <1>9 DEF u, text

\* What the classes of bytes are not.
LEMMA ClassesDiffer ==
    /\ \A b \in {"newline", "slash"} : b \in Bytes /\ \A depth : Deeper(depth, b) = depth
BY TextAssumption DEF Bytes, Classes, Deeper, Opens

\* One byte more: the receiver and the parser agree on the longer text.
LEMMA FramedAppend ==
    ASSUME NEW t \in Seq(Bytes), NEW b \in Bytes, NEW k, NEW s \in ScanOf(k), Framed(t, s)
    PROVE  Framed(Append(t, b), Accept(s, b))
<1> SUFFICES ASSUME ~(~s.comment /\ ~s.string /\ s.slash /\ b = "slash")
             PROVE  Framed(Append(t, b), Accept(s, b))
  BY FramedComment
<1> DEFINE u == Append(t, b)
           text == Strip(t)
           next == Strip(u)
           a == Accept(s, b)
           kept == Append(text.out, b)
<1>1. /\ text \in Stripped /\ Apart(text) /\ ~text.skip
      /\ (s.string <=> text.string) /\ (s.escaped <=> text.escaped)
      /\ (s.comment <=> text.comment)
      /\ Reads(text, s)
      /\ s.slash => ~text.comment /\ ~text.string
  BY Zenon DEF Framed
<1>2. u # <<>>
  <2>1. Len(u) = Len(t) + 1 /\ Len(t) \in Nat
    OBVIOUS
  <2> QED
    BY <2>1
<1>3. \A r : BeforeLast(u, r) => r = text
  BY FramedStep
<1>4. kept \in Seq(Bytes) /\ Nesting(kept) = NestingStep(Nesting(text.out), b)
  BY <1>1, NestingAppend DEF Stripped
<1>5. Pending(u, text) <=> b = "slash" /\ ~text.comment /\ ~text.string
  <2>1. u[Len(u)] = b
    OBVIOUS
  <2> QED
    BY <1>1, <2>1, Zenon DEF Pending
<1> DEFINE m == Nesting(text.out)
           w == NestingStep(m, b)
<1>6. m \in Nested /\ (m.string <=> text.string) /\ (m.escaped <=> text.escaped)
      /\ m.depth = s.depth
  BY <1>1, Zenon DEF Reads
<1>7. /\ w \in Nested
      /\ m.string => /\ w.depth = m.depth
                     /\ w.string <=> (m.escaped \/ b # "quote")
                     /\ w.escaped <=> (~m.escaped /\ b = "escape")
      /\ ~m.string => /\ w.depth = Deeper(m.depth, b)
                      /\ w.string <=> b = "quote"
                      /\ w.escaped <=> m.escaped
  BY <1>6, NestingStepFields
<1> DEFINE Result == /\ next \in Stripped /\ Apart(next) /\ ~next.skip
                     /\ (a.string <=> next.string) /\ (a.escaped <=> next.escaped)
                     /\ (a.comment <=> next.comment)
                     /\ Reads(next, a)
                     /\ a.slash => ~next.comment /\ ~next.string
                     /\ a.slash <=> Pending(u, text)
                     /\ a.slash => Reads(text, a)
<1>8. ASSUME text.comment PROVE Result
  <2>1. /\ a.comment <=> b # "newline"
        /\ (a.string <=> s.string) /\ (a.escaped <=> s.escaped)
        /\ (a.slash <=> s.slash) /\ a.depth = s.depth
    BY <1>1, <1>8, AcceptFields
  <2>2. \/ b = "newline" /\ next = [text EXCEPT !.comment = FALSE, !.out = kept]
        \/ b # "newline" /\ next = text
    BY <1>8, FramedStep
  <2>3. ~text.string /\ ~a.slash
    BY <1>1, <1>8, <2>1, Zenon DEF Apart
  <2> HIDE DEF u, text, next, a, kept, m, w
  <2>4. CASE b = "newline"
    <3>1. /\ next \in Stripped /\ ~next.skip /\ ~next.comment
          /\ (next.string <=> text.string) /\ (next.escaped <=> text.escaped)
          /\ next.out = kept
      BY <1>1, <1>4, <2>2, <2>4 DEF Stripped
    <3>2. w.depth = m.depth /\ ~w.string /\ (w.escaped <=> m.escaped)
      <4>1. Deeper(m.depth, b) = m.depth /\ b # "quote"
        BY <2>4, ClassesDiffer
      <4> QED
        BY <1>6, <1>7, <2>3, <4>1, Zenon
    <3>3. Nesting(next.out) = w
      BY <1>4, <3>1, Zenon DEF w, m
    <3>4. Reads(next, a)
      BY <1>6, <1>7, <2>1, <2>3, <3>1, <3>2, <3>3, Zenon DEF Reads
    <3>5. Apart(next)
      BY <3>1, Zenon DEF Apart
    <3> QED
      BY <1>1, <1>5, <1>8, <2>1, <2>3, <2>4, <3>1, <3>4, <3>5, Zenon
  <2>5. CASE b # "newline"
    <3>1. next = text
      BY <2>2, <2>5, Zenon
    <3>2. Reads(next, a)
      BY <1>1, <2>1, <3>1, Zenon DEF Reads
    <3>3. /\ next \in Stripped /\ Apart(next) /\ ~next.skip
          /\ (a.string <=> next.string) /\ (a.escaped <=> next.escaped)
          /\ (a.comment <=> next.comment)
      BY <1>1, <1>8, <2>1, <2>5, <3>1, Zenon
    <3> QED
      BY <1>5, <1>8, <2>3, <3>2, <3>3, Zenon
  <2> QED
    BY <2>4, <2>5, Zenon
<1>9. ASSUME ~text.comment, text.string PROVE Result
  <2>1. /\ a.string <=> (s.escaped \/ b # "quote")
        /\ a.escaped <=> (~s.escaped /\ b = "escape")
        /\ ~a.comment
        /\ (a.slash <=> s.slash) /\ a.depth = s.depth
    BY <1>1, <1>9, AcceptFields
  <2>2. next = [text EXCEPT !.out = kept,
                            !.escaped = ~text.escaped /\ b = "escape",
                            !.string = text.escaped \/ b # "quote"]
    <3>1. ~text.comment /\ text.string =>
              next = [text EXCEPT !.out = Append(@, b),
                                  !.escaped = ~text.escaped /\ b = "escape",
                                  !.string = text.escaped \/ b # "quote"]
      BY FramedStep, ZenonT(60)
    <3> QED
      BY <1>9, <3>1, Zenon
  <2>3. ~a.slash
    BY <1>1, <1>9, <2>1, Zenon
  <2> HIDE DEF u, text, next, a, kept, m, w
  <2>4. /\ next \in Stripped /\ ~next.skip /\ ~next.comment
        /\ next.string <=> (text.escaped \/ b # "quote")
        /\ next.escaped <=> (~text.escaped /\ b = "escape")
        /\ next.out = kept
    BY <1>1, <1>4, <1>9, <2>2 DEF Stripped
  <2>5. Nesting(next.out) = w
    BY <1>4, <2>4, Zenon DEF w, m
  <2>6. Reads(next, a)
    BY <1>6, <1>7, <1>9, <2>1, <2>4, <2>5, Zenon DEF Reads
  <2>7. Apart(next)
    BY <2>4, Zenon DEF Apart
  <2> QED
    BY <1>1, <1>5, <1>9, <2>1, <2>3, <2>4, <2>6, <2>7, Zenon
<1>10. ASSUME ~text.comment, ~text.string PROVE Result
  <2>1. /\ a.slash <=> b = "slash"
        /\ a.string <=> b = "quote"
        /\ (a.escaped <=> s.escaped) /\ ~a.comment
        /\ a.depth = Deeper(s.depth, b)
    BY <1>1, <1>10, AcceptFields
  <2>2. next = [text EXCEPT !.out = kept, !.string = b = "quote"]
    BY <1>10, FramedStep, ZenonT(60)
  <2> HIDE DEF u, text, next, a, kept, m, w
  <2>3. /\ next \in Stripped /\ ~next.skip /\ ~next.comment
        /\ next.string <=> b = "quote"
        /\ next.escaped <=> text.escaped
        /\ next.out = kept
    BY <1>1, <1>4, <1>10, <2>2 DEF Stripped
  <2>4. Nesting(next.out) = w
    BY <1>4, <2>3, Zenon DEF w, m
  <2>5. Reads(next, a)
    BY <1>6, <1>7, <1>10, <2>1, <2>3, <2>4, Zenon DEF Reads
  <2>6. Apart(next)
    BY <2>3, Zenon DEF Apart
  <2>7. a.slash => ~next.string /\ Reads(text, a)
    <3> SUFFICES ASSUME b = "slash" PROVE ~next.string /\ Reads(text, a)
      BY <2>1, Zenon
    <3>1. Deeper(s.depth, b) = s.depth /\ b # "quote"
      BY ClassesDiffer
    <3>2. Reads(text, a)
      BY <1>1, <2>1, <3>1, Zenon DEF Reads
    <3> QED
      BY <2>3, <3>1, <3>2, Zenon
  <2> QED
    BY <1>1, <1>5, <1>10, <2>1, <2>3, <2>5, <2>6, <2>7, Zenon
<1> HIDE DEF u, text, next, a, kept, m, w
<1>11. Result
  BY <1>8, <1>9, <1>10, Zenon
<1>12. Framed(u, a)
  BY <1>2, <1>3, <1>11, Zenon DEF Framed, next
<1> QED
  BY <1>12 DEF u, a

\* The flag of a receiver that has begun is not one of the parser's.
LEMMA FramedStarted ==
    ASSUME NEW t, NEW k, NEW s \in ScanOf(k), Framed(t, s)
    PROVE  LET begun == [s EXCEPT !.started = TRUE]
           IN  begun \in ScanOf(k) /\ Framed(t, begun)
<1> DEFINE begun == [s EXCEPT !.started = TRUE]
<1>1. /\ begun \in ScanOf(k)
      /\ (begun.string <=> s.string) /\ (begun.escaped <=> s.escaped)
      /\ (begun.comment <=> s.comment) /\ (begun.slash <=> s.slash)
      /\ begun.depth = s.depth
  BY DEF ScanOf
<1> HIDE DEF begun
<1>2. Framed(t, begun)
  BY <1>1, Zenon DEF Framed, Reads
<1> QED
  BY <1>1, <1>2 DEF begun

\* A byte the receiver keeps is a byte the parser would read next; otherwise it begins
\* anew, or has nothing to read.
LEMMA FramingStep ==
    ASSUME UploadInv, Framed(buffer, scan), [UsbNext]_usbVars
    PROVE  Framed(buffer, scan)'
<1>1. CASE ResetReceiver
  <2>1. Framed(buffer', scan')
    BY <1>1, FramedIdle, Zenon DEF ResetReceiver
  <2> QED
    BY <2>1, Zenon DEF Framed, Reads, BeforeLast
<1>2. CASE buffer' = buffer /\ scan' = scan
  <2>1. Framed(buffer', scan')
    BY <1>2, Zenon
  <2> QED
    BY <2>1, Zenon DEF Framed, Reads, BeforeLast
<1>3. CASE \E b \in Bytes : /\ buffer' = Append(buffer, b)
                            /\ scan' = Accept([scan EXCEPT !.started = TRUE], b)
  <2>1. PICK b \in Bytes : /\ buffer' = Append(buffer, b)
                           /\ scan' = Accept([scan EXCEPT !.started = TRUE], b)
    BY <1>3
  <2>2. buffer \in Seq(Bytes) /\ scan \in ScanOf(Len(buffer))
    BY DEF UploadInv, UsbTypeOK
  <2>3. Framed(buffer', scan')
    <3> DEFINE begun == [scan EXCEPT !.started = TRUE]
    <3>1. begun \in ScanOf(Len(buffer)) /\ Framed(buffer, begun)
      BY <2>2, FramedStarted
    <3> HIDE DEF begun
    <3>2. Framed(Append(buffer, b), Accept(begun, b))
      BY <2>2, <3>1, FramedAppend
    <3> QED
      BY <2>1, <3>2, Zenon DEF begun
  <2> QED
    BY <2>3, Zenon DEF Framed, Reads, BeforeLast
<1>4. CASE ReadByte
  <2>1. line[1] \in Bytes
    BY <1>4, HeadOfLine DEF UploadInv, UsbTypeOK, ReadByte
  <2>2. \/ buffer' = buffer /\ scan' = scan
        \/ ResetReceiver
        \/ /\ buffer' = Append(buffer, line[1])
           /\ scan' = Accept([scan EXCEPT !.started = TRUE], line[1])
    BY <1>4, Zenon DEF ReadByte, RejectPoll, Complete
  <2> QED
    BY <1>1, <1>2, <1>3, <2>1, <2>2, Zenon
<1>5. CASE EndPoll
  <2>1. ResetReceiver \/ (buffer' = buffer /\ scan' = scan)
    BY <1>5, Zenon DEF EndPoll, TakeBuffered
  <2> QED
    BY <1>1, <1>2, <2>1, Zenon
<1>6. CASE CloseWindow \/ Boot
  <2>1. ResetReceiver
    BY <1>6, Zenon DEF CloseWindow, Boot
  <2> QED
    BY <1>1, <2>1
<1>7. CASE (\E tick \in {0, 1} : Pause(tick)) \/ StartUpload \/ SendByte
  <2>1. buffer' = buffer /\ scan' = scan
    BY <1>7, Zenon DEF Pause, StartUpload, SendByte
  <2> QED
    BY <1>2, <2>1
<1>8. CASE UNCHANGED usbVars
  <2>1. buffer' = buffer /\ scan' = scan
    BY <1>8 DEF usbVars
  <2> QED
    BY <1>2, <2>1
<1> QED
  BY <1>4, <1>5, <1>6, <1>7, <1>8, Zenon DEF UsbNext, Poll

LEMMA FramedAgrees ==
    ASSUME UploadInv, Framed(buffer, scan)
    PROVE  FramingAgreesWithParser
<1> DEFINE text == Strip(buffer)
<1>1. /\ text \in Stripped
      /\ (scan.string <=> text.string) /\ (scan.escaped <=> text.escaped)
      /\ (scan.comment <=> text.comment)
      /\ Nesting(text.out).depth = scan.depth
  BY Zenon DEF Framed, Reads
<1>2. scan \in ScanOf(Len(buffer))
  BY DEF UploadInv
<1> HIDE DEF text
<1>3. /\ scan.string = text.string /\ scan.escaped = text.escaped
      /\ scan.comment = text.comment
  BY <1>1, <1>2 DEF Stripped, ScanOf
<1> QED
  BY <1>1, <1>3, Zenon DEF FramingAgreesWithParser, text

\* However long a document is, and whatever is in its strings and comments, the receiver
\* that looks at a byte once and the parser that looks ahead agree after every byte
\* (UsbJsonReceiver::accept_byte, strip_jsonc_comments).
THEOREM FramingFollowsParser == UsbSpec => []FramingAgreesWithParser
<1>1. UsbInit => Framed(buffer, scan)
  BY FramedIdle, Zenon DEF UsbInit
<1>2. UploadInv /\ Framed(buffer, scan) /\ [UsbNext]_usbVars => Framed(buffer, scan)'
  BY FramingStep
<1>3. UploadInv /\ Framed(buffer, scan) => FramingAgreesWithParser
  BY FramedAgrees
<1> QED
  BY <1>1, <1>2, <1>3, UploadInvariance, PTL DEF UsbSpec
=============================================================================
