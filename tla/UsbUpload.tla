----------------------------- MODULE UsbUpload -----------------------------
(***************************************************************************)
(* Documents uploaded over USB serial: the receiver that finds the end of  *)
(* a document by its brackets (serial.rs), the two loops that poll it      *)
(* (enter_usb_provisioning and run_usb_config_update_window of lib.rs,     *)
(* UsbConfigUpdateService of config_update.rs) and the parser behind them  *)
(* (provisioning.rs).                                                      *)
(*                                                                         *)
(* A byte is one of the classes below or an opening bracket, which stands  *)
(* for the JSON document that begins there.  The bytes of a document       *)
(* between its brackets decide nothing else here.  A tick is a second.     *)
(***************************************************************************)
EXTENDS GatewayConfig, SequencesExt

CONSTANTS
    Documents,    \* names of what an opening bracket may begin
    Content,      \* Content[d]: what serde_json reads it as, see Document
    Texts,        \* what the host may send as one upload
    Cap,          \* USB_CONFIG_JSON_BYTES
    LineCap,      \* bytes the serial peripheral holds
    IdleTimeout,  \* USB_CONFIG_UPLOAD_IDLE_TIMEOUT_MS
    WindowLength, \* USB_CONFIG_UPDATE_WINDOW_MS
    ReadyEvery,   \* USB_CONFIG_READY_INTERVAL_MS
    MaxUploads, MaxBoots \* bounds of the model

ASSUME UploadAssumption ==
    {Cap, LineCap, IdleTimeout, WindowLength, ReadyEvery, MaxUploads, MaxBoots}
        \subseteq Nat \ {0}

VARIABLES
    phase,   \* "provision", "window", "reboot", "serving" or "halted" (no receiver)
    pc,      \* "loop" (about to poll), "reading" (poll_document), "pause" (1 ms delay)
    line,    \* bytes in the serial peripheral
    buffer,  \* UsbJsonReceiver.buffer
    scan,    \* its depth and flags
    last,    \* age of last_activity_ms, or None
    ready,   \* time since the ready line was last written
    elapsed, \* time since the window opened
    stored,  \* the configuration in flash, or None
    owed,    \* history: bytes have arrived that no answer has been written for
    host,    \* what the host has still to send of its upload
    uploads, boots

usbVars == <<phase, pc, line, buffer, scan, last, ready, elapsed, stored, owed,
             host, uploads, boots>>

\* A raw configuration or a command; "other" is any other JSON object.
Document(d) ==
    \/ d.type \in {"config", "set_config"} /\ d.config # None /\ WireDocument(d.config)
    \/ d.type = "set_config" /\ d.config = None
    \/ d.type \in {"help", "status", "poll_now", "reboot", "unknown", "other"} /\ d.config = None

Classes == {"close", "quote", "escape", "slash", "newline", "text", "bad"}
Bytes == Classes \cup Documents
Opens(b) == b \in Documents

ASSUME TextAssumption ==
    /\ Documents \cap Classes = {}
    /\ \A d \in Documents : Document(Content[d])
    /\ \A t \in Texts : t \in Seq(Bytes)

Idle == [depth |-> 0, started |-> FALSE, string |-> FALSE, escaped |-> FALSE,
         comment |-> FALSE, slash |-> FALSE]

-----------------------------------------------------------------------------
\* Changed: a slash followed by something else stays pending.
AcceptSlashKept(s, b) ==
    IF s.comment THEN [s EXCEPT !.comment = b # "newline"]
    ELSE IF s.string THEN [s EXCEPT !.escaped = ~s.escaped /\ b = "escape",
                                    !.string = s.escaped \/ b # "quote"]
    ELSE IF s.slash /\ b = "slash" THEN [s EXCEPT !.slash = FALSE, !.comment = TRUE]
    ELSE [s EXCEPT !.slash = s.slash \/ b = "slash",
                   !.string = b = "quote",
                   !.depth = IF Opens(b) THEN @ + 1 ELSE IF b = "close" THEN @ - 1 ELSE @]

\* accept_byte after the byte has been stored: comments, strings, brackets
Accept(s, b) ==
    IF s.comment THEN [s EXCEPT !.comment = b # "newline"]
    ELSE IF s.string THEN [s EXCEPT !.escaped = ~s.escaped /\ b = "escape",
                                    !.string = s.escaped \/ b # "quote"]
    ELSE IF s.slash /\ b = "slash" THEN [s EXCEPT !.slash = FALSE, !.comment = TRUE]
    ELSE [s EXCEPT !.slash = b = "slash",
                   !.string = b = "quote",
                   !.depth = IF Opens(b) THEN @ + 1 ELSE IF b = "close" THEN @ - 1 ELSE @]

Counts(s, b) == ~s.comment /\ ~s.string /\ ~(s.slash /\ b = "slash")

\* checked_sub on the depth
Underflows(s, b) == Counts(s, b) /\ b = "close" /\ s.depth = 0
Completes(s, b) == Counts(s, b) /\ b = "close" /\ s.depth = 1

\* core::str::from_utf8
Utf8(t) == "bad" \notin ToSet(t)

-----------------------------------------------------------------------------
\* strip_jsonc_comments, one character at a time with its look-ahead: what is
\* kept, the flags, and whether the next character has been consumed.
StripStep(t, s, i) ==
    IF s.skip THEN [s EXCEPT !.skip = FALSE]
    ELSE IF s.comment
    THEN IF t[i] = "newline" THEN [s EXCEPT !.comment = FALSE, !.out = Append(@, t[i])] ELSE s
    ELSE IF s.string
    THEN [s EXCEPT !.out = Append(@, t[i]),
                   !.escaped = ~s.escaped /\ t[i] = "escape",
                   !.string = s.escaped \/ t[i] # "quote"]
    ELSE IF t[i] = "slash" /\ i < Len(t) /\ t[i + 1] = "slash"
    THEN [s EXCEPT !.skip = TRUE, !.comment = TRUE]
    ELSE [s EXCEPT !.out = Append(@, t[i]), !.string = t[i] = "quote"]

Strip(t) ==
    LET Upto[i \in 0..Len(t)] ==
            IF i = 0
            THEN [out |-> <<>>, string |-> FALSE, escaped |-> FALSE, comment |-> FALSE,
                  skip |-> FALSE]
            ELSE CHOOSE s \in {StripStep(t, before, i) : before \in {Upto[i - 1]}} : TRUE
    IN  Upto[Len(t)]

NestingStep(s, b) ==
    IF s.string
    THEN [s EXCEPT !.escaped = ~s.escaped /\ b = "escape",
                   !.string = s.escaped \/ b # "quote",
                   !.depths = Append(@, s.depth)]
    ELSE LET d == IF Opens(b) THEN s.depth + 1 ELSE IF b = "close" THEN s.depth - 1 ELSE s.depth
         IN  [s EXCEPT !.string = b = "quote", !.depth = d, !.depths = Append(@, d),
                       !.stray = s.stray \/ b = "slash"]

\* Nesting of brackets outside strings, after each character, as serde_json sees it
Nesting(t) ==
    LET Upto[i \in 0..Len(t)] ==
            IF i = 0
            THEN [depth |-> 0, depths |-> <<>>, string |-> FALSE, escaped |-> FALSE,
                  stray |-> FALSE]
            ELSE CHOOSE s \in {NestingStep(before, t[i]) : before \in {Upto[i - 1]}} : TRUE
    IN  Upto[Len(t)]

\* The text without the white space around and in the object
Body(t) == SelectSeq(t, LAMBDA b : b # "newline")

\* The text is one JSON object and white space.
OneObject(t) ==
    \E body \in {Body(t)} : \E n \in {Nesting(body)} :
        /\ body # <<>> /\ Opens(body[1])
        /\ ~n.string /\ ~n.stray /\ n.depth = 0
        /\ \A i \in 1 .. Len(body) - 1 : n.depths[i] > 0

\* parse_config_wire
ParseWire(w) ==
    IF Converts(w) /\ Validate(ToConfig(w))
    THEN [is |-> "config", config |-> ToConfig(w)]
    ELSE [is |-> "error", code |-> "InvalidConfig"]

\* parse_usb_document once the comments are gone: a raw configuration, else a command.
ParseStripped(text) ==
    LET d == Content[Body(text.out)[1]]
    IN  IF text.string \/ ~OneObject(text.out) \/ d.type = "other"
        THEN [is |-> "error", code |-> "Json"]
        ELSE IF d.type = "unknown" THEN [is |-> "error", code |-> "Command"]
        ELSE IF d.config # None THEN ParseWire(d.config)
        ELSE IF d.type = "set_config" THEN [is |-> "error", code |-> "MissingField"]
        ELSE [is |-> d.type]

Parse(t) == CHOOSE result \in {ParseStripped(text) : text \in {Strip(t)}} : TRUE

-----------------------------------------------------------------------------
Receiving == phase \in {"provision", "window"}

\* discard_partial, or the end of complete_document
ResetReceiver == buffer' = <<>> /\ scan' = Idle

\* run_gateway with a configuration: it serves, or halts for the configuration or
\* because the radio does not start.
RunGateway(c) == phase' \in IF Halts(c) THEN {"halted"} ELSE {"serving", "halted"}

\* handle_document and handle_provisioning_document.  A configuration is
\* saved, which may fail; every other outcome is a line of output, except a
\* reboot.  A saved configuration is served at once when the gateway had none
\* and after a reboot otherwise.
HandleDocument(t) ==
    \E text \in {t} : \E result \in {Parse(text)} :
    /\ owed' = FALSE
    /\ \/ /\ result.is = "config" /\ OutputsSupported(result.config)
          /\ stored' = result.config
          /\ IF phase = "provision" THEN RunGateway(stored') ELSE phase' = "reboot"
       \/ /\ result.is # "reboot"            \* an answer only; the save may have failed
          /\ UNCHANGED <<stored, phase>>
       \/ /\ result.is = "reboot"
          /\ phase' = "reboot"
          /\ UNCHANGED stored

\* poll_document returns Err: reject, discard; only provisioning forgets the
\* time of the last activity.
RejectPoll ==
    /\ ResetReceiver
    /\ owed' = FALSE
    /\ last' = IF phase = "provision" THEN None ELSE last
    /\ pc' = "pause"
    /\ UNCHANGED <<stored, phase>>

\* complete_document from accept_byte
Complete(b) ==
    /\ ResetReceiver
    /\ last' = None
    /\ pc' = "pause"
    /\ HandleDocument(Append(buffer, b))

\* The loop condition of the window; a poll under way is not interrupted.
Polling ==
    \/ Receiving /\ pc = "reading"
    \/ Receiving /\ pc = "loop" /\ (phase = "window" => elapsed < WindowLength)

\* buffer.push fails
Full == Len(buffer) = Cap

\* One byte of the loop in poll_document.
ReadByte ==
    /\ Polling /\ line # <<>>
    /\ line' = Tail(line)
    /\ LET b == line[1]
           s == [scan EXCEPT !.started = TRUE]
       IN  IF ~scan.started /\ b = "newline"
           THEN pc' = "reading" /\ UNCHANGED <<buffer, scan, owed, last, stored, phase>>
           ELSE IF Full \/ Underflows(s, b)
           THEN RejectPoll
           ELSE IF Completes(s, b)
           THEN IF Utf8(buffer) THEN Complete(b) ELSE RejectPoll
           ELSE /\ pc' = "reading"
                /\ buffer' = Append(buffer, b)
                /\ scan' = Accept(s, b)
                /\ owed' = TRUE
                /\ UNCHANGED <<last, stored, phase>>
    /\ UNCHANGED <<ready, elapsed, host, uploads, boots>>

\* take_activity: the poll that ends has read something.
NoteActivity == IF pc = "reading" THEN 0 ELSE last

\* Changed: only a document with an open bracket times out.
TimesOutNested ==
    scan.depth > 0 /\ NoteActivity # None /\ NoteActivity >= IdleTimeout

TimesOut == buffer # <<>> /\ NoteActivity # None /\ NoteActivity >= IdleTimeout

\* take_buffered_document after the idle timeout: text that is not UTF-8 is
\* rejected and stays where it is.
TakeBuffered ==
    IF Utf8(buffer)
    THEN ResetReceiver /\ HandleDocument(buffer)
    ELSE owed' = FALSE /\ UNCHANGED <<buffer, scan, stored, phase>>

\* Changed: the ready line waits for the timeout even when nothing is buffered.
ReadyDueUnarmed == ready >= ReadyEvery /\ last # None

\* The provisioning loop writes the ready line only while nothing is buffered.
ReadyDue == ready >= ReadyEvery /\ (phase = "provision" => buffer' = <<>>)

\* poll_document finds no more bytes; handle_incomplete_upload, and the ready
\* line.
EndPoll ==
    /\ Polling /\ line = <<>>
    /\ pc' = "pause"
    /\ IF TimesOut
       THEN last' = None /\ TakeBuffered
       ELSE last' = NoteActivity /\ UNCHANGED <<buffer, scan, owed, stored, phase>>
    /\ ready' = IF ReadyDue THEN 0 ELSE ready
    /\ UNCHANGED <<line, elapsed, host, uploads, boots>>

Older(age, bound) == IF age < bound THEN age + 1 ELSE age

\* The delay between two polls, across the end of a second or not.
Pause(tick) ==
    /\ Receiving /\ pc = "pause"
    /\ tick = 1 \/ line # <<>>
    /\ pc' = "loop"
    /\ IF tick = 1
       THEN /\ last' = IF last = None THEN None ELSE Older(last, IdleTimeout)
            /\ ready' = Older(ready, ReadyEvery)
            /\ elapsed' = IF phase = "window" THEN elapsed + 1 ELSE elapsed
       ELSE UNCHANGED <<last, ready, elapsed>>
    /\ UNCHANGED <<phase, line, buffer, scan, stored, owed, host, uploads, boots>>

\* run_usb_config_update_window ends; the receiver is dropped with its bytes.
CloseWindow ==
    /\ phase = "window" /\ pc = "loop" /\ elapsed >= WindowLength
    /\ RunGateway(stored)
    /\ owed' = FALSE
    /\ ResetReceiver
    /\ line' = <<>> /\ host' = <<>>
    /\ UNCHANGED <<pc, last, ready, elapsed, stored, uploads, boots>>

\* load_or_provision after a reset: a new receiver in the loop that fits.
Boot ==
    /\ \/ phase = "reboot"
       \/ phase # "reboot" /\ boots < MaxBoots      \* the host's reset, or power
    /\ boots' = IF phase = "reboot" THEN boots ELSE boots + 1
    /\ phase' = IF stored = None THEN "provision" ELSE "window"
    /\ pc' = "loop"
    /\ ResetReceiver
    /\ last' = None /\ elapsed' = 0
    /\ ready' = IF stored = None THEN 0 ELSE ReadyEvery
    /\ line' = <<>> /\ host' = <<>> /\ owed' = FALSE
    /\ UNCHANGED <<stored, uploads>>

\* The host (external): one upload after the other, at any pace.
StartUpload ==
    /\ Receiving /\ host = <<>> /\ uploads < MaxUploads
    /\ host' \in Texts
    /\ uploads' = uploads + 1
    /\ UNCHANGED <<phase, pc, line, buffer, scan, last, ready, elapsed, stored, owed, boots>>

SendByte ==
    /\ host # <<>> /\ Len(line) < LineCap /\ Receiving
    /\ line' = Append(line, host[1])
    /\ host' = Tail(host)
    /\ UNCHANGED <<phase, pc, buffer, scan, last, ready, elapsed, stored, owed, uploads, boots>>

\* A gateway that has never been provisioned
UsbInit ==
    /\ phase = "provision" /\ stored = None
    /\ pc = "loop"
    /\ buffer = <<>> /\ scan = Idle
    /\ last = None /\ ready = 0 /\ elapsed = 0
    /\ line = <<>> /\ host = <<>> /\ owed = FALSE
    /\ uploads = 0 /\ boots = 0

Poll == ReadByte \/ EndPoll \/ CloseWindow \/ \E tick \in {0, 1} : Pause(tick)

UsbNext == Poll \/ Boot \/ StartUpload \/ SendByte

UsbSpec == UsbInit /\ [][UsbNext]_usbVars

\* The loop runs and its clock advances; a reset that was asked for happens.
UsbFairSpec ==
    /\ UsbSpec
    /\ WF_usbVars(Poll) /\ SF_usbVars(Pause(1))
    /\ WF_usbVars(Boot /\ phase = "reboot")

-----------------------------------------------------------------------------
\* Type invariant of the receiver and of the loops around it.
UsbTypeOK ==
    /\ phase \in {"provision", "window", "reboot", "serving", "halted"}
    /\ pc \in {"loop", "reading", "pause"}
    /\ line \in Seq(Bytes) /\ Len(line) <= LineCap
    /\ buffer \in Seq(Bytes) /\ Len(buffer) <= Cap
    /\ scan \in [depth : 0..Cap, started : BOOLEAN, string : BOOLEAN, escaped : BOOLEAN,
                 comment : BOOLEAN, slash : BOOLEAN]
    /\ last \in 0..IdleTimeout \cup {None}
    /\ ready \in 0..ReadyEvery
    /\ elapsed \in 0..WindowLength
    /\ owed \in BOOLEAN
    /\ host \in Seq(Bytes)
    /\ uploads \in 0..MaxUploads /\ boots \in 0..MaxBoots

\* The receiver, which looks at a byte once, and the parser, which strips the
\* comments with one character of look-ahead, agree after every byte on what
\* is a string, a comment and a bracket: a document ends for the one where it
\* ends for the other (accept_byte and strip_jsonc_comments).
FramingAgreesWithParser ==
    LET text == Strip(buffer) IN
    /\ scan.string = text.string /\ scan.escaped = text.escaped
    /\ scan.comment = text.comment
    /\ scan.depth = Nesting(text.out).depth

\* Whatever was uploaded, saved and loaded again: the gateway starts with it and
\* does not halt, it gives each producer the interval that was written and an id
\* of its own, the radio settings the driver has, and a port that can be listened
\* on (to_config and validate against run_gateway).
StoredRuns == stored # None => Runs(stored)

\* Bytes that have arrived are answered, accepted or rejected, even when the
\* document never ends, unless the loop that would answer ends first.
UploadsAnswered == owed ~> ~owed

\* The ready line, for which the host waits before it uploads, comes back as
\* long as the gateway waits for a configuration, unless rejected text stays.
ReadyComesBack == []<>(ready = 0 \/ phase \in {"serving", "halted", "reboot"} \/ ~Utf8(buffer))

=============================================================================
