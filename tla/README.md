# MeshCoreGate in TLA+

MeshCoreGate is Rust firmware for an ESP32-S3 board with an SX1262 LoRa radio.
It polls configured MeshCore nodes (repeaters, companions) for telemetry over
LoRa and offers what it learns over HTTP and USB.  This directory holds
TLA+ specifications of the firmware, translated from its source; TLC checks
them on small instances, and TLAPS proves the main theorems for every value of
the constants.  Paths below are relative to `src/crates/`; `platform/` stands
for `muninn-gate-platform-esp32/src/` and `core/` for `muninn-gate-core/src/`.

    tlc -config MCPollScheduler_sched.cfg MCPollScheduler.tla
    tlapm PollSchedulerProofs.tla

## 1. The system

One loop on one core drives everything: it services the radio owner, the
network and the scheduler in turn.  A poll blocks the loop for seconds; while it
waits, a *maintenance callback* services the radio and the HTTP sockets, so
other parts run in the middle of a poll.  Nothing is preempted; atomics and
critical sections guard what interrupts and callbacks share.

| part | state | operations | what makes it correct |
|---|---|---|---|
| poll scheduler, `core/poller.rs` | per producer `next_poll_ms`, `retry_attempts` | `due_producers`, `force_all_due`, `mark_polled`, `mark_retry`, `poll_due_producers` | one poll at a time; an error is counted or retried in time, within the budget; nobody starves |
| scheduler tick, `platform/scheduler.rs`, `poll_control.rs` | poll-now counter, notice timers | `request_poll_now`, `tick_with_maintenance` | no request lost or counted twice, also when it arrives in mid-pass or before the radio is ready |
| poll statistics, `core/telemetry.rs`, `platform/telemetry_state.rs` | totals per producer and of the gateway, last result and reason | `record_poll_success/failure`, `set_poll_error`, `record_poll_pass` | totals agree; a failed producer shows why |
| configuration record, `platform/storage.rs` | two flash sectors, each a header and a document | load, save, reserve tags | an acknowledged document survives; no rollback; power may fail at any point |
| boot and USB configuration, `platform/lib.rs`, `config_update.rs` | boot phase, loaded document | load or provision, update window, reboot | an operator can always provision the gateway |
| request tags, `platform/meshcore.rs` | `NEXT_REQUEST_TAG`, the seed in flash | reserve at boot, take | no tag is used twice, over all boots |
| radio owner, `platform/radio.rs` | TX and RX queues, ready and TX-active flags, error count, TX pause | `service`, enqueue, dequeue | frames leave once and in order, the airtime pause holds, a hung chip is reset |
| radio wrapper and driver, `muninn-mesh-radio`, `muninn-mesh-sx126x` | chip mode, interrupt flags, RF switch | start RX, poll, transmit, restore, reinit | reception is restored after everything else |
| MeshCore client, `platform/meshcore.rs`, `muninn-mesh-meshcore-lib` | observations, progress of a poll | login, telemetry request, waits | an answer belongs to a request of this very poll; nothing overheard is lost |
| telemetry, `core/telemetry.rs`, `platform/telemetry_state.rs` | table of channels, view, time last heard, per producer | decode, merge, replace, read | the table is what was heard, however polls, overheard frames and the reader interleave |
| metrics page, `platform/wifi.rs` | none | `stream_metrics_response` | a page repeats no series, but for producers of the same name |
| Wi-Fi station and DHCP, `platform/wifi.rs` | association, connect request, recovery timers, lease | connect, retry, deep recovery, configure | the link comes back; an address is used only under its lease |
| HTTP socket pool, `platform/wifi.rs` | TCP state, bytes and age of each socket | listen, read, answer, recycle | one answer per request; every socket listens again |
| network loop and watchdog, `platform/wifi.rs` | recovery reasons and timers | serve, recover, run the scheduler | recoveries are justified and spaced; polling goes on |
| USB upload, `platform/serial.rs`, `config_update.rs` | receive buffer, bracket scanner, timers | poll, time out, close the window | every complete upload is answered; the receiver becomes ready again |
| configuration, `platform/provisioning.rs`, `core/config.rs` | none | parse, convert, validate | what is stored runs |
| diagnostics, `core/diagnostics.rs` | bounded event ring | record, snapshot | order, lost count |
| rendering, display, board tables, `tools/cli.py` | none that matters here | formatting, drawing | not modelled |

What is hard: polls interleave with requests and services through the
maintenance callback; every wait races a timeout; the chip fails, hangs and
receives between any two commands; power fails between any two flash commands;
and several counters, queues and reservations have limits.  `PROJECT.json`
lists each hazard at the line where it bites, with the properties for it.

## 2. Modules

| module | models | uses |
|---|---|---|
| `PollDuty` | what the scheduler promises, without time or statistics | |
| `PollScheduler` | scheduler, tick, poll-now counter, statistics | implements `PollDuty` |
| `ConfigStore` | the A/B flash record and one save, step by step | |
| `GatewayBoot` | boot, provisioning and request tags | `ConfigStore` |
| `RadioOwner` | radio owner with its queues and timing | |
| `RadioChip` | radio wrapper and SX1262, command by command | |
| `WifiStation` | association, recovery, DHCP | |
| `HttpPool` | the pool of HTTP sockets | |
| `NetworkLoop` | `serve_http` with its watchdog | `WifiStation`, `HttpPool` |
| `NetworkGauges` | what the loop publishes about the network | `NetworkLoop` |
| `MeshPacket` | packets and keys: building, parsing, decrypting | |
| `PollExchange` | what polling a producer promises | |
| `MeshcorePoll` | the MeshCore client against the air | `MeshPacket`, implements `PollExchange` |
| `Telemetry` | channels, view, LPP decoding, merging | |
| `TelemetryStore` | the stored telemetry, its writers and the metrics page | `Telemetry`, `MeshPacket` |
| `GatewayConfig` | documents, conversion, validation, what halts the gateway | |
| `UsbUpload` | the receiver of documents and the two loops around it | `GatewayConfig` |

`MC*` modules give constants their values and nothing more.  Proofs are in
`PollSchedulerProofs`, `GatewayBootProofs`, `RadioOwnerProofs`,
`RadioChipProofs`, `NetworkProofs` (station, pool, loop, gauges),
`MeshcorePollProofs`, `UsbUploadProofs` (with `GatewayConfig`) and
`TelemetryStoreProofs` (with `Telemetry`).

Operators whose comment begins with "Changed:" are faults a programmer could
plausibly make in the definition that follows them; nothing uses them except the
`mutants` of `PROJECT.json`, each of which must break its property.

### PollScheduler

Time is relative.  `wait[p]` is `next_poll_ms - now`, 0 once due, and `passAge`
is how old the `now_ms` of the running pass is, so that a re-arm by
`mark_polled` or `mark_retry` is `delay - passAge`, as in the code: both add to
the stale `now_ms`.  Nothing else is compared with the clock, so no horizon is
needed.

| code | action |
|---|---|
| `request_poll_now` (HTTP, USB, button) | `RequestPollNow`, at any time, in mid-pass too |
| `tick_with_maintenance`: take requests, `force_all_due`, due and ready | `TickPoll`; `TickNoPoll` when the tick takes requests but polls nobody |
| the loop of `poll_due_producers` | `BeginPoll(p)`, in entry order |
| a poll returning after `d` | `PollOk`, `PollFailed`, `PollRetry`, each with `mark_polled` or `mark_retry` and every statistic it steps |
| `record_poll_pass` | `EndPass` |

A tick with nothing to do is a stuttering step.  The result and the duration of
a poll are chosen freely: the client is abstract here.  The u64 counters
saturate at `MaxCount` as `saturating_add` does.  `mark_polled` is called with
the producer's own interval; `Interval` may be any positive function, which
covers the clamping of `config.rs`.

### ConfigStore and GatewayBoot

A sector is blank or a record: sequence number, seed, document, and whether the
document's CRC is good (`whole`).  `BeginSave` is
`save_config_bytes_with_request_tag_seed` up to the first flash command,
`EraseSector`, `ProgramHeader` and `ProgramPayload` are the erase and the write
as the flash sees them, `Verified` is the read back.  The header is in the
first page programmed, so from `ProgramHeader` on the sector reads as the newest
and its document as corrupt.  `NextSeq` and `SeqMinus` are wrapping arithmetic
modulo `2 * Half`.

Assumed of the flash: pages are programmed in ascending order, programming the
first page is atomic, and a command that fails was not executed or stopped
between two of the modelled steps.

`GatewayBoot` runs one boot after another: `LoadConfig`, the update window
(`SetConfig`, `CloseWindow`), provisioning, `BeginReserve`, then `TakeTag`.
`Restart` is a power failure or a reset anywhere; `SaveFailed` an error of any
flash command of a save.  The history variables are `issued` (tags taken under a
reservation), `acked` (the document last loaded or saved with Ok) and `trying`
(documents whose save began since).  Tags of the volatile fallback are
not in `issued`: the code announces that they may repeat.
In any `SetConfig` the read of the seed to carry over may fail; the document is
then saved without one (`CarriedSeed`).  `unread` remembers this of a save under
way, and with its header `issued` starts anew: the tags of the lost seed can
come again, so the properties of tags speak of those issued since.

### RadioOwner

`service` is one pass: `StartPass` or `StartRx`, then one poll (`PollNothing`,
`PollFrame`, `PollError`), then at most one transmission (`NoTransmit`, or
`BeginTransmit`, `Air`, `Restore`), with `Reinit` where the error count reaches
the threshold.  `pc` tells how far a pass has come.  The chip moves between any
two steps: it hears a frame (`Hear`) or holds BUSY (`Hang`).  `Commands(ok)` is a
group of SPI commands: it fails if BUSY is stuck, because every command of the
driver waits on BUSY first, and it may fail at the cost of one of `MaxFaults`
faults.  `transmit_inner` may fail before or after the frame has left.  A reset
by pin clears a stuck BUSY; that is the chip's data sheet, not this code.

### RadioChip

`RadioOwner` takes an operation of the radio wrapper as a step or two.
`RadioChip` asks what its single commands leave behind.  An operation is a list
of commands (`StartRx`, `Configure`, `PrepareTx`, `SendFrame`, `RestoreRx`,
`Rearm`), `Issue` executes the next one, `Effect` is what it does to the chip.
A command that fails (`StartFails`, `RearmFails`, `PrepareFails`, `SendFails`,
`RestoreFails`, `ResetFails`, after what the code does then) may have taken
effect or not.  The chip hears (`Hear`), ends a transmission (`TxEnds`) and
hangs (`Hang`) between any two commands.

What the driver leaves to the chip is modelled by its data sheet and marked
external: interrupts are raised only once the mask is set, both buffers begin at
address 0, setting packet parameters undoes the IQ erratum fix, and a failed
`reset` may leave the reset pin low.  Regulator mode and image calibration are
left out (a failure there is the failure of the next command), as are
`sample_health` and the statistics.

### WifiStation, HttpPool, NetworkLoop

`WifiStation` has the reconnect loop: `Reconnect`, `RequestConnect`,
`AwaitConnect`, `DeepRecover` and the event hook, against an air that associates,
refuses, loses the link and delivers its event late (`Associate`,
`ConnectFails`, `LinkLost`, `LateEvent`), access points that come and go
(`ApChange`), and a DHCP client (`DhcpMoves`, `ResetDhcp`).

`HttpPool` is `service_http_once`.  `BeginService` recycles, aborts and listens;
`ReadNothing` and `ReadPart` pass over a socket, `BeginResponse` sends, with
`FinishResponse`, `AbortResponse` and `ResponseDone` its ends.  TCP moves
(`NetMoves`) only where the code calls `poll_network`, in the middle of a
response too.

`NetworkLoop` composes them.  Its `pc` is the place in `serve_http`: start-up
wait, no link, waiting for a lease, service, recovery, scheduler tick.

| code | action |
|---|---|
| `wait_for_wifi_recovering` and its end | `StartupPass`, `EnterServing` |
| in the loop: the branch of a lost link (`deep_recover_wifi`, `request_wifi_connect`), the link found again | `DownPass`, `UpPass` |
| `poll_dhcp`, no lease within the attempts | `HaveLease`, `AwaitLease`, `DhcpTimeout` |
| `service_http_once` and the watchdog's records | `Service` |
| `NetworkWatchdog::recovery_reason` and what follows | `ForceRecovery` |
| `tick_with_maintenance`, its callback, the check for active sockets | `BeginTick`, `Maintain`, `EndTick`, `DeferTick` |

`NetworkGauges` adds the gauges about the network.  Each recorder of
`telemetry_state.rs` is an operator; each step of the loop publishes what the
code publishes there.

### MeshPacket and MeshcorePoll

A packet is a record of what the code reads from it, and may end at each of the
places where the parsers check for an end.  Ciphers are abstract: a sealed text
opens with the secret it was closed with.  `LoginRequest`, `TelemetryRequest`
and `GatewayAdvert` build, `ParseWire`, `DecryptResponse` and `PacketMeta` read.

`MeshcorePoll` is `poll_producer_blocking` over the two radio queues:
`BeginPass` is a tick with some producers due, `StartPoll`, then rounds of `DrainFrame` and `BeginStep`/`EndStep` until the
login, then the telemetry, is answered or the wait is over.  The radio
(`Transmit`, `Receive`, `Overhear`) moves only where the maintenance callback or
the main loop lets it.  Frames are lost, repeated, reordered and delayed past
the end of the poll.  `EndPass` is `drain_observations` at
the end of the tick.

### Telemetry and TelemetryStore

`Telemetry` has the pure part: `UpdateChannel`, `Decode`, `MergeFrom`.
`TelemetryStore` has the order of events: overheard frames (`Hear`) are merged
by the main loop's drain (`BeginDrain`, `DrainObserves`) or within a poll
(`BeginPolls`, `PollObserves`), each with its own time stamp; an answer replaces
(`PollAnswered`).  `GatewaySamples` followed by the `ProducerSamples` of each
producer is the page of `stream_metrics_response`, a sequence of samples, each a
name, labels and a value.  The history variable
`said` has the messages a producer's record rests on: what the last answer said
and each frame overheard since.  `Kept` is what one message alone leaves in an
empty table, `Told` all of that in order.

### GatewayConfig and UsbUpload

A document is a record as `serde_json` reads it.  `Converts` and `ToConfig` are
`to_config`, `Validate` is `validate`, `Halts` collects what stops
`run_gateway` for good.

In `UsbUpload` a byte is a class (bracket, quote, escape, slash, newline, text,
not UTF-8) and an opening bracket stands for the document that begins there.
`Accept` is `accept_byte`; `Strip` and `Nesting` are the parser's own reading of
the text; `ReadByte`, `EndPoll`, `TakeBuffered` are `poll_document`, `Pause`,
`CloseWindow` and `Boot` the loops around it.  Host and reset are free.

## 3. Runs

| run | checks | states |
|---|---|---|
| `sched` | errors counted or retried in time, request accounting, totals, forced passes, `PollDuty` with its retry budget; every producer polled, every request consumed | 226 000 |
| `power` | sector order, acknowledged documents survive, no rollback, seeds and tags | 263 000 |
| `radio` | frames heard once and in order, the pause after a sent frame; a hang is reset, the queue drains | 504 000 |
| `chip` | what is reported as sent was ours and clean; reported reception is set up in full; deafness ends unless a reset failed | 106 000 |
| `link` | service only on a lease, true gauges, paced connects; link and service come back | 33 000 |
| `watch` | forced recoveries are spaced and, for send errors, justified | 805 000 |
| `pool` | one response per request; every socket listens again; the pool goes idle | 263 000 |
| `mesh` | no observation lost; `PollExchange` with its liveness | 167 000 |
| `store` | table and view are what was heard, series repeat only for equal names, last-heard time never back | 374 000 |
| `upload` | framing agrees with the parser, what is stored runs; uploads are answered, the ready line returns | 86 000 |
| `longboot` | `TagsFresh` with one tag more than reserved | violated: finding 1 |
| `deaf` | `KeepsListening` | violated: finding 2 |

Type invariants are in no run, because TLAPS proves every one of them (`TypeOK`,
`BootTypeOK`, `RadioTypeOK`, `ChipTypeOK`, `PoolTypeOK`, `NetTypeOK`,
`MeshTypeOK`, `UsbTypeOK`, `StoreTypeOK`).

Bounds, and why they are enough:

* `sched`: two producers, so that one can be due, polled or retried while the
  other is not; one retry; counters that saturate at 2, so that saturation is
  reached; one outstanding request at a time, which can arrive at every point of
  a pass; polls that outlast the retry delay.
* `power`: three documents, one unsupported, and four sequence numbers, so that
  they wrap and half the range is 2, the smallest for which "newer" makes sense.
  Tags 2 to 9 in reservations of two: four boots' worth, ending in the checked
  addition's overflow.  The number of boots, saves and failures is not bounded,
  nor that of seeds that cannot be read.
  `MaxUse` bounds the tags of one boot: to the reservation in `power`, to one
  more in `longboot`.
* `radio`: queues of one with two frames each way, so that both fill up; three
  faults, enough to reach the threshold of three, or a hang and a reset that
  fails twice; two airtimes.
* `chip`: threshold three and five faults: a reset after three with one that
  fails in it, or a hang and resets that fail at four different commands.
  Nothing else is bounded.  `deaf` needs two.
* `link`: two access points and two addresses, so that the pin can be wrong and
  the address can change; retries of two lengths, a deep recovery after three
  of them.  No clients, so no forced recovery: the pool is `pool`'s, forced
  recoveries are `watch`'s, and that they leave no lease behind (`ServedOnLease`)
  is the theorem `LeaseServed`.
* `watch`: one client on one socket, a link that holds, two errors within one
  unit for a recovery, a cooldown of two.  A second socket multiplies the states
  and adds nothing to the watchdog, which sees only whether all are taken.
* `pool`: two sockets, so that one moves while the other is answered, and a
  stall of two units, so that it can be half over.
* `mesh`: a repeater that returns paths, a companion, a producer with an
  unusable key, a stranger with the repeater's path hash; two polls, so that
  the second meets the late answers of the first; one repeated or foreign frame.
  (`MaxExtras = 2`, 2.3 million states, holds as well and takes five minutes.)
* `store`: three producers, one of them known by its name and two without a name,
  and an alien with a colliding key prefix; tables of two channels, an answer and an
  advert that name three, an answer that names a metric of a channel twice and
  one cut off by an unknown type; two of everything that comes from outside.
* `upload`: a buffer of nine bytes and fourteen texts: whole, commented, nested,
  with strings, too long, with a key too long, cut short, not UTF-8 and none at all; two of them one
  after the other or one in the tail of the other; a window of three seconds, an
  idle timeout of two, one reset.

The deadlock check is off in `store` and `upload` only: the clock of `store` and
the number of frames are bounded by the model, and a gateway in `upload` may be
serving or halted for good.

## 4. Findings

1. *A long boot leaves its tag reservation* (`platform/meshcore.rs`,
   `next_request_tag`): from the 4097th request on its tags are those of the
   next boot.
2. *A failed reset leaves the radio deaf and dumb* (`platform/radio.rs`,
   `record_radio_io_error`): the reset clears the error count and reports the
   radio as ready whether or not it worked.  A chip that was reset and not
   configured raises no interrupt, polls find nothing wrong and clear the count,
   and no further reset follows.

`PROJECT.json` quotes the comment or note each one contradicts.

The models show more behaviour that a document or comment does not lead one to
expect.  None is the subject of a run; the properties that hold are worded
around them:

* A retry is delayed from the beginning of its pass, so after a long poll it is
  due at once (`core/poller.rs`, `mark_retry`).
* A torn save hides the older, good document: the newer header wins before its
  CRC is read (`platform/storage.rs`).  An unsupported document halts the
  gateway instead of going to provisioning.  A save drops the tag seed it cannot
  read (`unwrap_or(None)`, storage.rs:135), and the next boot reserves from the
  first tag again: `SeedCoversTags` and `TagsFresh` hold of the tags issued since.
* A transmission that fails early keeps the TX path and the TX-active flag.  A
  restore that fails leaves the radio deaf until the next transmission.  Failed
  transmissions alone never lead to a reset, since each poll clears the count.
  A `start_rx` that fails is retried for ever, and a chip that hangs before it
  ever worked is not reset (`HangIsReset` begins once reception was started).
  A frame that was sent but whose restore failed sets no pause
  (`SpacedAfterSent` speaks of frames reported as sent).  A damaged frame that
  arrives between two reads of the poll is delivered in place of a good one.
  `HEADER_ERROR` is not in the interrupt mask, so it is never counted.
* Text that is not UTF-8 and is rejected by the idle timeout stays in the
  receive buffer (`platform/serial.rs`): later uploads are appended to it until
  the buffer overflows, and the ready line does not come back meanwhile, which
  `ReadyComesBack` excepts.  An overflow loses one byte and reads the rest as a
  new document.  A window that closes in mid-upload drops it unanswered.
* `7_GATEWAY_METRICS.md` says that the producer-level metrics keep "the first seen
  value for each metric type" (line 287) and speaks of "first channel wins" (line
  307), the comment at `core/telemetry.rs`:152 of "the first channel that reports
  each metric type".  That is so within one message (`set_channel_...`).  When an
  observation is merged, `merge_from` (`core/telemetry.rs`:236) lays it over the
  view, which may then show a later value, of another channel than the first ever
  seen.  `ViewIsCurrent` states what the code does: the newest message wins, and
  in it the first channel.
* Every overheard frame of a known node is read as LPP from its first and its
  fifth byte (`telemetry_from_frame`), so bytes of a key or a signature can
  become values of channels.  `TableMatchesHeard` speaks of what was read.
* A payload that names a metric of a channel twice leaves its last value in the
  channel and its first in the view (`set_channel_...`).
* A frame becomes a table of its own before it is merged (`merge_producer`).  If
  it names more channels than a table has, what it says of the others is lost,
  also of channels the producer's own table has room for: `Kept` says what
  comes that far.
* `AuthFailed` can be reported for a repeater that did not refuse: login answers
  carry no tag, and a late one of an earlier attempt counts.  A telemetry answer
  whose first byte is 0 is skipped as the late success of a login.  Responses of
  other producers are discarded unobserved.  Paths of two- or three-byte hashes
  are refused by one parser and accepted by the other.
* Producers of the same name share their series on the metrics page, which then
  names them twice.  Nothing prevents it: `validate` compares keys alone
  (`core/config.rs`), the document asks for no more (`6_CONFIGURATION.md`:137), and
  a name left out is the empty one (`platform/provisioning.rs`:448), so two unnamed
  producers suffice.  `SeriesOnce` says that nothing else repeats a series.  Series
  names differ from the ones `7_GATEWAY_METRICS.md` lists.
* The reason for a forced recovery survives a later success during the cooldown.
  A refused connect request counts as in flight until deep recovery.  A slow
  reader holds the loop in `send_all`.  The start-up wait for Wi-Fi serves
  neither radio nor scheduler.

## 5. Fairness

`PollScheduler`: weak fairness of time, of the tick and of the steps of a pass.
The serial-only loop of `lib.rs` ticks every iteration and every wait of the
client is bounded by a timeout, so this holds there; the HTTP loop ticks only
while Wi-Fi is up and no socket is active, so there `EveryProducerPolled` says
that the scheduler does its part once it is called again and again, which
`LinkComesBack`, `ServingComesBack` and `PoolGoesIdle` say of the loop.  No
fairness is asked of requests, of the radio becoming ready or of a poll's result.

`RadioOwner`: weak fairness of the pass, since both main loops call `service` in
every iteration and every wait inside has a timeout, and strong fairness of
`Tick`: time always passes, but the model lets it pass only between passes (a
pass reads the clock once).  The chip, the air and the client owe nothing.

`RadioChip`: weak fairness of `Service`; weak fairness of `TxEnds`, because the
driver gives the chip a transmission timeout of its own; strong fairness of
`Transmit`, because the scheduler polls again and again.  Without the last a
chip whose restore failed would stay deaf: no reset helps it.

`NetworkLoop`, `NetworkGauges`: weak fairness of the loop's steps and strong
fairness of time; strong fairness of what the network can do whenever it is
asked: an association in the air, a lease while the loop waits for one, a
station that starts and a request that is taken.  The antecedents of
`LinkComesBack` and `ServingComesBack` demand a reachable access point and a link
that holds.

`HttpPool`: weak fairness of the service, strong fairness of time.  Clients and
the link owe nothing.  `MeshcorePoll`: weak fairness of the client's own steps;
the air owes nothing.  `UsbUpload`: weak fairness of the loop, strong fairness
of its clock, and a reset that was asked for happens; the host owes nothing.

## 6. Proofs

Every invariant and action property that a passing run checks is a theorem, for
all values of the constants, and so are the type invariants and the safety of
both abstract specifications.  The inductive invariants were checked by TLC on
the instances of section 3 before they were proved.

`PollSchedulerProofs`, for any number of producers, intervals, jitter, retries,
poll durations and reasons:

* `IInv` adds to `TypeOK` what the properties rest on: who is being polled is no
  longer owed, nothing is owed or counted outside a pass, an error on show is
  counted or owed again in time, and `issued` is the saturated sum of waiting, taken and counted
  requests.  `InvInit` and `InvStep` show it inductive, one step per action.
  The last needs care because both sides saturate: the sum of two saturating
  counters is again a saturating counter, which is proved as a lemma.
* From it: `TypeCorrect`, `RequestAccounting`, `FailureReported`, the action
  property `RequestsAreServed`, and `Refinement`, that every step is a step of
  `PollDuty` or a stutter, which defers a poll at most as often as the budget
  allows.
* `RetriesOwed`: time shortens what is left of the retry delay no faster than the
  wait of a producer (`LeftElapses`), so a retry comes in time through slow polls
  of others and forced passes.
* `TotalsOfProducers`: the sum over the producers does not depend on the order
  in which they are counted, and one more success of one of them adds one.  Both
  are inductions over groups of producers.

`GatewayBootProofs`, for all documents, sequence ranges and reservation sizes:

* `StoreInv` says where an unfinished save stands: its target is the inactive
  sector until the header is programmed and the active one afterwards, and the
  two headers are one apart.  The second cannot be proved alone: erasing,
  programming and choosing the target each depend on which sector is newer, and
  that only one successor is newer is a lemma about wrapping arithmetic.
* `DocInv` ties the documents to it, giving `AckedDurable` and `NoRollback`.
* `TagInv` says that everything issued lies below the stored seed *and* below
  the seed of the save under way, and that a reservation's unused tags end at
  the seed.  `GridInv` (seeds are `TagBase + k * Reserve`) is what keeps a seed
  from being the word that reads as none, the assumption `BootAssumption` makes
  of the constants (0xF0000000 and 4096 satisfy it).
* `SeedCovers` and `TagsNeverReused` assume `[]WithinReservation`: no boot takes
  more than it reserved.  Without it they are false, as run `longboot` shows.

`RadioOwnerProofs`, for queues of any length, any error threshold and any set of
airtimes with a longest one:

* `SendOrder` puts the TX queue, the frame in hand and the last one on the air
  in the order of their numbers (`AiredInOrder`, with failed transmissions that
  may or may not have sent); `HearOrder` does so for interrupt, RX queue and
  client, as long as no command has failed (`HeardInOrder`).
* `PauseInv` says that the time since the last frame and what is left to wait
  make up the pause from the moment its airtime is booked, which is what
  `PauseKept` needs between the two.

`RadioChipProofs`, for every threshold and any number of failures and hangs:
there is no counter of commands done, so the invariant reads progress off the
commands left.  `TodoInv`: they are the end of the operation's program.
`SendInv`, `RestoreInv`, `ResetInv`: with so many left, the chip has been told
this much, unless a reset has failed before.  `StartInv` and `ConfiguredInv`
keep it across operations.  A command that fails may or may not have taken
effect, so each is proved for both.  Results: `FrameSent`, `ReceptionSetUp`.

`NetworkProofs`, for any access points, addresses, sockets, pauses and limits:

* `ServedInv`: a connection that got its response is on its way out, whatever
  its client and the link do while it drains (`OneResponseEach`).
* `PaceInv`: the time since the last connect request and the pause left make up
  the shortest pause, through events, retries and deep recoveries
  (`RequestsPaced`).  It needs a backoff that never falls below its first value.
* `PlaceInv` ties the place in the loop to link and lease (`LeaseServed`);
  `GaugeInv` ties what is published to both (`GaugesCorrect`).
* `WatchInv`: the age of the last forced recovery is the cooldown run so far,
  and the errors the watchdog counts are the last ones of the true history
  (`Counted`), also when it forgets them; hence `RecoveriesApart` and
  `ErrorsJustified`.
* `GaugesOfLoop`: with its gauges the loop is still the loop.

`MeshcorePollProofs`, for any producers and strangers, any queue lengths and any
number of polls and of repeated or foreign frames: every tag in the air, in a
queue or in hand was taken before, and the tag waited for belongs to this poll
only (`TagInv`, `OfPoll`); whoever answers shares the gateway's secret with the
node that was asked.  Hence `ExchangesKept`, the safety half of `KeepsExchange`
(`ExchangeSafety`).  `ObservationsMerged` holds since each of the three places
that empty the queue merges in the same step.

`UsbUploadProofs`, for all documents, texts, buffer lengths and times:

* `ValidatedRuns` takes the documents apart: each reason to halt is excluded by
  a check of conversion or validation.  `UploadsRun` carries it to the flash.
* `UploadInvariance`: the receiver stays within its buffer, its nesting within
  the bytes seen, a round within its window.
* `FramingFollowsParser`: the receiver looks at a byte once, the parser looks
  ahead.  `Framed` relates both after every prefix, with what they agreed on
  before a slash; an induction over the text.

`TelemetryStoreProofs`, for any producers, payloads, adverts and table lengths:

* `Shows` says what a table has of the readings it was made of: the first
  channels named, of each metric the last value.  It grows with each reading
  (`ShowsUpdate`).
* An observation is decoded into a table of its own and then merged.  That this
  is as good as decoding into the producer's table needs that merging an updated
  table is updating the merged one (`MergeUpdated`), which in turn needs that
  updates of two channels commute when both have room (`UpdatesCommute`); it is
  false for channels without room, which is why `Told` speaks of what each
  message keeps.
* `StoreInv`: each record is `Recorded` of its messages, and the stamps of tick,
  drain, records and clock are in order.  From it `TableOfHeard`,
  `ViewOfNewest` and `HeardForward`.
* `SeriesNamedOnce`: the page is cut into parts (gateway, producers, channels,
  metrics) of which each names its series once and no two share one, parts of
  producers of the same name excepted.

Induction over data is done in the form of sets: a set that has 0 and with each
number its successor has all of them (`AllNaturals`, from a least element of a
well-founded relation), likewise for sequences (`AllSequences`) and groups of
producers.

Assumptions: those named in the modules, evaluated by TLC on every run.  Besides
sizes and types they say: producers are finitely many, an airtime is the longest
(a packet has at most 255 bytes), backoffs are no shorter than the first, the
flash's "none" is no valid seed, and values that stand for "absent" are no values.

Only model-checked: liveness, which needs fairness and ENABLED: `HangIsReset`,
`QueueDrains`, `DeafnessEnds`, `LinkComesBack`, `ServingComesBack`,
`SocketsListenAgain`, `PoolGoesIdle`, `UploadsAnswered`, `ReadyComesBack`,
`EveryProducerPolled`, `RequestsConsumed`, and the liveness half of
`KeepsExchange`.  The two violated properties are refuted by their runs.

## 7. Not modelled

* Diagnostics: one writer appends to a ring and one reader copies it within a
  critical section; nothing else depends on it.
* `metrics.rs` and JSON text: formatting.  `render_prometheus` is reached only
  through `http_metrics::build_response`, whose metrics route
  `stream_metrics_response` takes over before; that page is in
  `TelemetryStore`.
* Display and user interface: drawing.  Board tables and firmware images: what a
  board can do is a constant of `GatewayConfig`.  `tools/cli.py` runs on the
  operator's computer; its uploads are the inputs of `UsbUpload`.
* Register encodings of the SX126x and cryptography: data without control the
  properties could tell apart.  The partition lookup and the CRC arithmetic of
  the store.
* The application-core radio loop in `platform/radio.rs` is never started.
  `force_due` and `next_wake_ms` of the scheduler have no caller in the firmware.
  `QUEUE_STARTUP_ADVERT` is false in the firmware as it is built and so in run
  `mesh`; with `TRUE`, which the constant allows, the run passes as well.
* Within modelled parts: the radio's health samples and signal statistics, the
  four failure reasons between which radio counters decide (one here,
  `NothingHeard`), HTTP routing and the bearer token, the texts of USB answers.

## 8. Plan

Every component with control worth checking has a module, and every invariant
and action property of a run is a theorem.  Next:

1. `UsbUpload` and `GatewayBoot` composed: an accepted upload is a step
   `SetConfig` of the boot, so that what is acknowledged over USB is what
   survives a power failure.
2. Theorems that join components: `RadioChip` under the queues of `RadioOwner`.
