----------------------------- MODULE RadioOwner -----------------------------
(***************************************************************************)
(* The cooperative owner of the SX1262 (platform radio.rs) and the wrapper *)
(* it drives (mesh-radio radio.rs).  One service pass starts continuous    *)
(* reception, polls the chip once, and transmits at most one queued frame; *)
(* repeated errors reset the chip.  The chip runs beside the processor: it *)
(* receives frames and may hang (BUSY stuck high) between any two steps,   *)
(* and a command to it may fail.                                           *)
(***************************************************************************)
EXTENDS Integers, Sequences

CONSTANTS
    TxCap,     \* RADIO_TX_QUEUE_LEN
    RxCap,     \* RADIO_RX_QUEUE_LEN
    Threshold, \* RADIO_REINIT_ERROR_THRESHOLD
    Factor,    \* RADIO_AIRTIME_BUDGET_FACTOR
    RxDelay,   \* RADIO_RX_START_DELAY_MS, in ticks
    Airtimes,  \* times a frame may be on the air, in ticks
    MaxTx,     \* bound on the frames queued for transmission
    MaxRx,     \* bound on the frames heard
    MaxFaults  \* bound on failed commands, hangs and transmit timeouts

ASSUME RadioAssumption ==
    /\ {TxCap, RxCap, Threshold} \subseteq Nat \ {0}
    /\ {Factor, RxDelay, MaxTx, MaxRx, MaxFaults} \subseteq Nat
    /\ Airtimes \subseteq Nat
    /\ \E a \in Airtimes : \A b \in Airtimes : b <= a \* a packet has at most 255 bytes

VARIABLES
    receiving,  \* chip: in continuous RX
    configured, \* chip: has the packet and modulation parameters
    stuck,      \* chip: BUSY stays high until a reset
    irq,        \* chip: the frame RX_DONE is raised for, or 0
    faults,     \* faults the environment may still cause
    rfPath,     \* RF switch position
    txActive,   \* TX_ACTIVE
    ready,      \* RADIO_READY
    rxStarted,  \* rx_started
    errors,     \* consecutive_errors
    rxWait,     \* ticks until rx_start_ms
    txWait,     \* ticks until next_tx_time_ms
    lastAir,    \* last_tx_airtime_ms
    txQueue,    \* RADIO_TX_QUEUE, of frame numbers
    rxQueue,    \* RADIO_RX_QUEUE, of frame numbers
    pc,         \* step of the service pass; "idle" between passes
    sending,    \* frame taken from the queue, or 0
    sent,       \* transmit_inner returned Ok
    txCount,    \* frames ever queued
    rxCount,    \* frames ever heard
    aired,      \* last frame that went on the air (history)
    rest,       \* ticks since it did, or since the boot (history)
    booked,     \* its airtime was added to next_tx_time_ms (history)
    taken       \* last frame the client read (history)

chip == <<receiving, configured, stuck, irq>>
owner == <<txActive, rfPath, ready, rxStarted, errors>>
waits == <<rxWait, txWait, lastAir>>
sender == <<sending, sent>>
history == <<aired, rest, booked, taken>>
radioVars == <<chip, faults, owner, waits, txQueue, rxQueue, pc, sender,
               txCount, rxCount, history>>

MaxAir == CHOOSE a \in Airtimes : \A b \in Airtimes : b <= a
RestCap == Factor * MaxAir + 1

Listening == receiving /\ configured /\ ~stuck /\ rfPath = "rx"

\* CooperativeRadioOwner::new, after MeshRadio::init succeeded
RadioInit ==
    /\ receiving = FALSE /\ configured = TRUE /\ stuck = FALSE /\ irq = 0
    /\ faults = MaxFaults
    /\ rfPath = "rx" /\ txActive = FALSE /\ ready = FALSE
    /\ rxStarted = FALSE /\ errors = 0
    /\ rxWait = RxDelay /\ txWait = 0 /\ lastAir = 0
    /\ txQueue = <<>> /\ rxQueue = <<>>
    /\ pc = "idle" /\ sending = 0 /\ sent = FALSE
    /\ txCount = 0 /\ rxCount = 0
    /\ aired = 0 /\ rest = 0 /\ booked = TRUE /\ taken = 0

-----------------------------------------------------------------------------
(* A group of commands succeeds, or one of them fails: always when BUSY is *)
(* stuck (every command first waits on BUSY), else at the cost of a fault. *)
Commands(ok) ==
    \/ ok /\ ~stuck /\ UNCHANGED faults
    \/ ~ok /\ stuck /\ UNCHANGED faults
    \/ ~ok /\ ~stuck /\ faults > 0 /\ faults' = faults - 1

\* The environment: time, the air, and the chip hanging.
Tick ==
    /\ pc = "idle"
    /\ rxWait' = IF rxWait = 0 THEN 0 ELSE rxWait - 1
    /\ txWait' = IF txWait = 0 THEN 0 ELSE txWait - 1
    /\ rest' = IF rest = RestCap THEN rest ELSE rest + 1
    /\ UNCHANGED <<chip, faults, owner, lastAir, txQueue, rxQueue, pc, sender,
                   txCount, rxCount, aired, booked, taken>>

Hear ==
    /\ Listening
    /\ rxCount < MaxRx
    /\ rxCount' = rxCount + 1
    /\ irq' = rxCount + 1
    /\ UNCHANGED <<receiving, configured, stuck, faults, owner, waits, txQueue,
                   rxQueue, pc, sender, txCount, history>>

Hang ==
    /\ ~stuck
    /\ faults > 0
    /\ faults' = faults - 1
    /\ stuck' = TRUE
    /\ UNCHANGED <<receiving, configured, irq, owner, waits, txQueue, rxQueue,
                   pc, sender, txCount, rxCount, history>>

-----------------------------------------------------------------------------
\* The MeshCore client, which runs between passes and polls only a ready radio.
EnqueueTx ==
    /\ pc = "idle"
    /\ ready
    /\ txCount < MaxTx
    /\ Len(txQueue) < TxCap
    /\ txCount' = txCount + 1
    /\ txQueue' = Append(txQueue, txCount + 1)
    /\ UNCHANGED <<chip, faults, owner, waits, rxQueue, pc, sender, rxCount,
                   history>>

DequeueRx ==
    /\ pc = "idle"
    /\ rxQueue # <<>>
    /\ taken' = Head(rxQueue)
    /\ rxQueue' = Tail(rxQueue)
    /\ UNCHANGED <<chip, faults, owner, waits, txQueue, pc, sender, txCount,
                   rxCount, aired, rest, booked>>

-----------------------------------------------------------------------------
\* Changed: the error is only logged.
RecordErrorUncounted(next) ==
    /\ pc' = next
    /\ UNCHANGED errors

\* record_radio_io_error: count, and at the threshold go on to the reset.
RecordError(next) ==
    /\ errors' = errors + 1
    /\ pc' = IF errors + 1 < Threshold THEN next ELSE "reinit"

\* The first part of service: start reception once its delay is over.
StartPass ==
    /\ pc = "idle"
    /\ rxStarted \/ rxWait > 0
    /\ pc' = IF rxStarted THEN "poll" ELSE "tx"
    /\ sending' = 0 /\ sent' = FALSE
    /\ UNCHANGED <<chip, faults, owner, waits, txQueue, rxQueue, txCount,
                   rxCount, history>>

StartRx ==
    /\ pc = "idle"
    /\ ~rxStarted
    /\ rxWait = 0
    /\ \E ok \in BOOLEAN :
          /\ Commands(ok)
          /\ rxStarted' = ok
          /\ ready' = ok
          /\ receiving' = (receiving \/ ok)
          /\ irq' = IF ok THEN 0 ELSE irq
          /\ pc' = IF ok THEN "poll" ELSE "tx"
    /\ sending' = 0 /\ sent' = FALSE
    /\ UNCHANGED <<configured, stuck, rfPath, txActive, errors, waits, txQueue,
                   rxQueue, txCount, rxCount, history>>

\* poll_receive: no interrupt, whatever mode the chip is in.
PollNothing ==
    /\ pc = "poll"
    /\ ~stuck
    /\ irq = 0
    /\ errors' = 0
    /\ pc' = "tx"
    /\ UNCHANGED <<chip, faults, rfPath, txActive, ready, rxStarted, waits,
                   txQueue, rxQueue, sender, txCount, rxCount, aired, rest,
                   booked, taken>>

\* Changed: reception is re-armed, the interrupt not cleared.
RearmUncleared ==
    /\ receiving' = TRUE
    /\ UNCHANGED <<irq, faults>>

\* Clear the interrupt and receive again; errors of the two are ignored.
Rearm ==
    \/ irq' = 0 /\ receiving' = TRUE /\ UNCHANGED faults
    \/ /\ faults > 0 /\ faults' = faults - 1
       /\ irq' \in {0, irq}
       /\ UNCHANGED receiving

\* poll_receive: queue the frame if it is intact and there is room.
PollFrame ==
    /\ pc = "poll"
    /\ ~stuck
    /\ irq # 0
    /\ errors' = 0
    /\ pc' = "tx"
    /\ \/ UNCHANGED rxQueue
       \/ Len(rxQueue) < RxCap /\ rxQueue' = Append(rxQueue, irq)
    /\ Rearm
    /\ UNCHANGED <<configured, stuck, rfPath, txActive, ready, rxStarted, waits,
                   txQueue, sender, txCount, rxCount, aired, rest, booked,
                   taken>>

PollError ==
    /\ pc = "poll"
    /\ Commands(FALSE)
    /\ RecordError("tx")
    /\ UNCHANGED <<chip, rfPath, txActive, ready, rxStarted, waits, txQueue,
                   rxQueue, sender, txCount, rxCount, aired, rest, booked,
                   taken>>

-----------------------------------------------------------------------------
\* Changed: the TX-active flag keeps the next frame waiting.
MayTransmitUnlessActive == txWait = 0 /\ txQueue # <<>> /\ ~txActive

MayTransmit == txWait = 0 /\ txQueue # <<>>

\* dequeue_tx_frame takes the head, whether or not it can then be sent.
AfterDequeue == Tail(txQueue)

\* Changed: the airtime itself is the pause.
AirtimePauseOnce == lastAir

AirtimePause == Factor * lastAir

NoTransmit ==
    /\ pc = "tx"
    /\ ~MayTransmit
    /\ pc' = "idle"
    /\ UNCHANGED <<chip, faults, owner, waits, txQueue, rxQueue, sender,
                   txCount, rxCount, history>>

\* transmit, up to set_tx_params.  A failure here returns at once.
BeginTransmit ==
    /\ pc = "tx"
    /\ MayTransmit
    /\ txQueue' = AfterDequeue
    /\ sending' = Head(txQueue)
    /\ sent' = FALSE
    /\ txActive' = TRUE
    /\ rfPath' = "tx"
    /\ \/ /\ Commands(TRUE)
          /\ receiving' = FALSE
          /\ pc' = "air"
          /\ UNCHANGED errors
       \/ /\ Commands(FALSE)
          /\ receiving' \in {FALSE, receiving}
          /\ RecordError("idle")
    /\ UNCHANGED <<configured, stuck, irq, ready, rxStarted, waits, rxQueue,
                   txCount, rxCount, history>>

\* transmit_inner: done, timed out, or failed; the frame may have left in each.
Air ==
    /\ pc = "air"
    /\ \/ /\ Commands(TRUE)
          /\ sent' = TRUE
          /\ lastAir' \in Airtimes
          /\ irq' = 0
          /\ aired' = sending
       \/ /\ Commands(FALSE) \/ Commands(TRUE)
          /\ irq' \in {0, irq}
          /\ aired' \in {sending, aired}
          /\ UNCHANGED <<sent, lastAir>>
    /\ rest' = IF aired' = aired THEN rest ELSE 0
    /\ booked' = (booked /\ aired' = aired)
    /\ rfPath' = "rx"
    /\ txActive' = FALSE
    /\ pc' = "restore"
    /\ UNCHANGED <<receiving, configured, stuck, ready, rxStarted, errors,
                   rxWait, txWait, txQueue, rxQueue, sending, txCount, rxCount,
                   taken>>

\* restore_rx, and what service makes of the result.
Restore ==
    /\ pc = "restore"
    /\ \E ok \in BOOLEAN :
          /\ Commands(ok)
          /\ receiving' = ok
          /\ irq' = IF ok THEN 0 ELSE irq
          /\ IF ok /\ sent
             THEN /\ errors' = 0
                  /\ txWait' = AirtimePause
                  /\ booked' = TRUE
                  /\ pc' = "idle"
             ELSE /\ RecordError("idle")
                  /\ UNCHANGED <<txWait, booked>>
    /\ UNCHANGED <<configured, stuck, rfPath, txActive, ready, rxStarted, rxWait,
                   lastAir, txQueue, rxQueue, sender, txCount, rxCount, aired,
                   rest, taken>>

\* reinit: reset, configure, receive.  Afterwards the owner carries on as if it
\* had worked.
Reinit ==
    /\ pc = "reinit"
    /\ rfPath' = "rx"
    /\ \/ /\ receiving' = TRUE /\ configured' = TRUE /\ stuck' = FALSE
          /\ irq' = 0
          /\ UNCHANGED faults
       \/ /\ faults > 0 /\ faults' = faults - 1
          /\ \/ UNCHANGED chip
             \/ /\ receiving' = FALSE /\ stuck' = FALSE /\ irq' = 0
                /\ configured' \in BOOLEAN
    /\ errors' = 0
    /\ rxStarted' = TRUE
    /\ ready' = TRUE
    /\ pc' = IF sending = 0 THEN "tx" ELSE "idle"
    /\ UNCHANGED <<txActive, waits, txQueue, rxQueue, sender, txCount, rxCount,
                   aired, rest, booked, taken>>

Service ==
    \/ StartPass \/ StartRx
    \/ PollNothing \/ PollFrame \/ PollError
    \/ NoTransmit \/ BeginTransmit \/ Air \/ Restore
    \/ Reinit

RadioNext == Service \/ Tick \/ Hear \/ Hang \/ EnqueueTx \/ DequeueRx

RadioSpec == RadioInit /\ [][RadioNext]_radioVars

\* Both main loops call service on every iteration, and every wait in it has a
\* timeout.  Time always passes; the model lets it pass only between passes
\* (service reads the clock once), hence the strong fairness.
RadioFairSpec == RadioSpec /\ WF_radioVars(Service) /\ SF_radioVars(Tick)

-----------------------------------------------------------------------------
\* The types; the error count stays below the threshold except on its way into
\* a reset, and the queues within their capacity.
RadioTypeOK ==
    /\ receiving \in BOOLEAN /\ configured \in BOOLEAN /\ stuck \in BOOLEAN
    /\ txActive \in BOOLEAN /\ ready \in BOOLEAN /\ rxStarted \in BOOLEAN
    /\ sent \in BOOLEAN /\ booked \in BOOLEAN
    /\ rfPath \in {"rx", "tx"}
    /\ faults \in 0 .. MaxFaults
    /\ errors \in 0 .. Threshold
    /\ errors = Threshold <=> pc = "reinit"
    /\ rxWait \in 0 .. RxDelay
    /\ txWait \in 0 .. Factor * MaxAir
    /\ lastAir \in Airtimes \cup {0}
    /\ txQueue \in Seq(1 .. MaxTx) /\ Len(txQueue) <= TxCap
    /\ rxQueue \in Seq(1 .. MaxRx) /\ Len(rxQueue) <= RxCap
    /\ pc \in {"idle", "poll", "tx", "air", "restore", "reinit"}
    /\ sending \in 0 .. MaxTx /\ txCount \in 0 .. MaxTx /\ aired \in 0 .. MaxTx
    /\ irq \in 0 .. MaxRx /\ rxCount \in 0 .. MaxRx /\ taken \in 0 .. MaxRx
    /\ rest \in 0 .. RestCap

\* After a transmission reported as sent, nothing goes on the air until Factor
\* times its airtime has passed, whatever failed or was reset in between.
SpacedAfterSent ==
    [][aired' # aired /\ aired # 0 /\ booked
          => rest >= Factor * lastAir]_radioVars

\* While no command has failed, the client gets the received frames in the
\* order they were heard and none twice.
HeardOnceInOrder ==
    faults = MaxFaults =>
        \A i \in 1 .. Len(rxQueue) :
            rxQueue[i] > IF i = 1 THEN taken ELSE rxQueue[i - 1]

\* Once reception was started, a chip that hangs is reset in the end.  (Before,
\* a failing start_rx is not counted as an error and nothing is queued.)
HangIsReset == (stuck /\ rxStarted) ~> ~stuck

\* Every queued frame leaves the queue, through all errors and resets.
QueueDrains ==
    \A n \in 1 .. MaxTx : (\E i \in 1 .. Len(txQueue) : txQueue[i] = n)
                             ~> (\A i \in 1 .. Len(txQueue) : txQueue[i] # n)

=============================================================================
