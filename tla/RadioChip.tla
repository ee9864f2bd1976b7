------------------------------ MODULE RadioChip ------------------------------
(***************************************************************************)
(* MeshRadio (mesh-radio radio.rs) and the SX1262 behind it, command by    *)
(* command, driven by the service pass of CooperativeRadioOwner.  Each     *)
(* operation is a list of commands.  One that fails may have taken effect  *)
(* or not, the chip hears and sends between any two of them, and it may    *)
(* hang.  RadioOwner has the queues and the timing and takes an operation  *)
(* as a step or two; here is what its commands leave behind in the chip.   *)
(***************************************************************************)
EXTENDS Integers, Sequences

CONSTANTS
    Threshold, \* RADIO_REINIT_ERROR_THRESHOLD
    MaxFaults  \* bound on failed commands and hangs

ASSUME ChipAssumption == Threshold \in Nat \ {0} /\ MaxFaults \in Nat

VARIABLES
    chip,        \* the SX1262: a record
    rfPath,      \* the board's RF switch
    op,          \* the operation under way, "idle" between service passes
    todo,        \* its commands still to be issued
    tried,       \* this pass took a frame from the TX queue
    txOk,        \* transmit_inner returned Ok
    rxStarted,   \* rx_started
    errors,      \* consecutive_errors
    faults,      \* faults the environment may still cause
    aired,       \* what was sent since the last SetTx, and how (history)
    resetFailed  \* the last reinit failed (history)

vars == <<chip, rfPath, op, todo, tried, txOk, rxStarted, errors, faults, aired,
          resetFailed>>

\* What a reset takes away and SX126x::init and the workarounds set: modulation
\* and everything before it, the interrupt mask, the sync word, the registers of
\* the errata other than the IQ polarity.  Regulator mode and image calibration
\* are left out: where they fail, the command after them may fail unsent.
Settings == {"modem", "irqs", "sync", "tuned"}

\* SX126x::reset: the chip restarts, in standby and without parameters.
AfterReset(c) ==
    [c EXCEPT !.mode = "standby", !.setup = {}, !.params = "none", !.iq = FALSE,
              !.irq = {}, !.busy = FALSE, !.held = FALSE]

\* What a command does to the chip.  Setting packet parameters undoes the IQ
\* polarity (erratum 15.4).
Effect(command, c) ==
    CASE command = "reset"    -> AfterReset(c)
      [] command = "standby"  -> [c EXCEPT !.mode = "standby"]
      [] command = "rx"       -> [c EXCEPT !.mode = "rx"]
      [] command = "tx"       -> [c EXCEPT !.mode = "tx"]
      [] command = "clear"    -> [c EXCEPT !.irq = {}]
      [] command = "write"    -> [c EXCEPT !.buffer = "this"]
      [] command = "rxparams" -> [c EXCEPT !.params = "rx", !.iq = FALSE]
      [] command = "txparams" -> [c EXCEPT !.params = "tx", !.iq = FALSE]
      [] command = "iq"       -> [c EXCEPT !.iq = TRUE]
      [] command = "power"    -> c
      [] OTHER                -> [c EXCEPT !.setup = @ \cup {command}]

-----------------------------------------------------------------------------
\* start_rx
StartRx == <<"tuned", "iq", "clear", "rx">>

\* SX126x::init
InitChip == <<"reset", "standby", "modem", "rxparams", "irqs", "sync">>

\* apply_init_workarounds
InitWorkarounds == <<"iq", "tuned">>

\* init and reinit up to start_rx; SX126x::init resets the chip a second time.
Configure == <<"reset", "standby">> \o InitChip \o InitWorkarounds

\* transmit up to transmit_inner
PrepareTx == <<"standby", "power">>

\* Changed: the interrupt flags of the last transmission stay.
SendFrameUncleared == <<"write", "standby", "txparams", "tuned", "iq", "tx">>

\* transmit_inner up to its wait
SendFrame == <<"clear", "write", "standby", "txparams", "tuned", "iq", "tx">>

\* Changed: the polarity is set before the parameters that undo it.
RestoreRxReordered ==
    <<"standby", "tuned", "iq", "rxparams", "clear", "rx">>

\* restore_rx
RestoreRx == <<"standby", "rxparams", "tuned", "iq", "clear", "rx">>

\* The end of poll_receive
Rearm == <<"clear", "rx">>

-----------------------------------------------------------------------------
\* The chip and the board after MeshRadio::init succeeded
Init ==
    /\ chip = [mode |-> "standby", setup |-> Settings, params |-> "rx",
               iq |-> TRUE, irq |-> {}, buffer |-> "other",
               busy |-> FALSE, held |-> FALSE]
    /\ rfPath = "rx"
    /\ op = "idle" /\ todo = <<>> /\ tried = FALSE /\ txOk = FALSE
    /\ rxStarted = FALSE /\ errors = 0
    /\ faults = MaxFaults
    /\ aired = {} /\ resetFailed = FALSE

Awake == ~chip.busy /\ ~chip.held

\* A command gets through, or fails: for nothing while BUSY is high.
Works == Awake /\ UNCHANGED faults
Fails ==
    \/ ~Awake /\ UNCHANGED faults
    \/ Awake /\ faults > 0 /\ faults' = faults - 1

\* wait_on_busy and wait_busy_timeout fail before a command is sent, a transfer
\* may fail after.
FailedEffect(command) ==
    {chip} \cup (IF Awake THEN {Effect(command, chip)} ELSE {})

\* Of the environment: frames, whole or with a CRC error, the end of a
\* transmission, and a hang.  Both buffers are at address 0.
Raise(flags) == IF "irqs" \in chip.setup THEN chip.irq \cup flags ELSE chip.irq

Hear ==
    /\ Awake /\ chip.mode = "rx" /\ {"modem", "sync"} \subseteq chip.setup
    /\ \E flags \in {{"rx_done"}, {"rx_done", "crc_err"}} :
          chip' = [chip EXCEPT !.irq = Raise(flags), !.buffer = "other"]
    /\ UNCHANGED <<rfPath, op, todo, tried, txOk, rxStarted, errors, faults,
                   aired, resetFailed>>

TxEnds ==
    /\ Awake /\ chip.mode = "tx"
    /\ \/ /\ chip' = [chip EXCEPT !.mode = "standby", !.irq = Raise({"tx_done"})]
          /\ aired' = aired \cup
                {[frame |-> chip.buffer,
                  clean |-> /\ chip.setup = Settings /\ chip.params = "tx"
                            /\ chip.iq /\ rfPath = "tx"]}
       \/ /\ chip' = [chip EXCEPT !.mode = "standby", !.irq = Raise({"timeout"})]
          /\ UNCHANGED aired
    /\ UNCHANGED <<rfPath, op, todo, tried, txOk, rxStarted, errors, faults,
                   resetFailed>>

Hang ==
    /\ Awake /\ faults > 0
    /\ faults' = faults - 1
    /\ chip' = [chip EXCEPT !.busy = TRUE]
    /\ UNCHANGED <<rfPath, op, todo, tried, txOk, rxStarted, errors, aired,
                   resetFailed>>

-----------------------------------------------------------------------------
\* Changed: repeated errors are only counted.
CountErrorOnly(next) ==
    /\ errors' = IF errors < Threshold THEN errors + 1 ELSE errors
    /\ op' = next /\ todo' = <<>>
    /\ UNCHANGED rfPath

\* record_radio_io_error: at the threshold reinit takes over, and the pass goes
\* on afterwards.
CountError(next) ==
    /\ errors' = errors + 1
    /\ IF errors + 1 < Threshold
       THEN op' = next /\ todo' = <<>> /\ UNCHANGED rfPath
       ELSE op' = "reset" /\ todo' = Configure \o StartRx /\ rfPath' = "rx"

\* The next command of an operation gets through.
Issue ==
    /\ todo # <<>>
    /\ \/ Works
       \/ Head(todo) = "reset" /\ UNCHANGED faults
    /\ chip' = Effect(Head(todo), chip)
    /\ todo' = Tail(todo)
    /\ aired' = IF Head(todo) = "tx" THEN {} ELSE aired
    /\ UNCHANGED <<rfPath, op, tried, txOk, rxStarted, errors, resetFailed>>

\* start_rx fails: it is logged, and tried again in the next pass.  Until it
\* works the client queues nothing.
StartFails ==
    /\ op = "start" /\ todo # <<>>
    /\ Fails
    /\ chip' \in FailedEffect(Head(todo))
    /\ op' = "decide" /\ todo' = <<>>
    /\ UNCHANGED <<rfPath, tried, txOk, rxStarted, errors, aired, resetFailed>>

\* Errors of clearing the flags and re-arming are ignored.
RearmFails ==
    /\ op = "rearm" /\ todo # <<>>
    /\ Fails
    /\ chip' \in FailedEffect(Head(todo))
    /\ todo' = Tail(todo)
    /\ UNCHANGED <<rfPath, op, tried, txOk, rxStarted, errors, aired, resetFailed>>

\* A failure before transmit_inner returns at once, on the TX path.
PrepareFails ==
    /\ op = "prepare" /\ todo # <<>>
    /\ Fails
    /\ chip' \in FailedEffect(Head(todo))
    /\ CountError("idle")
    /\ UNCHANGED <<tried, txOk, rxStarted, aired, resetFailed>>

\* A failure of transmit_inner is kept until reception was restored.
SendFails ==
    /\ op = "send" /\ todo # <<>>
    /\ Fails
    /\ chip' \in FailedEffect(Head(todo))
    /\ op' = "restore" /\ todo' = RestoreRx
    /\ rfPath' = "rx"
    /\ UNCHANGED <<tried, txOk, rxStarted, errors, aired, resetFailed>>

RestoreFails ==
    /\ op = "restore" /\ todo # <<>>
    /\ Fails
    /\ chip' \in FailedEffect(Head(todo))
    /\ CountError("idle")
    /\ UNCHANGED <<tried, txOk, rxStarted, aired, resetFailed>>

\* What follows a reinit, failed or not: the owner goes on as if it had worked.
Resume ==
    /\ errors' = 0
    /\ rxStarted' = TRUE
    /\ op' = IF tried THEN "idle" ELSE "decide"
    /\ todo' = <<>>

\* reinit fails; in reset(), the line may stay low.
ResetFails ==
    /\ op = "reset" /\ todo # <<>>
    /\ IF Head(todo) = "reset"
       THEN /\ faults > 0 /\ faults' = faults - 1
            /\ chip' \in {chip, [AfterReset(chip) EXCEPT !.held = TRUE]}
       ELSE /\ Fails
            /\ chip' \in FailedEffect(Head(todo))
    /\ resetFailed' = TRUE
    /\ Resume
    /\ UNCHANGED <<rfPath, tried, txOk, aired>>

-----------------------------------------------------------------------------
\* One pass of service.
BeginPass ==
    /\ op = "idle"
    /\ op' = IF rxStarted THEN "poll" ELSE "start"
    /\ todo' = IF rxStarted THEN <<>> ELSE StartRx
    /\ tried' = FALSE
    /\ UNCHANGED <<chip, rfPath, txOk, rxStarted, errors, faults, aired, resetFailed>>

Started ==
    /\ op = "start" /\ todo = <<>>
    /\ rxStarted' = TRUE
    /\ op' = "poll"
    /\ UNCHANGED <<chip, rfPath, todo, tried, txOk, errors, faults, aired, resetFailed>>

\* poll_receive: without a flag of reception the chip is left as it is; else the
\* frame is read, if whole, by commands that change nothing, and reception is
\* armed again.
Poll ==
    /\ op = "poll"
    /\ \/ /\ Works
          /\ LET seen == chip.irq \cap {"rx_done", "timeout", "crc_err"} # {}
             IN  /\ op' = IF seen THEN "rearm" ELSE "decide"
                 /\ todo' = IF seen THEN Rearm ELSE <<>>
          /\ errors' = 0
          /\ UNCHANGED rfPath
       \/ /\ Fails
          /\ CountError("decide")
    /\ UNCHANGED <<chip, tried, txOk, rxStarted, aired, resetFailed>>

Rearmed ==
    /\ op = "rearm" /\ todo = <<>>
    /\ op' = "decide"
    /\ UNCHANGED <<chip, rfPath, todo, tried, txOk, rxStarted, errors, faults,
                   aired, resetFailed>>

\* The TX queue is empty or the airtime pause not over.
EndPass ==
    /\ op = "decide"
    /\ op' = "idle"
    /\ UNCHANGED <<chip, rfPath, todo, tried, txOk, rxStarted, errors, faults,
                   aired, resetFailed>>

Transmit ==
    /\ op = "decide" /\ rxStarted
    /\ op' = "prepare" /\ todo' = PrepareTx
    /\ rfPath' = "tx"
    /\ tried' = TRUE /\ txOk' = FALSE
    /\ chip' = [chip EXCEPT !.buffer = "other"]
    /\ UNCHANGED <<rxStarted, errors, faults, aired, resetFailed>>

Prepared ==
    /\ op = "prepare" /\ todo = <<>>
    /\ op' = "send" /\ todo' = SendFrame
    /\ UNCHANGED <<chip, rfPath, tried, txOk, rxStarted, errors, faults, aired, resetFailed>>

\* The wait of transmit_inner ends: sent, and the flags cleared if that works;
\* out of time, by the chip's timer or, later, its own; or the flags cannot be
\* read.
Await ==
    /\ op = "send" /\ todo = <<>>
    /\ \/ /\ Awake /\ "tx_done" \in chip.irq
          /\ txOk' = TRUE
          /\ \/ chip' = Effect("clear", chip) /\ UNCHANGED faults
             \/ Fails /\ UNCHANGED chip
       \/ /\ Awake /\ "tx_done" \notin chip.irq
          /\ "timeout" \in chip.irq \/ chip.mode # "tx"
          /\ UNCHANGED <<chip, txOk, faults>>
       \/ Fails /\ UNCHANGED <<chip, txOk>>
    /\ op' = "restore" /\ todo' = RestoreRx
    /\ rfPath' = "rx"
    /\ UNCHANGED <<tried, rxStarted, errors, aired, resetFailed>>

Restored ==
    /\ op = "restore" /\ todo = <<>>
    /\ IF txOk
       THEN /\ errors' = 0 /\ op' = "idle"
            /\ UNCHANGED <<todo, rfPath>>
       ELSE CountError("idle")
    /\ UNCHANGED <<chip, tried, txOk, rxStarted, faults, aired, resetFailed>>

Reset ==
    /\ op = "reset" /\ todo = <<>>
    /\ resetFailed' = FALSE
    /\ Resume
    /\ UNCHANGED <<chip, rfPath, tried, txOk, faults, aired>>

Service ==
    \/ Issue
    \/ StartFails \/ RearmFails \/ PrepareFails \/ SendFails \/ RestoreFails
    \/ ResetFails
    \/ BeginPass \/ Started \/ Poll \/ Rearmed \/ EndPass \/ Transmit
    \/ Prepared \/ Await \/ Restored \/ Reset

Next == Service \/ Hear \/ TxEnds \/ Hang

Spec == Init /\ [][Next]_vars

\* Both main loops call service again and again and every wait in it ends; the
\* chip ends a transmission by its own timer at the latest; and the scheduler
\* polls, so that there is a frame to transmit again and again.
FairSpec ==
    /\ Spec
    /\ WF_vars(Service)
    /\ WF_vars(TxEnds)
    /\ SF_vars(Transmit)

-----------------------------------------------------------------------------
ChipTypeOK ==
    /\ chip \in [mode : {"standby", "rx", "tx"}, setup : SUBSET Settings,
                 params : {"none", "rx", "tx"}, iq : BOOLEAN,
                 irq : SUBSET {"rx_done", "crc_err", "tx_done", "timeout"},
                 buffer : {"this", "other"}, busy : BOOLEAN, held : BOOLEAN]
    /\ rfPath \in {"rx", "tx"}
    /\ op \in {"idle", "start", "poll", "rearm", "decide", "prepare", "send",
               "restore", "reset"}
    /\ tried \in BOOLEAN /\ txOk \in BOOLEAN
    /\ rxStarted \in BOOLEAN /\ resetFailed \in BOOLEAN
    /\ errors \in 0 .. Threshold /\ faults \in 0 .. MaxFaults

SetToReceive ==
    /\ chip.mode = "rx" /\ chip.setup = Settings /\ chip.params = "rx" /\ chip.iq
    /\ rfPath = "rx"

Listening == SetToReceive /\ Awake

\* When transmit reports a frame as sent, this frame and nothing else left the
\* antenna, once, and, unless a reset has failed, with the parameters, the
\* polarity and the RF path of a transmission.
SentIsOurs ==
    op = "restore" /\ txOk =>
        \E clean \in BOOLEAN : /\ aired = {[frame |-> "this", clean |-> clean]}
                               /\ clean \/ resetFailed

\* Reception that start_rx, a restore after a transmission or a reset reports as
\* running is set up in full, whatever failed before.
SuccessListens ==
    \/ op = "reset" /\ todo = <<>>
    \/ op \in {"start", "restore"} /\ todo = <<>> /\ ~resetFailed
    => SetToReceive

\* As long as no reset fails, a radio that no longer listens does so again:
\* after failed restores, hangs and transmissions that never ended.
DeafnessEnds == rxStarted /\ ~Listening ~> Listening \/ resetFailed

\* The radio-owning task keeps the device in continuous RX.
KeepsListening == rxStarted /\ ~Listening ~> Listening
=============================================================================
