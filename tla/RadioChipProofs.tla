--------------------------- MODULE RadioChipProofs ---------------------------
(***************************************************************************)
(* Proofs about RadioChip, for every error threshold and any number of     *)
(* failed commands and hangs: what the lists of commands leave behind,     *)
(* wherever one of them failed.                                            *)
(***************************************************************************)
EXTENDS RadioChip, TLAPS

Command == {"reset", "standby", "modem", "rxparams", "irqs", "sync", "iq", "tuned",
            "clear", "rx", "write", "txparams", "power", "tx"}

ChipState ==
    [mode : {"standby", "rx", "tx"}, setup : SUBSET Settings,
     params : {"none", "rx", "tx"}, iq : BOOLEAN,
     irq : SUBSET {"rx_done", "crc_err", "tx_done", "timeout"},
     buffer : {"this", "other"}, busy : BOOLEAN, held : BOOLEAN]

\* The commands of each operation.
ResetChip == Configure \o StartRx
Program(o) ==
    CASE o = "start"   -> StartRx
      [] o = "rearm"   -> Rearm
      [] o = "prepare" -> PrepareTx
      [] o = "send"    -> SendFrame
      [] o = "restore" -> RestoreRx
      [] o = "reset"   -> ResetChip
      [] OTHER         -> <<>>

\* What is left to do of an operation is the end of its program.
EndOf(left, list) ==
    /\ left \in Seq(Command) /\ Len(left) <= Len(list)
    /\ \A i \in 1 .. Len(left) : left[i] = list[Len(list) - Len(left) + i]

TodoInv == EndOf(todo, Program(op))

\* The chip keeps its settings but for resets, and the error count the threshold.
ConfiguredInv ==
    /\ op # "reset" /\ ~resetFailed => chip.setup = Settings
    /\ op # "reset" => errors < Threshold

\* Before reception was started for the first time, nothing but start_rx touches
\* the chip.
StartInv ==
    /\ ~rxStarted => /\ op \in {"idle", "start", "decide"}
                     /\ chip.params = "rx" /\ chip.iq /\ rfPath = "rx"
                     /\ chip.mode # "tx" /\ ~resetFailed
    /\ op = "start" => ~rxStarted
    /\ op = "start" /\ Len(todo) = 0 => chip.mode = "rx"

\* Exactly this frame has left the antenna, as it should unless a reset had failed.
Ours == \E clean \in BOOLEAN : /\ aired = {[frame |-> "this", clean |-> clean]}
                               /\ clean \/ resetFailed

\* The way into a transmission: how much of it is done is how much is left to do.
SendInv ==
    /\ op \in {"prepare", "send"} => rfPath = "tx" /\ ~txOk
    /\ op = "prepare" /\ Len(todo) <= 1 => chip.mode = "standby"
    /\ op = "send" =>
          /\ Len(todo) >= 1 => chip.mode = "standby"
          /\ Len(todo) \in 1 .. 6 => chip.irq = {}
          /\ Len(todo) <= 5 => chip.buffer = "this"
          /\ Len(todo) <= 3 => chip.params = "tx"
          /\ Len(todo) <= 1 => chip.iq
          /\ Len(todo) = 0 =>
                /\ chip.mode # "rx"
                /\ chip.mode = "tx" => aired = {} /\ chip.irq = {}
                /\ aired = {} \/ Ours
                /\ "tx_done" \in chip.irq => Ours

\* The way back: what was sent is over, and reception comes together.
RestoreInv ==
    op = "restore" =>
        /\ rfPath = "rx"
        /\ txOk => Ours /\ chip.mode # "tx"
        /\ Len(todo) <= 4 => chip.params = "rx"
        /\ Len(todo) <= 2 => chip.iq
        /\ Len(todo) = 0 => chip.mode = "rx"

\* The second reset of reinit takes everything away, the commands after it bring
\* it back one by one.
ResetInv ==
    op = "reset" =>
        /\ rfPath = "rx"
        /\ Len(todo) <= 9 => "modem" \in chip.setup
        /\ Len(todo) <= 8 => chip.params = "rx"
        /\ Len(todo) <= 7 => "irqs" \in chip.setup
        /\ Len(todo) <= 6 => "sync" \in chip.setup
        /\ Len(todo) <= 5 => chip.iq
        /\ Len(todo) <= 4 => "tuned" \in chip.setup
        /\ Len(todo) = 0 => chip.mode = "rx"

FlowInv == ConfiguredInv /\ StartInv /\ SendInv /\ RestoreInv /\ ResetInv

ChipInv == ChipTypeOK /\ TodoInv /\ FlowInv

-----------------------------------------------------------------------------
\* The programs, command by command, the last one first.
LEMMA Programs ==
    /\ StartRx \in Seq(Command) /\ Len(StartRx) = 4
    /\ StartRx[1] = "tuned" /\ StartRx[2] = "iq" /\ StartRx[3] = "clear" /\ StartRx[4] = "rx"
    /\ Rearm \in Seq(Command) /\ Len(Rearm) = 2 /\ Rearm[1] = "clear" /\ Rearm[2] = "rx"
    /\ PrepareTx \in Seq(Command) /\ Len(PrepareTx) = 2
    /\ PrepareTx[1] = "standby" /\ PrepareTx[2] = "power"
    /\ SendFrame \in Seq(Command) /\ Len(SendFrame) = 7
    /\ SendFrame[1] = "clear" /\ SendFrame[2] = "write" /\ SendFrame[3] = "standby"
    /\ SendFrame[4] = "txparams" /\ SendFrame[5] = "tuned" /\ SendFrame[6] = "iq"
    /\ SendFrame[7] = "tx"
    /\ RestoreRx \in Seq(Command) /\ Len(RestoreRx) = 6
    /\ RestoreRx[1] = "standby" /\ RestoreRx[2] = "rxparams" /\ RestoreRx[3] = "tuned"
    /\ RestoreRx[4] = "iq" /\ RestoreRx[5] = "clear" /\ RestoreRx[6] = "rx"
<1>1. /\ StartRx \in Seq(Command) /\ Len(StartRx) = 4
      /\ StartRx[1] = "tuned" /\ StartRx[2] = "iq" /\ StartRx[3] = "clear" /\ StartRx[4] = "rx"
  BY DEF StartRx, Command
<1>2. /\ Rearm \in Seq(Command) /\ Len(Rearm) = 2 /\ Rearm[1] = "clear" /\ Rearm[2] = "rx"
      /\ PrepareTx \in Seq(Command) /\ Len(PrepareTx) = 2
      /\ PrepareTx[1] = "standby" /\ PrepareTx[2] = "power"
  BY DEF Rearm, PrepareTx, Command
<1>3. /\ SendFrame \in Seq(Command) /\ Len(SendFrame) = 7
      /\ SendFrame[1] = "clear" /\ SendFrame[2] = "write" /\ SendFrame[3] = "standby"
      /\ SendFrame[4] = "txparams" /\ SendFrame[5] = "tuned" /\ SendFrame[6] = "iq"
      /\ SendFrame[7] = "tx"
  BY DEF SendFrame, Command
<1>4. /\ RestoreRx \in Seq(Command) /\ Len(RestoreRx) = 6
      /\ RestoreRx[1] = "standby" /\ RestoreRx[2] = "rxparams" /\ RestoreRx[3] = "tuned"
      /\ RestoreRx[4] = "iq" /\ RestoreRx[5] = "clear" /\ RestoreRx[6] = "rx"
  BY DEF RestoreRx, Command
<1> QED
  BY <1>1, <1>2, <1>3, <1>4

LEMMA Concatenation ==
    ASSUME NEW a \in Seq(Command), NEW b \in Seq(Command)
    PROVE  /\ a \o b \in Seq(Command) /\ Len(a \o b) = Len(a) + Len(b)
           /\ \A i \in 1 .. Len(a) : (a \o b)[i] = a[i]
           /\ \A i \in 1 .. Len(b) : (a \o b)[Len(a) + i] = b[i]
OBVIOUS

LEMMA ResetProgram ==
    /\ ResetChip \in Seq(Command) /\ Len(ResetChip) = 14
    /\ ResetChip[1] = "reset" /\ ResetChip[2] = "standby" /\ ResetChip[3] = "reset"
    /\ ResetChip[4] = "standby" /\ ResetChip[5] = "modem" /\ ResetChip[6] = "rxparams"
    /\ ResetChip[7] = "irqs" /\ ResetChip[8] = "sync" /\ ResetChip[9] = "iq"
    /\ ResetChip[10] = "tuned" /\ ResetChip[11] = "tuned" /\ ResetChip[12] = "iq"
    /\ ResetChip[13] = "clear" /\ ResetChip[14] = "rx"
<1> DEFINE first == <<"reset", "standby">>
           second == first \o InitChip
<1>1. /\ first \in Seq(Command) /\ Len(first) = 2 /\ first[1] = "reset" /\ first[2] = "standby"
  BY DEF Command
<1>2. /\ InitChip \in Seq(Command) /\ Len(InitChip) = 6
      /\ InitChip[1] = "reset" /\ InitChip[2] = "standby" /\ InitChip[3] = "modem"
      /\ InitChip[4] = "rxparams" /\ InitChip[5] = "irqs" /\ InitChip[6] = "sync"
  BY DEF InitChip, Command
<1>3. /\ InitWorkarounds \in Seq(Command) /\ Len(InitWorkarounds) = 2
      /\ InitWorkarounds[1] = "iq" /\ InitWorkarounds[2] = "tuned"
  BY DEF InitWorkarounds, Command
<1> HIDE DEF first
<1>4. /\ second \in Seq(Command) /\ Len(second) = 8
      /\ second[1] = "reset" /\ second[2] = "standby" /\ second[3] = "reset"
      /\ second[4] = "standby" /\ second[5] = "modem" /\ second[6] = "rxparams"
      /\ second[7] = "irqs" /\ second[8] = "sync"
  <2>1. /\ second \in Seq(Command) /\ Len(second) = 2 + 6
        /\ \A i \in 1 .. 2 : second[i] = first[i]
        /\ \A i \in 1 .. 6 : second[2 + i] = InitChip[i]
    <3>1. /\ second \in Seq(Command) /\ Len(second) = Len(first) + Len(InitChip)
          /\ \A i \in 1 .. Len(first) : second[i] = first[i]
          /\ \A i \in 1 .. Len(InitChip) : second[Len(first) + i] = InitChip[i]
      BY <1>1, <1>2, Concatenation, Zenon
    <3> HIDE DEF second
    <3> QED
      BY <1>1, <1>2, <3>1
  <2> HIDE DEF second
  <2>2. /\ second[2 + 1] = "reset" /\ second[2 + 2] = "standby" /\ second[2 + 3] = "modem"
        /\ second[2 + 4] = "rxparams" /\ second[2 + 5] = "irqs" /\ second[2 + 6] = "sync"
        /\ second[1] = "reset" /\ second[2] = "standby"
    BY <1>1, <1>2, <2>1
  <2> QED
    BY <2>1, <2>2
<1> HIDE DEF second
<1>5. /\ Configure \in Seq(Command) /\ Len(Configure) = 10
      /\ \A i \in 1 .. 8 : Configure[i] = second[i]
      /\ Configure[9] = "iq" /\ Configure[10] = "tuned"
  <2>1. Configure = second \o InitWorkarounds
    BY Zenon DEF Configure, second, first
  <2>2. /\ Configure \in Seq(Command) /\ Len(Configure) = 8 + 2
        /\ \A i \in 1 .. 8 : Configure[i] = second[i]
        /\ \A i \in 1 .. 2 : Configure[8 + i] = InitWorkarounds[i]
    <3>1. /\ Configure \in Seq(Command) /\ Len(Configure) = Len(second) + Len(InitWorkarounds)
          /\ \A i \in 1 .. Len(second) : Configure[i] = second[i]
          /\ \A i \in 1 .. Len(InitWorkarounds) : Configure[Len(second) + i] = InitWorkarounds[i]
      BY <1>3, <1>4, <2>1, Concatenation, Zenon
    <3> QED
      BY <1>3, <1>4, <3>1
  <2>3. Configure[8 + 1] = "iq" /\ Configure[8 + 2] = "tuned"
    BY <1>3, <2>2
  <2> QED
    BY <2>2, <2>3
<1>6. /\ ResetChip \in Seq(Command) /\ Len(ResetChip) = 14
      /\ \A i \in 1 .. 10 : ResetChip[i] = Configure[i]
      /\ ResetChip[11] = "tuned" /\ ResetChip[12] = "iq" /\ ResetChip[13] = "clear"
      /\ ResetChip[14] = "rx"
  <2>1. /\ ResetChip \in Seq(Command) /\ Len(ResetChip) = 10 + 4
        /\ \A i \in 1 .. 10 : ResetChip[i] = Configure[i]
        /\ \A i \in 1 .. 4 : ResetChip[10 + i] = StartRx[i]
    <3>1. /\ ResetChip \in Seq(Command) /\ Len(ResetChip) = Len(Configure) + Len(StartRx)
          /\ \A i \in 1 .. Len(Configure) : ResetChip[i] = Configure[i]
          /\ \A i \in 1 .. Len(StartRx) : ResetChip[Len(Configure) + i] = StartRx[i]
      BY <1>5, Programs, Concatenation, Zenon DEF ResetChip
    <3> QED
      BY <1>5, <3>1, Programs
  <2>2. /\ ResetChip[10 + 1] = "tuned" /\ ResetChip[10 + 2] = "iq"
        /\ ResetChip[10 + 3] = "clear" /\ ResetChip[10 + 4] = "rx"
    BY <2>1, Programs
  <2> QED
    BY <2>1, <2>2
<1> QED
  BY <1>4, <1>5, <1>6

\* The next command of what is left, and what is left after it.
LEMMA Stepping ==
    ASSUME NEW list, Len(list) \in Nat, NEW left, EndOf(left, list), left # <<>>
    PROVE  /\ Len(left) \in 1 .. Len(list) /\ Head(left) \in Command
           /\ Head(left) = list[Len(list) - Len(left) + 1]
           /\ Len(Tail(left)) = Len(left) - 1 /\ EndOf(Tail(left), list)
<1>1. left \in Seq(Command) /\ Len(left) \in 1 .. Len(list)
  BY DEF EndOf
<1>2. /\ Head(left) \in Command /\ Head(left) = left[1] /\ Tail(left) \in Seq(Command)
      /\ Len(Tail(left)) = Len(left) - 1
      /\ \A i \in 1 .. Len(left) - 1 : Tail(left)[i] = left[i + 1]
  BY <1>1
<1>3. \A i \in 1 .. Len(left) - 1 : Tail(left)[i] = list[Len(list) - (Len(left) - 1) + i]
  <2> TAKE i \in 1 .. Len(left) - 1
  <2>1. i + 1 \in 1 .. Len(left) /\ Len(list) - (Len(left) - 1) + i = Len(list) - Len(left) + (i + 1)
    BY <1>1
  <2> QED
    BY <1>2, <2>1 DEF EndOf
<1> QED
  BY <1>1, <1>2, <1>3, SMTT(30) DEF EndOf

LEMMA NothingLeft ==
    ASSUME NEW list, Len(list) \in Nat
    PROVE  EndOf(<<>>, list) /\ Len(<<>>) = 0
BY DEF EndOf

LEMMA AllLeft ==
    ASSUME NEW list \in Seq(Command)
    PROVE  EndOf(list, list)
BY DEF EndOf

\* What a command does to each part of the chip: d is c after the command.
Took(command, c, d) ==
    /\ d \in ChipState
    /\ d.mode = IF command = "reset" THEN "standby"
                ELSE IF command \in {"standby", "rx", "tx"} THEN command
                ELSE c.mode
    /\ d.setup = IF command = "reset" THEN {}
                 ELSE IF command \in Settings THEN c.setup \cup {command}
                 ELSE c.setup
    /\ d.params = IF command = "reset" THEN "none"
                  ELSE IF command = "rxparams" THEN "rx"
                  ELSE IF command = "txparams" THEN "tx"
                  ELSE c.params
    /\ d.iq <=> /\ command \notin {"reset", "rxparams", "txparams"}
                /\ command = "iq" \/ c.iq
    /\ d.irq = IF command \in {"reset", "clear"} THEN {} ELSE c.irq
    /\ d.buffer = IF command = "write" THEN "this" ELSE c.buffer

LEMMA Effects ==
    ASSUME NEW c \in ChipState, NEW command \in Command
    PROVE  Took(command, c, Effect(command, c))
<1>1. CASE command = "reset"
  BY <1>1 DEF Took, Effect, AfterReset, ChipState, Settings
<1>2. CASE command \in {"standby", "rx", "tx"}
  BY <1>2 DEF Took, Effect, ChipState, Settings
<1>3. CASE command \in {"clear", "write", "rxparams"}
  BY <1>3 DEF Took, Effect, ChipState, Settings
<1>4. CASE command \in {"txparams", "iq", "power"}
  BY <1>4 DEF Took, Effect, ChipState, Settings
<1>5. CASE command \in Settings
  BY <1>5 DEF Took, Effect, ChipState, Settings
<1> QED
  BY <1>1, <1>2, <1>3, <1>4, <1>5 DEF Command, Settings

LEMMA ProgramTypes ==
    /\ \A o : Program(o) \in Seq(Command) /\ Len(Program(o)) \in Nat
    /\ Program("start") = StartRx /\ Program("rearm") = Rearm
    /\ Program("prepare") = PrepareTx /\ Program("send") = SendFrame
    /\ Program("restore") = RestoreRx /\ Program("reset") = ResetChip
    /\ Program("idle") = <<>> /\ Program("poll") = <<>> /\ Program("decide") = <<>>
<1>1. \A o : Program(o) \in {StartRx, Rearm, PrepareTx, SendFrame, RestoreRx, ResetChip, <<>>}
  BY Zenon DEF Program
<1>2. <<>> \in Seq(Command)
  OBVIOUS
<1>3. \A o : Program(o) \in Seq(Command)
  BY <1>1, <1>2, Programs, ResetProgram, Zenon
<1>4. \A p \in Seq(Command) : Len(p) \in Nat
  OBVIOUS
<1>5. /\ Program("start") = StartRx /\ Program("rearm") = Rearm
      /\ Program("prepare") = PrepareTx /\ Program("send") = SendFrame
      /\ Program("restore") = RestoreRx /\ Program("reset") = ResetChip
      /\ Program("idle") = <<>> /\ Program("poll") = <<>> /\ Program("decide") = <<>>
  BY DEF Program
<1> QED
  BY <1>3, <1>4, <1>5, Zenon

\* Where an operation stands: the next command, and one less afterwards.  No
\* operation but reinit resets the chip.
LEMMA NextCommand ==
    ASSUME TodoInv, todo # <<>>
    PROVE  /\ Len(todo) \in Nat /\ Len(todo) >= 1 /\ Head(todo) \in Command
           /\ Len(Tail(todo)) = Len(todo) - 1
           /\ EndOf(Tail(todo), Program(op))
           /\ Len(todo) \in 1 .. Len(Program(op))
           /\ Head(todo) = Program(op)[Len(Program(op)) - Len(todo) + 1]
<1>1. Len(Program(op)) \in Nat
  BY ProgramTypes, Zenon
<1>2. EndOf(todo, Program(op))
  BY DEF TodoInv
<1>3. /\ Len(todo) \in 1 .. Len(Program(op)) /\ Head(todo) \in Command
      /\ Head(todo) = Program(op)[Len(Program(op)) - Len(todo) + 1]
      /\ Len(Tail(todo)) = Len(todo) - 1 /\ EndOf(Tail(todo), Program(op))
  BY <1>1, <1>2, Stepping, Zenon
<1> QED
  BY <1>1, <1>3

LEMMA Heads ==
    ASSUME TodoInv, todo # <<>>
    PROVE  /\ op = "start" => Head(todo) \in {"tuned", "iq", "clear", "rx"}
           /\ op = "start" /\ Len(todo) = 1 => Head(todo) = "rx"
           /\ op = "rearm" => Head(todo) \in {"clear", "rx"}
           /\ op = "prepare" => /\ Len(todo) \in 1 .. 2
                                /\ Len(todo) = 2 => Head(todo) = "standby"
                                /\ Len(todo) = 1 => Head(todo) = "power"
           /\ op = "send" => /\ Len(todo) \in 1 .. 7
                             /\ Len(todo) = 7 => Head(todo) = "clear"
                             /\ Len(todo) = 6 => Head(todo) = "write"
                             /\ Len(todo) = 5 => Head(todo) = "standby"
                             /\ Len(todo) = 4 => Head(todo) = "txparams"
                             /\ Len(todo) = 3 => Head(todo) = "tuned"
                             /\ Len(todo) = 2 => Head(todo) = "iq"
                             /\ Len(todo) = 1 => Head(todo) = "tx"
           /\ op = "restore" => /\ Len(todo) \in 1 .. 6
                                /\ Len(todo) = 6 => Head(todo) = "standby"
                                /\ Len(todo) = 5 => Head(todo) = "rxparams"
                                /\ Len(todo) = 4 => Head(todo) = "tuned"
                                /\ Len(todo) = 3 => Head(todo) = "iq"
                                /\ Len(todo) = 2 => Head(todo) = "clear"
                                /\ Len(todo) = 1 => Head(todo) = "rx"
           /\ op = "reset" => /\ Len(todo) \in 1 .. 14
                              /\ Len(todo) = 10 => Head(todo) = "modem"
                              /\ Len(todo) = 9 => Head(todo) = "rxparams"
                              /\ Len(todo) = 8 => Head(todo) = "irqs"
                              /\ Len(todo) = 7 => Head(todo) = "sync"
                              /\ Len(todo) = 6 => Head(todo) = "iq"
                              /\ Len(todo) = 5 => Head(todo) = "tuned"
                              /\ Len(todo) = 4 => Head(todo) = "tuned"
                              /\ Len(todo) = 3 => Head(todo) = "iq"
                              /\ Len(todo) = 2 => Head(todo) = "clear"
                              /\ Len(todo) = 1 => Head(todo) = "rx"
           /\ op \in {"start", "rearm", "prepare", "send", "restore", "reset"}
<1> DEFINE n == Len(todo)
<1>1. /\ n \in 1 .. Len(Program(op)) /\ Head(todo) = Program(op)[Len(Program(op)) - n + 1]
  BY NextCommand
<1> HIDE DEF n
<1>2. CASE op = "start"
  <2>1. n \in 1 .. 4 /\ Head(todo) = StartRx[4 - n + 1]
    BY <1>1, <1>2, Programs, ProgramTypes
  <2>2. /\ n = 4 => Head(todo) = StartRx[1]
        /\ n = 3 => Head(todo) = StartRx[2]
        /\ n = 2 => Head(todo) = StartRx[3]
        /\ n = 1 => Head(todo) = StartRx[4]
    BY <2>1
  <2> QED
    BY <1>2, <2>1, <2>2, Programs DEF n
<1>3. CASE op = "rearm"
  <2>1. n \in 1 .. 2 /\ Head(todo) = Rearm[2 - n + 1]
    BY <1>1, <1>3, Programs, ProgramTypes
  <2>2. /\ n = 2 => Head(todo) = Rearm[1]
        /\ n = 1 => Head(todo) = Rearm[2]
    BY <2>1
  <2> QED
    BY <1>3, <2>1, <2>2, Programs DEF n
<1>4. CASE op = "prepare"
  <2>1. n \in 1 .. 2 /\ Head(todo) = PrepareTx[2 - n + 1]
    BY <1>1, <1>4, Programs, ProgramTypes
  <2>2. /\ n = 2 => Head(todo) = PrepareTx[1]
        /\ n = 1 => Head(todo) = PrepareTx[2]
    BY <2>1
  <2> QED
    BY <1>4, <2>1, <2>2, Programs DEF n
<1>5. CASE op = "send"
  <2>1. n \in 1 .. 7 /\ Head(todo) = SendFrame[7 - n + 1]
    BY <1>1, <1>5, Programs, ProgramTypes
  <2>2. /\ n = 7 => Head(todo) = SendFrame[1]
        /\ n = 6 => Head(todo) = SendFrame[2]
        /\ n = 5 => Head(todo) = SendFrame[3]
        /\ n = 4 => Head(todo) = SendFrame[4]
        /\ n = 3 => Head(todo) = SendFrame[5]
        /\ n = 2 => Head(todo) = SendFrame[6]
        /\ n = 1 => Head(todo) = SendFrame[7]
    BY <2>1
  <2> QED
    BY <1>5, <2>1, <2>2, Programs DEF n
<1>6. CASE op = "restore"
  <2>1. n \in 1 .. 6 /\ Head(todo) = RestoreRx[6 - n + 1]
    BY <1>1, <1>6, Programs, ProgramTypes
  <2>2. /\ n = 6 => Head(todo) = RestoreRx[1]
        /\ n = 5 => Head(todo) = RestoreRx[2]
        /\ n = 4 => Head(todo) = RestoreRx[3]
        /\ n = 3 => Head(todo) = RestoreRx[4]
        /\ n = 2 => Head(todo) = RestoreRx[5]
        /\ n = 1 => Head(todo) = RestoreRx[6]
    BY <2>1
  <2> QED
    BY <1>6, <2>1, <2>2, Programs DEF n
<1>7. CASE op = "reset"
  <2>1. n \in 1 .. 14 /\ Head(todo) = ResetChip[14 - n + 1]
    BY <1>1, <1>7, ResetProgram, ProgramTypes
  <2>2. /\ n = 10 => Head(todo) = ResetChip[5]
        /\ n = 9 => Head(todo) = ResetChip[6]
        /\ n = 8 => Head(todo) = ResetChip[7]
        /\ n = 7 => Head(todo) = ResetChip[8]
        /\ n = 6 => Head(todo) = ResetChip[9]
        /\ n = 5 => Head(todo) = ResetChip[10]
        /\ n = 4 => Head(todo) = ResetChip[11]
        /\ n = 3 => Head(todo) = ResetChip[12]
        /\ n = 2 => Head(todo) = ResetChip[13]
        /\ n = 1 => Head(todo) = ResetChip[14]
    BY <2>1
  <2> QED
    BY <1>7, <2>1, <2>2, ResetProgram DEF n
<1>8. CASE op \notin {"start", "rearm", "prepare", "send", "restore", "reset"}
  <2>1. Program(op) = <<>>
    BY <1>8, Zenon DEF Program
  <2> QED
    BY <1>1, <2>1
<1> QED
  BY <1>2, <1>3, <1>4, <1>5, <1>6, <1>7, <1>8

\* A failed command leaves the chip as it was or has taken its effect.
LEMMA FailedCommand ==
    ASSUME ChipTypeOK, NEW command \in Command, NEW after \in FailedEffect(command)
    PROVE  /\ chip \in ChipState /\ after \in ChipState
           /\ after = chip \/ Took(command, chip, after)
<1>1. chip \in ChipState
  BY DEF ChipTypeOK, ChipState
<1>2. after = chip \/ after = Effect(command, chip)
  BY Zenon DEF FailedEffect
<1>3. Took(command, chip, Effect(command, chip))
  BY <1>1, Effects
<1>4. Effect(command, chip) \in ChipState
  BY <1>3 DEF Took
<1>5. CASE after = chip
  BY <1>1, <1>5
<1>6. CASE after = Effect(command, chip)
  BY <1>1, <1>3, <1>4, <1>6
<1> QED
  BY <1>2, <1>5, <1>6

-----------------------------------------------------------------------------
LEMMA ErrorsCounted ==
    ASSUME ChipTypeOK, ConfiguredInv, op # "reset", NEW next, CountError(next)
    PROVE  /\ errors' \in 0 .. Threshold
           /\ \/ /\ op' = next /\ todo' = <<>> /\ rfPath' = rfPath
                 /\ errors' < Threshold
              \/ op' = "reset" /\ todo' = ResetChip /\ rfPath' = "rx"
<1>1. errors \in Nat /\ errors < Threshold /\ Threshold \in Nat
  BY ChipAssumption DEF ChipTypeOK, ConfiguredInv
<1>2. CASE errors + 1 < Threshold
  <2>1. op' = next /\ todo' = <<>> /\ rfPath' = rfPath /\ errors' = errors + 1
    BY <1>2 DEF CountError
  <2> QED
    BY <1>1, <1>2, <2>1
<1>3. CASE ~(errors + 1 < Threshold)
  <2>1. op' = "reset" /\ todo' = ResetChip /\ rfPath' = "rx" /\ errors' = errors + 1
    BY <1>3, Zenon DEF CountError, ResetChip
  <2> QED
    BY <1>1, <1>3, <2>1
<1> QED
  BY <1>2, <1>3

LEMMA FaultsSpent ==
    ASSUME ChipTypeOK,
           faults' = faults \/ (faults > 0 /\ faults' = faults - 1)
    PROVE  faults' \in 0 .. MaxFaults
BY ChipAssumption DEF ChipTypeOK

\* What is left to do, after any step, is again the end of the operation's list.
LEMMA TodoStep == TodoInv /\ [Next]_vars => TodoInv'
<1> SUFFICES ASSUME TodoInv, [Next]_vars PROVE TodoInv'
  OBVIOUS
<1>1. CASE op' = op /\ todo' = todo
  BY <1>1 DEF TodoInv
<1>2. CASE op' = op /\ todo # <<>> /\ todo' = Tail(todo)
  BY <1>2, NextCommand, Zenon DEF TodoInv
<1>3. CASE todo' = <<>>
  <2>1. Len(Program(op')) \in Nat
    BY ProgramTypes, Zenon
  <2> QED
    BY <1>3, <2>1, NothingLeft, Zenon DEF TodoInv
<1>4. CASE todo' = Program(op')
  BY <1>4, ProgramTypes, AllLeft, Zenon DEF TodoInv
<1>5. op \in {"idle", "poll", "decide"} => todo = <<>>
  BY ProgramTypes DEF TodoInv, EndOf
<1>6. ASSUME NEW next, CountError(next)
      PROVE  todo' = <<>> \/ (op' = "reset" /\ todo' = ResetChip)
  BY <1>6, Zenon DEF CountError, ResetChip
<1>7. \/ op' = op /\ todo' = todo
      \/ op' = op /\ todo # <<>> /\ todo' = Tail(todo)
      \/ todo' = <<>>
      \/ todo' = Program(op')
  <2>1. CASE Issue
    BY <2>1 DEF Issue
  <2>2. CASE StartFails
    BY <2>2 DEF StartFails
  <2>3. CASE RearmFails
    BY <2>3 DEF RearmFails
  <2>4. CASE PrepareFails
    BY <2>4, <1>6, ProgramTypes, Zenon DEF PrepareFails
  <2>5. CASE SendFails
    BY <2>5, ProgramTypes DEF SendFails
  <2>6. CASE RestoreFails
    BY <2>6, <1>6, ProgramTypes, Zenon DEF RestoreFails
  <2>7. CASE ResetFails
    BY <2>7 DEF ResetFails, Resume
  <2>8. CASE BeginPass
    BY <2>8, ProgramTypes DEF BeginPass
  <2>9. CASE Started
    BY <2>9 DEF Started
  <2>10. CASE Poll
    <3> DEFINE seen == chip.irq \cap {"rx_done", "timeout", "crc_err"} # {}
    <3>1. \/ /\ op' = IF seen THEN "rearm" ELSE "decide"
             /\ todo' = IF seen THEN Rearm ELSE <<>>
          \/ CountError("decide")
      BY <2>10, Zenon DEF Poll
    <3> HIDE DEF seen
    <3>2. todo' = <<>> \/ (op' = "rearm" /\ todo' = Rearm) \/ CountError("decide")
      BY <3>1
    <3> QED
      BY <3>2, <1>6, ProgramTypes, Zenon
  <2>11. CASE Rearmed
    BY <2>11 DEF Rearmed
  <2>12. CASE EndPass
    BY <2>12, <1>5 DEF EndPass
  <2>13. CASE Transmit
    BY <2>13, ProgramTypes DEF Transmit
  <2>14. CASE Prepared
    BY <2>14, ProgramTypes DEF Prepared
  <2>15. CASE Await
    BY <2>15, ProgramTypes DEF Await
  <2>16. CASE Restored
    <3>1. todo' = <<>> \/ CountError("idle")
      BY <2>16 DEF Restored
    <3> QED
      BY <3>1, <1>6, ProgramTypes, Zenon
  <2>17. CASE Reset
    BY <2>17 DEF Reset, Resume
  <2>18. CASE Hear \/ TxEnds \/ Hang \/ UNCHANGED vars
    BY <2>18 DEF Hear, TxEnds, Hang, vars
  <2> QED
    BY <2>1, <2>2, <2>3, <2>4, <2>5, <2>6, <2>7, <2>8, <2>9, <2>10, <2>11, <2>12,
       <2>13, <2>14, <2>15, <2>16, <2>17, <2>18 DEF Next, Service
<1> QED
  BY <1>1, <1>2, <1>3, <1>4, <1>7

-----------------------------------------------------------------------------
\* Settings go away with a reset only.
LEMMA SettingsKept ==
    ASSUME NEW c \in ChipState, NEW command \in Command, command # "reset"
    PROVE  /\ c.setup \subseteq Effect(command, c).setup
           /\ Effect(command, c).setup \subseteq Settings
           /\ c.setup = Settings => Effect(command, c).setup = Settings
           /\ command \in Settings => command \in Effect(command, c).setup
<1>1. Effect(command, c) \in ChipState /\ Effect(command, c).setup \subseteq Settings
  BY Effects DEF Took, ChipState
<1>2. Effect(command, c).setup =
         IF command \in Settings THEN c.setup \cup {command} ELSE c.setup
  BY Effects DEF Took
<1> QED
  BY <1>1, <1>2

\* Every command of an operation, when it gets through.
LEMMA IssueKeeps == ChipInv /\ Issue => ChipTypeOK' /\ FlowInv'
<1> SUFFICES ASSUME ChipInv, Issue PROVE ChipTypeOK' /\ FlowInv'
  OBVIOUS
<1> DEFINE command == Head(todo)
           n == Len(todo)
<1>1. /\ todo # <<>> /\ chip' = Effect(command, chip) /\ todo' = Tail(todo)
      /\ aired' = IF command = "tx" THEN {} ELSE aired
      /\ rfPath' = rfPath /\ op' = op /\ errors' = errors /\ faults' = faults
  BY DEF Issue, Works
<1>0. /\ tried' = tried /\ txOk' = txOk /\ rxStarted' = rxStarted
      /\ resetFailed' = resetFailed
  BY DEF Issue
<1>a. /\ txOk' <=> txOk
      /\ rxStarted' <=> rxStarted
      /\ resetFailed' <=> resetFailed
  BY <1>0, Zenon
<1>2. /\ command \in Command /\ n \in Nat /\ n >= 1 /\ Len(todo') = n - 1
  BY <1>1, NextCommand DEF ChipInv
<1>3. chip \in ChipState
  BY DEF ChipInv, ChipTypeOK, ChipState
<1>4. Took(command, chip, chip') /\ chip' \in ChipState
  <2>1. Took(command, chip, chip')
    BY <1>1, <1>2, <1>3, Effects, Zenon
  <2> QED
    BY <2>1 DEF Took
<1>5. command # "reset" => /\ chip.setup \subseteq chip'.setup
                           /\ chip.setup = Settings => chip'.setup = Settings
                           /\ command \in Settings => command \in chip'.setup
  BY <1>1, <1>2, <1>3, SettingsKept, Zenon
<1>6. ChipTypeOK'
  BY <1>0, <1>1, <1>4 DEF ChipInv, ChipTypeOK, ChipState
<1>7. /\ op = "start" => command \in {"tuned", "iq", "clear", "rx"}
      /\ op = "start" /\ n = 1 => command = "rx"
      /\ op = "rearm" => command \in {"clear", "rx"}
      /\ op = "prepare" => /\ n \in 1 .. 2
                           /\ n = 2 => command = "standby"
                           /\ n = 1 => command = "power"
      /\ op = "send" => /\ n \in 1 .. 7
                        /\ n = 7 => command = "clear"
                        /\ n = 6 => command = "write"
                        /\ n = 5 => command = "standby"
                        /\ n = 4 => command = "txparams"
                        /\ n = 3 => command = "tuned"
                        /\ n = 2 => command = "iq"
                        /\ n = 1 => command = "tx"
      /\ op = "restore" => /\ n \in 1 .. 6
                           /\ n = 6 => command = "standby"
                           /\ n = 5 => command = "rxparams"
                           /\ n = 4 => command = "tuned"
                           /\ n = 3 => command = "iq"
                           /\ n = 2 => command = "clear"
                           /\ n = 1 => command = "rx"
      /\ op = "reset" => /\ n \in 1 .. 14
                         /\ n = 10 => command = "modem"
                         /\ n = 9 => command = "rxparams"
                         /\ n = 8 => command = "irqs"
                         /\ n = 7 => command = "sync"
                         /\ n = 6 => command = "iq"
                         /\ n = 5 => command = "tuned"
                         /\ n = 4 => command = "tuned"
                         /\ n = 3 => command = "iq"
                         /\ n = 2 => command = "clear"
                         /\ n = 1 => command = "rx"
      /\ op \in {"start", "rearm", "prepare", "send", "restore", "reset"}
  BY <1>1, Heads DEF ChipInv
<1>8. FlowInv
  BY DEF ChipInv
<1> HIDE DEF command, n
<1>9. CASE op = "start"
  <2>1. ConfiguredInv'
    BY <1>a, <1>1, <1>5, <1>7, <1>8, <1>9 DEF FlowInv, ConfiguredInv
  <2>2. StartInv'
    BY <1>a, <1>1, <1>2, <1>4, <1>7, <1>8, <1>9 DEF Took, FlowInv, StartInv, n
  <2> QED
    BY <1>a, <1>1, <1>6, <1>9, <2>1, <2>2 DEF FlowInv, SendInv, RestoreInv, ResetInv
<1>10. CASE op = "rearm"
  <2>1. ConfiguredInv' /\ StartInv'
    BY <1>a, <1>1, <1>5, <1>7, <1>8, <1>10 DEF FlowInv, ConfiguredInv, StartInv
  <2> QED
    BY <1>a, <1>1, <1>6, <1>10, <2>1 DEF FlowInv, SendInv, RestoreInv, ResetInv
<1>11. CASE op = "prepare"
  <2>1. ConfiguredInv' /\ StartInv'
    BY <1>a, <1>1, <1>2, <1>5, <1>7, <1>8, <1>11 DEF FlowInv, ConfiguredInv, StartInv
  <2>2. SendInv'
    BY <1>a, <1>1, <1>2, <1>4, <1>7, <1>8, <1>11 DEF Took, FlowInv, SendInv, n
  <2> QED
    BY <1>a, <1>1, <1>6, <1>11, <2>1, <2>2 DEF FlowInv, RestoreInv, ResetInv
<1>12. CASE op = "send"
  <2>1. ConfiguredInv' /\ StartInv'
    BY <1>a, <1>1, <1>2, <1>5, <1>7, <1>8, <1>12 DEF FlowInv, ConfiguredInv, StartInv
  <2>2. rfPath = "tx" /\ ~txOk
    BY <1>8, <1>12 DEF FlowInv, SendInv
  <2>3. n = 7 \/ n = 6 \/ n = 5 \/ n = 4 \/ n = 3 \/ n = 2 \/ n = 1
    BY <1>7, <1>12
  <2>4. rfPath' = "tx" /\ ~txOk' /\ op' = "send"
    BY <1>a, <1>1, <1>12, <2>2
  <2>5. /\ n \in 2 .. 7 => chip'.mode = "standby"
        /\ n \in 2 .. 7 => chip'.irq = {}
        /\ n \in 1 .. 6 => chip'.buffer = "this"
        /\ n \in 1 .. 4 => chip'.params = "tx"
        /\ n \in 1 .. 2 => chip'.iq
        /\ n = 1 => chip'.mode = "tx" /\ aired' = {} /\ chip'.irq = {}
    BY <1>1, <1>4, <1>7, <1>8, <1>12, <2>3 DEF Took, FlowInv, SendInv, n
  <2>6. SendInv'
    BY <1>2, <2>3, <2>4, <2>5 DEF SendInv
  <2> QED
    BY <1>a, <1>1, <1>6, <1>12, <2>1, <2>6 DEF FlowInv, RestoreInv, ResetInv
<1>13. CASE op = "restore"
  <2>1. ConfiguredInv' /\ StartInv'
    BY <1>a, <1>1, <1>2, <1>5, <1>7, <1>8, <1>13 DEF FlowInv, ConfiguredInv, StartInv
  <2>2. RestoreInv'
    BY <1>a, <1>1, <1>2, <1>4, <1>7, <1>8, <1>13, SMTT(30) DEF Took, FlowInv, RestoreInv, Ours, n
  <2> QED
    BY <1>a, <1>1, <1>6, <1>13, <2>1, <2>2 DEF FlowInv, SendInv, ResetInv
<1>14. CASE op = "reset"
  <2>1. ConfiguredInv' /\ StartInv'
    BY <1>a, <1>1, <1>8, <1>14 DEF FlowInv, ConfiguredInv, StartInv
  <2>2. n <= 10 => command # "reset"
    BY <1>2, <1>7, <1>14
  <2>3. /\ n <= 10 => "modem" \in chip'.setup
        /\ n <= 8 => "irqs" \in chip'.setup
        /\ n <= 7 => "sync" \in chip'.setup
        /\ n <= 5 => "tuned" \in chip'.setup
    <3>1. {"modem", "irqs", "sync", "tuned"} = Settings
      BY DEF Settings
    <3>2. n <= 10 => chip.setup \subseteq chip'.setup
      BY <1>2, <1>5, <2>2
    <3>3. /\ n <= 9 => "modem" \in chip.setup
          /\ n <= 7 => "irqs" \in chip.setup
          /\ n <= 6 => "sync" \in chip.setup
          /\ n <= 4 => "tuned" \in chip.setup
      BY <1>8, <1>14 DEF FlowInv, ResetInv, n
    <3>4. /\ n = 10 => "modem" \in chip'.setup
          /\ n = 8 => "irqs" \in chip'.setup
          /\ n = 7 => "sync" \in chip'.setup
          /\ n = 5 => "tuned" \in chip'.setup
      BY <1>2, <1>5, <1>7, <1>14, <2>2, <3>1
    <3> QED
      BY <1>2, <3>2, <3>3, <3>4
  <2>4. /\ rfPath' = "rx"
        /\ n <= 9 => chip'.params = "rx"
        /\ n <= 6 => chip'.iq
        /\ n <= 1 => chip'.mode = "rx"
    <3>1. /\ rfPath = "rx"
          /\ n <= 8 => chip.params = "rx"
          /\ n <= 5 => chip.iq
      BY <1>8, <1>14 DEF FlowInv, ResetInv, n
    <3>2. /\ n <= 8 => command \in {"irqs", "sync", "iq", "tuned", "clear", "rx"}
          /\ n <= 5 => command \in {"iq", "tuned", "clear", "rx"}
          /\ n <= 1 => n = 1
      BY <1>2, <1>7, <1>14
    <3>3. n = 9 => chip'.params = "rx"
      BY <1>4, <1>7, <1>14 DEF Took
    <3>4. n <= 8 => chip'.params = "rx"
      BY <1>4, <3>1, <3>2 DEF Took
    <3>5. n = 6 => chip'.iq
      BY <1>4, <1>7, <1>14 DEF Took
    <3>6. n <= 5 => chip'.iq
      BY <1>4, <3>1, <3>2 DEF Took
    <3>7. n = 1 => chip'.mode = "rx"
      BY <1>4, <1>7, <1>14 DEF Took
    <3>8. rfPath' = "rx"
      BY <1>1, <3>1
    <3> QED
      BY <1>2, <3>2, <3>3, <3>4, <3>5, <3>6, <3>7, <3>8
  <2>5. ResetInv'
    BY <1>2, <2>3, <2>4 DEF ResetInv
  <2> QED
    BY <1>1, <1>6, <1>14, <2>1, <2>5 DEF FlowInv, SendInv, RestoreInv
<1> QED
  BY <1>7, <1>9, <1>10, <1>11, <1>12, <1>13, <1>14

-----------------------------------------------------------------------------
\* Between the operations, only the settings matter, and reception as it was
\* until it is started.
LEMMA BetweenOperations ==
    ASSUME op' \in {"idle", "poll", "rearm", "decide"}, errors' < Threshold,
           ~resetFailed' => chip'.setup = Settings,
           rxStarted' \/ StartInv'
    PROVE  FlowInv'
<1>1. ConfiguredInv'
  BY DEF ConfiguredInv
<1>2. StartInv'
  BY DEF StartInv
<1>3. SendInv' /\ RestoreInv' /\ ResetInv'
  BY DEF SendInv, RestoreInv, ResetInv
<1> QED
  BY <1>1, <1>2, <1>3 DEF FlowInv

LEMMA ReinitBegins ==
    ASSUME op' = "reset", todo' = ResetChip, rfPath' = "rx", rxStarted'
    PROVE  FlowInv'
<1>1. Len(todo') = 14
  BY ResetProgram
<1>2. ConfiguredInv' /\ StartInv'
  BY DEF ConfiguredInv, StartInv
<1>3. SendInv' /\ RestoreInv'
  BY DEF SendInv, RestoreInv
<1>4. ResetInv'
  BY <1>1 DEF ResetInv
<1> QED
  BY <1>2, <1>3, <1>4 DEF FlowInv

LEMMA FlowTypes ==
    ASSUME ChipInv
    PROVE  /\ chip \in ChipState /\ ChipTypeOK
           /\ ConfiguredInv /\ StartInv /\ SendInv /\ RestoreInv /\ ResetInv
BY DEF ChipInv, FlowInv, ChipTypeOK, ChipState

\* An error is counted; the chip's settings are as they were.
LEMMA CountErrorKeeps ==
    ASSUME ChipInv, NEW next \in {"idle", "decide"}, CountError(next),
           op # "reset", rxStarted, UNCHANGED <<rxStarted, resetFailed>>,
           chip.setup = Settings => chip'.setup = Settings
    PROVE  /\ FlowInv' /\ errors' \in 0 .. Threshold
           /\ op' \in {next, "reset"} /\ rfPath' \in {"rx", "tx"}
<1>1. /\ errors' \in 0 .. Threshold
      /\ \/ /\ op' = next /\ todo' = <<>> /\ rfPath' = rfPath
            /\ errors' < Threshold
         \/ op' = "reset" /\ todo' = ResetChip /\ rfPath' = "rx"
  BY ErrorsCounted, FlowTypes
<1>2. rxStarted' /\ (resetFailed' <=> resetFailed)
  BY Zenon
<1>3. ~resetFailed' => chip'.setup = Settings
  BY <1>2, FlowTypes DEF ConfiguredInv
<1>4. rfPath \in {"rx", "tx"}
  BY FlowTypes DEF ChipTypeOK
<1>5. CASE op' = next /\ rfPath' = rfPath /\ errors' < Threshold
  BY <1>1, <1>2, <1>3, <1>4, <1>5, BetweenOperations
<1>6. CASE op' = "reset" /\ todo' = ResetChip /\ rfPath' = "rx"
  BY <1>1, <1>2, <1>6, ReinitBegins
<1> QED
  BY <1>1, <1>5, <1>6

-----------------------------------------------------------------------------
\* The failure of a command, operation by operation.
LEMMA FailureKeeps ==
    ASSUME ChipInv,
           StartFails \/ RearmFails \/ PrepareFails \/ SendFails \/ RestoreFails
    PROVE  ChipTypeOK' /\ FlowInv'
<1> DEFINE command == Head(todo)
<1>1. /\ todo # <<>> /\ Fails /\ chip' \in FailedEffect(command)
      /\ op \in {"start", "rearm", "prepare", "send", "restore"}
      /\ tried' = tried /\ txOk' = txOk /\ rxStarted' = rxStarted
      /\ resetFailed' = resetFailed
  BY DEF StartFails, RearmFails, PrepareFails, SendFails, RestoreFails
<1>2. /\ op = "start" => command \in {"tuned", "iq", "clear", "rx"}
      /\ op = "rearm" => command \in {"clear", "rx"}
      /\ op = "prepare" => command \in {"standby", "power"}
      /\ op = "send" => command \in {"clear", "write", "standby", "txparams",
                                     "tuned", "iq", "tx"}
      /\ op = "restore" => command \in {"standby", "rxparams", "tuned", "iq", "clear", "rx"}
      /\ command \in Command
  <2>1. TodoInv /\ todo # <<>>
    BY <1>1 DEF ChipInv
  <2>2. /\ op = "start" => command \in {"tuned", "iq", "clear", "rx"}
        /\ op = "rearm" => command \in {"clear", "rx"}
        /\ op = "prepare" => command \in {"standby", "power"}
    BY <2>1, Heads
  <2>3. op = "send" => command \in {"clear", "write", "standby", "txparams",
                                   "tuned", "iq", "tx"}
    BY <2>1, Heads
  <2>4. op = "restore" => command \in {"standby", "rxparams", "tuned", "iq", "clear", "rx"}
    BY <2>1, Heads
  <2>5. command \in Command
    BY <2>1, NextCommand
  <2> QED
    BY <2>2, <2>3, <2>4, <2>5
<1> HIDE DEF command
<1>3. /\ chip \in ChipState /\ chip' \in ChipState
      /\ chip' = chip \/ Took(command, chip, chip')
  BY <1>1, <1>2, FailedCommand DEF ChipInv
<1>4. chip.setup = Settings => chip'.setup = Settings
  <2>1. command # "reset"
    BY <1>1, <1>2
  <2> QED
    BY <1>3, <2>1 DEF Took, ChipState
<1>5. faults' \in 0 .. MaxFaults
  BY <1>1, FaultsSpent DEF ChipInv, Fails
<1>6. /\ tried' \in BOOLEAN /\ txOk' \in BOOLEAN /\ rxStarted' \in BOOLEAN
      /\ resetFailed' \in BOOLEAN
  BY <1>1, FlowTypes, Zenon DEF ChipTypeOK
<1>7. /\ rxStarted' <=> rxStarted
      /\ resetFailed' <=> resetFailed
      /\ txOk' <=> txOk
  BY <1>1, Zenon
<1>8. ~resetFailed' => chip'.setup = Settings
  BY <1>1, <1>4, <1>7, FlowTypes DEF ConfiguredInv
<1>9. errors \in 0 .. Threshold /\ errors < Threshold /\ rfPath \in {"rx", "tx"}
  BY <1>1, FlowTypes DEF ConfiguredInv, ChipTypeOK
<1>10. ASSUME FlowInv', errors' \in 0 .. Threshold, rfPath' \in {"rx", "tx"},
              op' \in {"idle", "start", "poll", "rearm", "decide", "prepare", "send",
                      "restore", "reset"}
       PROVE  ChipTypeOK' /\ FlowInv'
  BY <1>3, <1>5, <1>6, <1>10 DEF ChipTypeOK, ChipState
<1>11. CASE StartFails
  <2>1. op = "start" /\ op' = "decide" /\ errors' = errors /\ rfPath' = rfPath
    BY <1>11 DEF StartFails
  <2>2. ~rxStarted /\ chip.params = "rx" /\ chip.iq /\ rfPath = "rx"
        /\ chip.mode # "tx" /\ ~resetFailed
    BY <2>1, FlowTypes DEF StartInv
  <2>3. chip'.params = "rx" /\ chip'.iq /\ chip'.mode # "tx"
    BY <1>2, <1>3, <2>1, <2>2 DEF Took
  <2>4. StartInv'
    BY <1>7, <2>1, <2>2, <2>3 DEF StartInv
  <2>5. FlowInv'
    BY <1>8, <1>9, <2>1, <2>4, BetweenOperations
  <2> QED
    BY <1>9, <1>10, <2>1, <2>5
<1>12. CASE RearmFails
  <2>1. op = "rearm" /\ op' = "rearm" /\ errors' = errors /\ rfPath' = rfPath
    BY <1>12 DEF RearmFails
  <2>2. rxStarted'
    BY <1>7, <2>1, FlowTypes DEF StartInv
  <2>3. FlowInv'
    BY <1>8, <1>9, <2>1, <2>2, BetweenOperations
  <2> QED
    BY <1>9, <1>10, <2>1, <2>3
<1>13. CASE PrepareFails \/ RestoreFails
  <2>1. CountError("idle") /\ op \in {"prepare", "restore"}
    BY <1>13 DEF PrepareFails, RestoreFails
  <2>2. rxStarted
    BY <2>1, FlowTypes DEF StartInv
  <2>3. /\ FlowInv' /\ errors' \in 0 .. Threshold
        /\ op' \in {"idle", "reset"} /\ rfPath' \in {"rx", "tx"}
    BY <1>1, <1>4, <2>1, <2>2, CountErrorKeeps
  <2> QED
    BY <1>10, <2>3
<1>14. CASE SendFails
  <2>1. op = "send" /\ op' = "restore" /\ todo' = RestoreRx /\ rfPath' = "rx"
        /\ errors' = errors
    BY <1>14 DEF SendFails
  <2>2. Len(todo') = 6
    BY <2>1, Programs
  <2>3. rxStarted' /\ ~txOk'
    BY <1>7, <2>1, FlowTypes DEF StartInv, SendInv
  <2>4. ConfiguredInv' /\ StartInv'
    BY <1>8, <1>9, <2>1, <2>3 DEF ConfiguredInv, StartInv
  <2>5. SendInv' /\ RestoreInv' /\ ResetInv'
    BY <2>1, <2>2, <2>3 DEF SendInv, RestoreInv, ResetInv
  <2>6. FlowInv'
    BY <2>4, <2>5 DEF FlowInv
  <2> QED
    BY <1>9, <1>10, <2>1, <2>6
<1> QED
  BY <1>11, <1>12, <1>13, <1>14

-----------------------------------------------------------------------------
\* A reinit ends, the failed one included: the owner goes on either way.
LEMMA ResetEnds == ChipInv /\ (ResetFails \/ Reset) => ChipTypeOK' /\ FlowInv'
<1> SUFFICES ASSUME ChipInv, ResetFails \/ Reset PROVE ChipTypeOK' /\ FlowInv'
  OBVIOUS
<1>1. /\ op = "reset" /\ errors' = 0 /\ rxStarted' = TRUE
      /\ tried' = tried /\ txOk' = txOk /\ rfPath' = rfPath
      /\ op' = IF tried THEN "idle" ELSE "decide"
  BY DEF ResetFails, Reset, Resume
<1>2. op' \in {"idle", "decide"}
  BY <1>1, Zenon
<1>3. /\ tried' \in BOOLEAN /\ txOk' \in BOOLEAN /\ rxStarted' \in BOOLEAN
      /\ resetFailed' \in BOOLEAN /\ rxStarted'
  <2>1. resetFailed' \in BOOLEAN
    BY Zenon DEF ResetFails, Reset
  <2> QED
    BY <1>1, <2>1, FlowTypes, Zenon DEF ChipTypeOK
<1>4. 0 \in 0 .. Threshold /\ 0 < Threshold
  BY ChipAssumption
<1>5. /\ chip' \in ChipState /\ faults' \in 0 .. MaxFaults
      /\ ~resetFailed' => chip'.setup = Settings
  <2>1. CASE Reset
    <3>1. chip' = chip /\ faults' = faults /\ Len(todo) = 0
      BY <2>1 DEF Reset
    <3>2. chip.setup = Settings
      BY <1>1, <3>1, FlowTypes DEF ResetInv, ChipState, Settings
    <3> QED
      BY <3>1, <3>2, FlowTypes DEF ChipTypeOK
  <2>2. CASE ResetFails /\ Head(todo) = "reset"
    <3>1. /\ faults > 0 /\ faults' = faults - 1
          /\ chip' \in {chip, [AfterReset(chip) EXCEPT !.held = TRUE]}
      BY <2>2 DEF ResetFails
    <3>2. [AfterReset(chip) EXCEPT !.held = TRUE] \in ChipState
      BY FlowTypes DEF AfterReset, ChipState
    <3>3. chip' \in ChipState
      BY <3>1, <3>2, FlowTypes
    <3>4. resetFailed'
      BY <2>2, Zenon DEF ResetFails
    <3> QED
      BY <3>1, <3>3, <3>4, FaultsSpent, FlowTypes
  <2>3. CASE ResetFails /\ Head(todo) # "reset"
    <3>1. todo # <<>> /\ Fails /\ chip' \in FailedEffect(Head(todo))
      BY <2>3 DEF ResetFails
    <3>2. Head(todo) \in Command
      BY <3>1, NextCommand DEF ChipInv
    <3>3. chip' \in ChipState
      BY <3>1, <3>2, FailedCommand, FlowTypes
    <3>4. faults' \in 0 .. MaxFaults
      BY <3>1, FaultsSpent, FlowTypes DEF Fails
    <3>5. resetFailed'
      BY <2>3, Zenon DEF ResetFails
    <3> QED
      BY <3>3, <3>4, <3>5
  <2> QED
    BY <2>1, <2>2, <2>3
<1>6. FlowInv'
  BY <1>1, <1>2, <1>3, <1>4, <1>5, BetweenOperations
<1> QED
  BY <1>1, <1>2, <1>3, <1>4, <1>5, <1>6, FlowTypes DEF ChipTypeOK, ChipState

\* The steps that begin and end operations without a command.
LEMMA PassKeeps ==
    ASSUME ChipInv, BeginPass \/ Started \/ Rearmed \/ EndPass \/ Prepared
    PROVE  ChipTypeOK' /\ FlowInv'
<1>1. /\ chip' = chip /\ rfPath' = rfPath /\ txOk' = txOk /\ errors' = errors
      /\ faults' = faults /\ resetFailed' = resetFailed
      /\ op \in {"idle", "start", "rearm", "decide", "prepare"}
  BY DEF BeginPass, Started, Rearmed, EndPass, Prepared
<1>2. op' \in {"start", "poll", "decide", "idle", "send"}
  BY Zenon DEF BeginPass, Started, Rearmed, EndPass, Prepared
<1>3. tried' \in BOOLEAN /\ rxStarted' \in BOOLEAN
  BY FlowTypes, Zenon DEF ChipTypeOK, BeginPass, Started, Rearmed, EndPass, Prepared
<1>4. ChipTypeOK'
  BY <1>1, <1>2, <1>3, FlowTypes DEF ChipTypeOK
<1>5. /\ ~resetFailed' => chip'.setup = Settings
      /\ errors' < Threshold
  <2>1. resetFailed' <=> resetFailed
    BY <1>1, Zenon
  <2> QED
    BY <1>1, <2>1, FlowTypes DEF ConfiguredInv
<1>6. /\ txOk' <=> txOk
      /\ resetFailed' <=> resetFailed
  BY <1>1, Zenon
<1>7. CASE BeginPass
  <2>1. /\ op = "idle" /\ (rxStarted' <=> rxStarted)
        /\ rxStarted => op' = "poll"
        /\ ~rxStarted => op' = "start" /\ todo' = StartRx
    BY <1>7, Zenon DEF BeginPass
  <2>2. CASE rxStarted
    BY <1>5, <2>1, <2>2, <1>4, BetweenOperations
  <2>3. CASE ~rxStarted
    <3>1. Len(todo') = 4 /\ op' = "start"
      BY <2>1, <2>3, Programs
    <3>2. ConfiguredInv'
      BY <1>5 DEF ConfiguredInv
    <3>3. StartInv'
      BY <1>1, <1>6, <2>1, <2>3, <3>1, FlowTypes DEF StartInv
    <3>4. SendInv' /\ RestoreInv' /\ ResetInv'
      BY <3>1 DEF SendInv, RestoreInv, ResetInv
    <3> QED
      BY <1>4, <3>2, <3>3, <3>4 DEF FlowInv
  <2> QED
    BY <2>2, <2>3
<1>8. CASE Started
  <2>1. op' = "poll" /\ rxStarted'
    BY <1>8, Zenon DEF Started
  <2> QED
    BY <1>4, <1>5, <2>1, BetweenOperations
<1>9. CASE Rearmed \/ EndPass
  <2>1. op \in {"rearm", "decide"} /\ op' \in {"decide", "idle"}
    BY <1>9 DEF Rearmed, EndPass
  <2>2. rxStarted' <=> rxStarted
    <3>1. rxStarted' = rxStarted
      BY <1>9 DEF Rearmed, EndPass
    <3> QED
      BY <3>1, Zenon
  <2>3. StartInv'
    BY <1>1, <1>6, <2>1, <2>2, FlowTypes DEF StartInv
  <2> QED
    BY <1>4, <1>5, <2>1, <2>3, BetweenOperations
<1>10. CASE Prepared
  <2>1. op = "prepare" /\ Len(todo) = 0 /\ op' = "send" /\ todo' = SendFrame
    BY <1>10 DEF Prepared
  <2>2. Len(todo') = 7
    BY <2>1, Programs
  <2>3. rxStarted' <=> rxStarted
    BY <1>10, Zenon DEF Prepared
  <2>4. ConfiguredInv' /\ StartInv'
    BY <1>5, <2>1, <2>3, FlowTypes DEF ConfiguredInv, StartInv
  <2>5. SendInv'
    BY <1>1, <1>6, <2>1, <2>2, FlowTypes DEF SendInv
  <2>6. RestoreInv' /\ ResetInv'
    BY <2>1 DEF RestoreInv, ResetInv
  <2> QED
    BY <1>4, <2>4, <2>5, <2>6 DEF FlowInv
<1> QED
  BY <1>7, <1>8, <1>9, <1>10

\* poll_receive
LEMMA PollKeeps == ChipInv /\ Poll => ChipTypeOK' /\ FlowInv'
<1> SUFFICES ASSUME ChipInv, Poll PROVE ChipTypeOK' /\ FlowInv'
  OBVIOUS
<1> DEFINE seen == chip.irq \cap {"rx_done", "timeout", "crc_err"} # {}
<1>1. /\ op = "poll" /\ chip' = chip /\ tried' = tried /\ txOk' = txOk
      /\ rxStarted' = rxStarted /\ resetFailed' = resetFailed
  BY DEF Poll
<1>2. \/ /\ Works /\ errors' = 0 /\ rfPath' = rfPath
         /\ op' = IF seen THEN "rearm" ELSE "decide"
      \/ Fails /\ CountError("decide")
  BY Zenon DEF Poll
<1> HIDE DEF seen
<1>3. rxStarted
  BY <1>1, FlowTypes DEF StartInv
<1>4. /\ rxStarted' <=> rxStarted
      /\ resetFailed' <=> resetFailed
  BY <1>1, Zenon
<1>5. chip.setup = Settings => chip'.setup = Settings
  BY <1>1
<1>6. ~resetFailed' => chip'.setup = Settings
  BY <1>1, <1>4, FlowTypes DEF ConfiguredInv
<1>7. faults' \in 0 .. MaxFaults
  BY <1>2, FaultsSpent, FlowTypes DEF Works, Fails
<1>8. /\ FlowInv' /\ errors' \in 0 .. Threshold
      /\ op' \in {"rearm", "decide", "reset"} /\ rfPath' \in {"rx", "tx"}
  <2>1. CASE Works /\ errors' = 0 /\ rfPath' = rfPath /\ (op' = IF seen THEN "rearm" ELSE "decide")
    <3>1. op' \in {"rearm", "decide"} /\ errors' < Threshold /\ errors' \in 0 .. Threshold
      BY <2>1, ChipAssumption
    <3>2. FlowInv'
      BY <1>3, <1>4, <1>6, <3>1, BetweenOperations
    <3> QED
      BY <2>1, <3>1, <3>2, FlowTypes DEF ChipTypeOK
  <2>2. CASE CountError("decide")
    BY <1>1, <1>3, <1>5, <2>2, CountErrorKeeps
  <2> QED
    BY <1>2, <2>1, <2>2
<1>9. /\ tried' \in BOOLEAN /\ txOk' \in BOOLEAN /\ rxStarted' \in BOOLEAN
      /\ resetFailed' \in BOOLEAN
  BY <1>1, FlowTypes, Zenon DEF ChipTypeOK
<1> QED
  BY <1>1, <1>7, <1>8, <1>9, FlowTypes DEF ChipTypeOK

-----------------------------------------------------------------------------
\* A transmission begins, on the TX path.
LEMMA TransmitKeeps == ChipInv /\ Transmit => ChipTypeOK' /\ FlowInv'
<1> SUFFICES ASSUME ChipInv, Transmit PROVE ChipTypeOK' /\ FlowInv'
  OBVIOUS
<1>1. /\ op = "decide" /\ op' = "prepare" /\ todo' = PrepareTx /\ rfPath' = "tx"
      /\ chip' = [chip EXCEPT !.buffer = "other"] /\ errors' = errors /\ faults' = faults
  BY DEF Transmit
<1>2. /\ tried' = TRUE /\ txOk' = FALSE /\ rxStarted /\ rxStarted' = rxStarted
      /\ resetFailed' = resetFailed
  BY DEF Transmit
<1>3. /\ tried' \in BOOLEAN /\ txOk' \in BOOLEAN /\ rxStarted' \in BOOLEAN
      /\ resetFailed' \in BOOLEAN /\ ~txOk' /\ rxStarted'
      /\ resetFailed' <=> resetFailed
  BY <1>2, FlowTypes, Zenon DEF ChipTypeOK
<1>4. chip' \in ChipState /\ chip'.setup = chip.setup
  BY <1>1, FlowTypes DEF ChipState
<1>5. ChipTypeOK'
  BY <1>1, <1>3, <1>4, FlowTypes DEF ChipTypeOK, ChipState
<1>6. Len(todo') = 2
  BY <1>1, Programs
<1>7. ConfiguredInv' /\ StartInv'
  BY <1>1, <1>3, <1>4, FlowTypes DEF ConfiguredInv, StartInv
<1>8. SendInv' /\ RestoreInv' /\ ResetInv'
  BY <1>1, <1>3, <1>6 DEF SendInv, RestoreInv, ResetInv
<1> QED
  BY <1>5, <1>7, <1>8 DEF FlowInv

\* The wait for the end of a transmission: what it takes for a sent frame is one.
LEMMA AwaitKeeps == ChipInv /\ Await => ChipTypeOK' /\ FlowInv'
<1> SUFFICES ASSUME ChipInv, Await PROVE ChipTypeOK' /\ FlowInv'
  OBVIOUS
<1>1. /\ op = "send" /\ Len(todo) = 0 /\ op' = "restore" /\ todo' = RestoreRx
      /\ rfPath' = "rx" /\ errors' = errors /\ aired' = aired
  BY DEF Await
<1>2. tried' = tried /\ rxStarted' = rxStarted /\ resetFailed' = resetFailed
  BY DEF Await
<1>3. \/ /\ "tx_done" \in chip.irq /\ txOk' = TRUE
         /\ \/ chip' = Effect("clear", chip) /\ faults' = faults
            \/ Fails /\ chip' = chip
      \/ chip' = chip /\ txOk' = txOk /\ (faults' = faults \/ Fails)
  BY Zenon DEF Await
<1>4. /\ tried' \in BOOLEAN /\ txOk' \in BOOLEAN /\ rxStarted' \in BOOLEAN
      /\ resetFailed' \in BOOLEAN
      /\ rxStarted' <=> rxStarted
      /\ resetFailed' <=> resetFailed
  BY <1>2, <1>3, FlowTypes, Zenon DEF ChipTypeOK
<1>5. txOk' => "tx_done" \in chip.irq
  <2>1. ~txOk
    BY <1>1, FlowTypes DEF SendInv
  <2> QED
    BY <1>3, <2>1, Zenon
<1>6. /\ chip' \in ChipState /\ chip'.setup = chip.setup /\ chip'.mode = chip.mode
      /\ faults' \in 0 .. MaxFaults
  <2>1. chip' = chip \/ Took("clear", chip, chip')
    <3>1. "clear" \in Command
      BY DEF Command
    <3> QED
      BY <1>3, <3>1, FlowTypes, Effects, Zenon
  <2>2. faults' \in 0 .. MaxFaults
    BY <1>3, FaultsSpent, FlowTypes DEF Fails
  <2> QED
    BY <2>1, <2>2, FlowTypes DEF Took, Settings
<1>7. ChipTypeOK'
  BY <1>1, <1>4, <1>6, FlowTypes DEF ChipTypeOK, ChipState
<1>8. ConfiguredInv' /\ StartInv'
  BY <1>1, <1>4, <1>6, FlowTypes DEF ConfiguredInv, StartInv
<1>9. "tx_done" \in chip.irq => Ours /\ chip.mode # "tx"
  BY <1>1, FlowTypes DEF SendInv
<1>10. Ours => Ours'
  BY <1>1, <1>4, Zenon DEF Ours
<1>11. Len(todo') = 6
  BY <1>1, Programs
<1>12. RestoreInv'
  BY <1>1, <1>5, <1>6, <1>9, <1>10, <1>11 DEF RestoreInv
<1>13. SendInv' /\ ResetInv'
  BY <1>1 DEF SendInv, ResetInv
<1> QED
  BY <1>7, <1>8, <1>12, <1>13 DEF FlowInv

\* transmit returns.
LEMMA RestoredKeeps == ChipInv /\ Restored => ChipTypeOK' /\ FlowInv'
<1> SUFFICES ASSUME ChipInv, Restored PROVE ChipTypeOK' /\ FlowInv'
  OBVIOUS
<1>1. /\ op = "restore" /\ chip' = chip /\ faults' = faults
      /\ tried' = tried /\ txOk' = txOk /\ rxStarted' = rxStarted
      /\ resetFailed' = resetFailed
      /\ \/ errors' = 0 /\ op' = "idle" /\ rfPath' = rfPath
         \/ CountError("idle")
  BY DEF Restored
<1>2. /\ tried' \in BOOLEAN /\ txOk' \in BOOLEAN /\ rxStarted' \in BOOLEAN
      /\ resetFailed' \in BOOLEAN
      /\ rxStarted' <=> rxStarted
      /\ resetFailed' <=> resetFailed
  BY <1>1, FlowTypes, Zenon DEF ChipTypeOK
<1>3. rxStarted
  BY <1>1, FlowTypes DEF StartInv
<1>4. ~resetFailed' => chip'.setup = Settings
  BY <1>1, <1>2, FlowTypes DEF ConfiguredInv
<1>5. /\ FlowInv' /\ errors' \in 0 .. Threshold
      /\ op' \in {"idle", "reset"} /\ rfPath' \in {"rx", "tx"}
  <2>1. CASE errors' = 0 /\ op' = "idle" /\ rfPath' = rfPath
    <3>1. errors' < Threshold /\ errors' \in 0 .. Threshold /\ rfPath' \in {"rx", "tx"}
      BY <2>1, ChipAssumption, FlowTypes DEF ChipTypeOK
    <3> QED
      BY <1>2, <1>3, <1>4, <2>1, <3>1, BetweenOperations
  <2>2. CASE CountError("idle")
    BY <1>1, <1>3, <2>2, CountErrorKeeps
  <2> QED
    BY <1>1, <2>1, <2>2
<1> QED
  BY <1>1, <1>2, <1>5, FlowTypes DEF ChipTypeOK

-----------------------------------------------------------------------------
\* The chip and the air, between any two commands.
LEMMA SendLeft ==
    ASSUME TodoInv, op = "send"
    PROVE  Len(todo) \in 0 .. 7
<1>1. EndOf(todo, SendFrame)
  BY ProgramTypes DEF TodoInv
<1>2. todo \in Seq(Command) /\ Len(todo) <= Len(SendFrame)
  BY <1>1, Zenon DEF EndOf
<1>3. Len(todo) \in Nat
  BY <1>2
<1>4. Len(SendFrame) = 7
  BY Programs, Zenon
<1> DEFINE n == Len(todo)
<1>5. n \in Nat /\ n <= 7
  BY <1>2, <1>3, <1>4, Zenon
<1> HIDE DEF n
<1>6. n \in 0 .. 7
  BY <1>5
<1> QED
  BY <1>6 DEF n

LEMMA HearKeeps == ChipInv /\ Hear => ChipTypeOK' /\ FlowInv'
<1> SUFFICES ASSUME ChipInv, Hear PROVE ChipTypeOK' /\ FlowInv'
  OBVIOUS
<1>1. /\ rfPath' = rfPath /\ op' = op /\ todo' = todo /\ errors' = errors
      /\ faults' = faults /\ aired' = aired /\ chip.mode = "rx"
      /\ tried' = tried /\ txOk' = txOk /\ rxStarted' = rxStarted
      /\ resetFailed' = resetFailed
  BY DEF Hear
<1>2. PICK flags \in {{"rx_done"}, {"rx_done", "crc_err"}} :
         chip' = [chip EXCEPT !.irq = Raise(flags), !.buffer = "other"]
  BY DEF Hear
<1>3. /\ tried' \in BOOLEAN /\ txOk' \in BOOLEAN /\ rxStarted' \in BOOLEAN
      /\ resetFailed' \in BOOLEAN
      /\ rxStarted' <=> rxStarted
      /\ txOk' <=> txOk
      /\ resetFailed' <=> resetFailed
      /\ Ours' <=> Ours
  BY <1>1, FlowTypes, Zenon DEF ChipTypeOK, Ours
<1>4. /\ chip' \in ChipState /\ chip'.mode = chip.mode /\ chip'.setup = chip.setup
      /\ chip'.params = chip.params
  <2>1. Raise(flags) \in SUBSET {"rx_done", "crc_err", "tx_done", "timeout"}
    BY FlowTypes DEF Raise, ChipState
  <2> QED
    BY <1>2, <2>1, FlowTypes DEF ChipState
<1>5. chip'.iq <=> chip.iq
  <2>1. chip'.iq = chip.iq
    BY <1>2, FlowTypes DEF ChipState
  <2> QED
    BY <2>1, Zenon
<1>6. ChipTypeOK'
  BY <1>1, <1>3, <1>4, FlowTypes DEF ChipTypeOK, ChipState
<1>7. ConfiguredInv' /\ StartInv'
  BY <1>1, <1>3, <1>4, <1>5, FlowTypes DEF ConfiguredInv, StartInv
<1>8. SendInv'
  <2>1. op = "send" => Len(todo) \notin 0 .. 7
    BY <1>1, FlowTypes DEF SendInv
  <2>2. op = "send" => Len(todo) \in 0 .. 7
    BY SendLeft DEF ChipInv
  <2> QED
    BY <1>1, <1>3, <1>4, <2>1, <2>2, FlowTypes DEF SendInv
<1>9. RestoreInv' /\ ResetInv'
  BY <1>1, <1>3, <1>4, <1>5, FlowTypes DEF RestoreInv, ResetInv
<1> QED
  BY <1>6, <1>7, <1>8, <1>9 DEF FlowInv

LEMMA TxEndsKeeps == ChipInv /\ TxEnds => ChipTypeOK' /\ FlowInv'
<1> SUFFICES ASSUME ChipInv, TxEnds PROVE ChipTypeOK' /\ FlowInv'
  OBVIOUS
<1> DEFINE how == /\ chip.setup = Settings /\ chip.params = "tx"
                  /\ chip.iq /\ rfPath = "tx"
<1>1. /\ rfPath' = rfPath /\ op' = op /\ todo' = todo /\ errors' = errors
      /\ faults' = faults /\ chip.mode = "tx"
      /\ tried' = tried /\ txOk' = txOk /\ rxStarted' = rxStarted
      /\ resetFailed' = resetFailed
  BY DEF TxEnds
<1>2. \/ /\ chip' = [chip EXCEPT !.mode = "standby", !.irq = Raise({"tx_done"})]
         /\ aired' = aired \cup {[frame |-> chip.buffer, clean |-> how]}
      \/ /\ chip' = [chip EXCEPT !.mode = "standby", !.irq = Raise({"timeout"})]
         /\ aired' = aired
  BY Zenon DEF TxEnds
<1>3. /\ tried' \in BOOLEAN /\ txOk' \in BOOLEAN /\ rxStarted' \in BOOLEAN
      /\ resetFailed' \in BOOLEAN
      /\ rxStarted' <=> rxStarted
      /\ txOk' <=> txOk
      /\ resetFailed' <=> resetFailed
  BY <1>1, FlowTypes, Zenon DEF ChipTypeOK
<1>4. /\ chip' \in ChipState /\ chip'.mode = "standby" /\ chip'.setup = chip.setup
      /\ chip'.params = chip.params /\ chip'.buffer = chip.buffer
  <2>1. \A flags \in {{"tx_done"}, {"timeout"}} :
           Raise(flags) \in SUBSET {"rx_done", "crc_err", "tx_done", "timeout"}
    BY FlowTypes DEF Raise, ChipState
  <2>2. PICK irq \in SUBSET {"rx_done", "crc_err", "tx_done", "timeout"} :
           chip' = [chip EXCEPT !.mode = "standby", !.irq = irq]
    BY <1>2, <2>1
  <2> QED
    BY <2>2, FlowTypes DEF ChipState
<1>5. chip'.iq <=> chip.iq
  <2>1. chip'.iq = chip.iq
    BY <1>2, FlowTypes DEF ChipState
  <2> QED
    BY <2>1, Zenon
<1>6. ChipTypeOK'
  BY <1>1, <1>3, <1>4, FlowTypes DEF ChipTypeOK, ChipState
<1>7. ConfiguredInv' /\ StartInv'
  BY <1>1, <1>3, <1>4, <1>5, FlowTypes DEF ConfiguredInv, StartInv
<1>8. SendInv'
  <2>1. CASE op = "send"
    <3>1. Len(todo) = 0
      <4>1. Len(todo) \in 0 .. 7
        BY <2>1, SendLeft DEF ChipInv
      <4> QED
        BY <1>1, <2>1, <4>1, FlowTypes DEF SendInv
    <3>2. /\ aired = {} /\ chip.irq = {} /\ chip.buffer = "this"
          /\ chip.params = "tx" /\ chip.iq /\ rfPath = "tx" /\ ~txOk
          /\ chip.setup = Settings \/ resetFailed
      BY <1>1, <2>1, <3>1, FlowTypes DEF SendInv, ConfiguredInv
    <3>3. CASE aired' = aired \cup {[frame |-> chip.buffer, clean |-> how]}
      <4>1. how \in BOOLEAN /\ (how \/ resetFailed')
        BY <1>3, <3>2, Zenon
      <4> HIDE DEF how
      <4>2. aired' = {[frame |-> "this", clean |-> how]}
        BY <3>2, <3>3
      <4>3. Ours'
        BY <4>1, <4>2, Zenon DEF Ours
      <4> QED
        BY <1>1, <1>3, <1>4, <1>5, <3>1, <3>2, <4>3, <2>1 DEF SendInv
    <3>4. CASE /\ chip' = [chip EXCEPT !.mode = "standby", !.irq = Raise({"timeout"})]
               /\ aired' = aired
      <4>1. "tx_done" \notin chip'.irq
        BY <3>2, <3>4, FlowTypes DEF Raise, ChipState
      <4> QED
        BY <1>1, <1>3, <1>4, <1>5, <3>1, <3>2, <3>4, <4>1, <2>1 DEF SendInv
    <3> QED
      BY <1>2, <3>3, <3>4
  <2>2. CASE op # "send"
    BY <1>1, <1>3, <1>4, <2>2, FlowTypes DEF SendInv
  <2> QED
    BY <2>1, <2>2
<1>9. RestoreInv' /\ ResetInv'
  BY <1>1, <1>3, <1>4, <1>5, FlowTypes DEF RestoreInv, ResetInv
<1> QED
  BY <1>6, <1>7, <1>8, <1>9 DEF FlowInv

LEMMA HangKeeps == ChipInv /\ (Hang \/ UNCHANGED vars) => ChipTypeOK' /\ FlowInv'
<1> SUFFICES ASSUME ChipInv, Hang \/ UNCHANGED vars PROVE ChipTypeOK' /\ FlowInv'
  OBVIOUS
<1>1. /\ rfPath' = rfPath /\ op' = op /\ todo' = todo /\ errors' = errors
      /\ aired' = aired /\ tried' = tried /\ txOk' = txOk /\ rxStarted' = rxStarted
      /\ resetFailed' = resetFailed
      /\ \/ chip' = [chip EXCEPT !.busy = TRUE] /\ faults > 0 /\ faults' = faults - 1
         \/ chip' = chip /\ faults' = faults
  BY DEF Hang, vars
<1>2. /\ tried' \in BOOLEAN /\ txOk' \in BOOLEAN /\ rxStarted' \in BOOLEAN
      /\ resetFailed' \in BOOLEAN
      /\ rxStarted' <=> rxStarted
      /\ txOk' <=> txOk
      /\ resetFailed' <=> resetFailed
      /\ Ours' <=> Ours
  BY <1>1, FlowTypes, Zenon DEF ChipTypeOK, Ours
<1>3. /\ chip' \in ChipState /\ chip'.mode = chip.mode /\ chip'.setup = chip.setup
      /\ chip'.params = chip.params /\ chip'.irq = chip.irq /\ chip'.buffer = chip.buffer
  BY <1>1, FlowTypes DEF ChipState
<1>4. chip'.iq <=> chip.iq
  <2>1. chip'.iq = chip.iq
    BY <1>1, FlowTypes DEF ChipState
  <2> QED
    BY <2>1, Zenon
<1>5. ChipTypeOK'
  <2>1. faults' \in 0 .. MaxFaults
    BY <1>1, FaultsSpent, FlowTypes
  <2> QED
    BY <1>1, <1>2, <1>3, <2>1, FlowTypes DEF ChipTypeOK, ChipState
<1>6. ConfiguredInv' /\ StartInv'
  BY <1>1, <1>2, <1>3, <1>4, FlowTypes DEF ConfiguredInv, StartInv
<1>7. SendInv'
  BY <1>1, <1>2, <1>3, <1>4, FlowTypes DEF SendInv
<1>8. RestoreInv' /\ ResetInv'
  BY <1>1, <1>2, <1>3, <1>4, FlowTypes DEF RestoreInv, ResetInv
<1> QED
  BY <1>5, <1>6, <1>7, <1>8 DEF FlowInv

-----------------------------------------------------------------------------
LEMMA ChipInit == Init => ChipInv
<1> SUFFICES ASSUME Init PROVE ChipInv
  OBVIOUS
<1>1. ChipTypeOK
  <2>1. chip \in ChipState
    BY DEF Init, ChipState, Settings
  <2>2. errors \in 0 .. Threshold /\ faults \in 0 .. MaxFaults
    BY ChipAssumption DEF Init
  <2>3. /\ tried \in BOOLEAN /\ txOk \in BOOLEAN /\ rxStarted \in BOOLEAN
        /\ resetFailed \in BOOLEAN
    BY Zenon DEF Init
  <2>4. rfPath = "rx" /\ op = "idle"
    BY DEF Init
  <2> QED
    BY <2>1, <2>2, <2>3, <2>4 DEF ChipTypeOK, ChipState
<1>2. TodoInv
  BY ProgramTypes, NothingLeft DEF Init, TodoInv
<1>3. ConfiguredInv /\ StartInv
  BY ChipAssumption DEF Init, ConfiguredInv, StartInv
<1>4. SendInv /\ RestoreInv /\ ResetInv
  BY DEF Init, SendInv, RestoreInv, ResetInv
<1> QED
  BY <1>1, <1>2, <1>3, <1>4 DEF ChipInv, FlowInv

LEMMA ChipStep == ChipInv /\ [Next]_vars => ChipInv'
<1> SUFFICES ASSUME ChipInv, [Next]_vars PROVE ChipInv'
  OBVIOUS
<1>1. TodoInv'
  BY TodoStep DEF ChipInv
<1>2. ChipTypeOK' /\ FlowInv'
  BY IssueKeeps, FailureKeeps, ResetEnds, PassKeeps, PollKeeps, TransmitKeeps,
     AwaitKeeps, RestoredKeeps, HearKeeps, TxEndsKeeps, HangKeeps, Zenon
     DEF Next, Service
<1> QED
  BY <1>1, <1>2 DEF ChipInv

\* The invariant of the radio wrapper and the chip, for every error threshold and
\* any number of failed commands and hangs.
THEOREM ChipInvariance == Spec => []ChipInv
BY ChipInit, ChipStep, PTL DEF Spec

\* Chip, driver and owner stay within their types; the error count never passes
\* RADIO_REINIT_ERROR_THRESHOLD.
THEOREM ChipTypeCorrect == Spec => []ChipTypeOK
<1>1. ChipInv => ChipTypeOK
  BY DEF ChipInv
<1> QED
  BY <1>1, ChipInvariance, PTL

\* When transmit reports a frame as sent, this frame and nothing else has left the
\* antenna, once, and as a transmission should unless a reset has failed.
THEOREM FrameSent == Spec => []SentIsOurs
<1>1. ChipInv => SentIsOurs
  BY DEF ChipInv, FlowInv, RestoreInv, Ours, SentIsOurs
<1> QED
  BY <1>1, ChipInvariance, PTL

\* Reception that start_rx, a restore or a reset reports as running is set up in
\* full, whatever failed before.
THEOREM ReceptionSetUp == Spec => []SuccessListens
<1>1. ChipInv => SuccessListens
  <2> SUFFICES ASSUME ChipInv, todo = <<>>,
                      op = "reset" \/ (op \in {"start", "restore"} /\ ~resetFailed)
               PROVE  SetToReceive
    BY DEF SuccessListens
  <2>1. Len(todo) = 0
    OBVIOUS
  <2>2. CASE op = "start" /\ ~resetFailed
    BY <2>1, <2>2, FlowTypes DEF StartInv, ConfiguredInv, SetToReceive
  <2>3. CASE op = "restore" /\ ~resetFailed
    BY <2>1, <2>3, FlowTypes DEF RestoreInv, ConfiguredInv, SetToReceive
  <2>4. CASE op = "reset"
    <3>1. chip.setup = Settings
      BY <2>1, <2>4, FlowTypes DEF ResetInv, ChipState, Settings
    <3> QED
      BY <2>1, <2>4, <3>1, FlowTypes DEF ResetInv, SetToReceive
  <2> QED
    BY <2>2, <2>3, <2>4
<1> QED
  BY <1>1, ChipInvariance, PTL

=============================================================================
