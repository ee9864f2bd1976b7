-------------------------- MODULE RadioOwnerProofs --------------------------
(***************************************************************************)
(* Proofs about RadioOwner, for all queue lengths, thresholds, airtimes    *)
(* and pauses, and for any number of frames and faults.                    *)
(***************************************************************************)
EXTENDS RadioOwner, TLAPS

\* Between the queue and the air: frames are queued, taken and sent in the order
\* of their numbers, and the one being sent was not on the air before.
SendOrder ==
    /\ \A i, j \in 1 .. Len(txQueue) : i < j => txQueue[i] < txQueue[j]
    /\ \A i \in 1 .. Len(txQueue) : sending < txQueue[i] /\ aired < txQueue[i]
                                    /\ txQueue[i] <= txCount
    /\ aired <= txCount /\ sending <= txCount
    /\ pc = "air" => aired < sending

\* Once the airtime of the last frame is booked, what has passed since and what is
\* still to wait make up the pause.  A frame is only begun when the wait is over.
PauseInv ==
    /\ aired # 0 /\ booked => rest = RestCap \/ rest + txWait >= Factor * lastAir
    /\ pc = "air" => txWait = 0

\* While no command has failed, an interrupt stands for a frame newer than all
\* that were queued.
HearOrder ==
    faults = MaxFaults =>
        /\ \A i, j \in 1 .. Len(rxQueue) : i < j => rxQueue[i] < rxQueue[j]
        /\ \A i \in 1 .. Len(rxQueue) : /\ taken < rxQueue[i]
                                        /\ rxQueue[i] <= rxCount
                                        /\ irq # 0 => rxQueue[i] < irq
        /\ taken <= rxCount /\ irq <= rxCount
        /\ irq # 0 => taken < irq

RadioInv == RadioTypeOK /\ SendOrder /\ PauseInv /\ HearOrder

-----------------------------------------------------------------------------
\* RadioAssumption, constant by constant.
LEMMA ConstantTypes ==
    /\ TxCap \in Nat /\ TxCap > 0 /\ RxCap \in Nat /\ RxCap > 0
    /\ Threshold \in Nat /\ Threshold > 0
    /\ Factor \in Nat /\ RxDelay \in Nat /\ MaxTx \in Nat /\ MaxRx \in Nat
    /\ MaxFaults \in Nat
BY RadioAssumption

\* The longest airtime is one, and no pause is longer than its.
LEMMA LongestAirtime ==
    /\ MaxAir \in Airtimes /\ MaxAir \in Nat
    /\ \A a \in Airtimes \cup {0} : a \in Nat /\ a <= MaxAir
<1>1. PICK a \in Airtimes : \A b \in Airtimes : b <= a
  BY RadioAssumption
<1>2. MaxAir \in Airtimes /\ \A b \in Airtimes : b <= MaxAir
  BY <1>1, Zenon DEF MaxAir
<1> QED
  BY <1>2, RadioAssumption

LEMMA PauseBound ==
    ASSUME NEW a \in Airtimes \cup {0}
    PROVE  Factor * a \in 0 .. Factor * MaxAir
<1>1. a \in Nat /\ MaxAir \in Nat /\ a <= MaxAir /\ Factor \in Nat
  BY LongestAirtime, RadioAssumption
<1>2. \A f, x, y \in Nat : x <= y => f * x \in Nat /\ f * y \in Nat /\ f * x <= f * y
  BY SMT
<1>3. Factor * a \in Nat /\ Factor * MaxAir \in Nat /\ Factor * a <= Factor * MaxAir
  BY <1>1, <1>2
<1> QED
  BY <1>3

LEMMA RestCapType == RestCap \in Nat /\ RestCap = Factor * MaxAir + 1
<1>1. Factor * MaxAir \in Nat
  BY LongestAirtime, PauseBound
<1> QED
  BY <1>1 DEF RestCap

-----------------------------------------------------------------------------
\* A queue within its capacity stays a queue within its capacity.
LEMMA QueueAppend ==
    ASSUME NEW n \in Nat, NEW cap \in Nat, NEW q \in Seq(1 .. n), Len(q) < cap,
           NEW e \in 1 .. n
    PROVE  /\ Append(q, e) \in Seq(1 .. n) /\ Len(Append(q, e)) <= cap
           /\ Len(Append(q, e)) = Len(q) + 1
           /\ \A i \in 1 .. Len(q) : Append(q, e)[i] = q[i]
           /\ Append(q, e)[Len(q) + 1] = e
OBVIOUS

LEMMA QueueTail ==
    ASSUME NEW n \in Nat, NEW cap \in Nat, NEW q \in Seq(1 .. n), Len(q) <= cap,
           q # <<>>
    PROVE  /\ Tail(q) \in Seq(1 .. n) /\ Len(Tail(q)) <= cap
           /\ Head(q) \in 1 .. n /\ Head(q) = q[1]
           /\ Len(Tail(q)) = Len(q) - 1 /\ 1 \in 1 .. Len(q)
           /\ \A i \in 1 .. Len(Tail(q)) : Tail(q)[i] = q[i + 1] /\ i + 1 \in 1 .. Len(q)
OBVIOUS

\* What a step may cost of the faults the environment has left.
FaultsSpent == faults' = faults \/ (faults > 0 /\ faults' = faults - 1)

LEMMA CommandsCost == \A ok \in BOOLEAN : Commands(ok) => FaultsSpent
BY DEF Commands, FaultsSpent

LEMMA StepsCost ==
    /\ StartRx => FaultsSpent /\ irq' \in {0, irq}
    /\ PollFrame => FaultsSpent /\ irq' \in {0, irq}
    /\ PollError => FaultsSpent
    /\ BeginTransmit => FaultsSpent
    /\ Air => FaultsSpent /\ irq' \in {0, irq} /\ aired' \in {sending, aired}
    /\ Restore => FaultsSpent /\ irq' \in {0, irq}
    /\ Reinit => FaultsSpent /\ irq' \in {0, irq}
<1>1. StartRx => FaultsSpent /\ irq' \in {0, irq}
  BY CommandsCost, Zenon DEF StartRx
<1>2. PollFrame => FaultsSpent /\ irq' \in {0, irq}
  BY Zenon DEF PollFrame, Rearm, FaultsSpent
<1>3. PollError => FaultsSpent
  BY CommandsCost, Zenon DEF PollError
<1>4. BeginTransmit => FaultsSpent
  BY CommandsCost, Zenon DEF BeginTransmit
<1>5. Air => FaultsSpent /\ irq' \in {0, irq} /\ aired' \in {sending, aired}
  BY CommandsCost, Zenon DEF Air
<1>6. Restore => FaultsSpent /\ irq' \in {0, irq}
  BY CommandsCost, Zenon DEF Restore
<1>7. Reinit => FaultsSpent /\ irq' \in {0, irq}
  BY Zenon DEF Reinit, chip, FaultsSpent
<1> QED
  BY <1>1, <1>2, <1>3, <1>4, <1>5, <1>6, <1>7

\* The gateway boots into the types.
LEMMA TypeInit == RadioInit => RadioTypeOK
<1> SUFFICES ASSUME RadioInit PROVE RadioTypeOK
  OBVIOUS
<1>1. 0 \in 0 .. Factor * MaxAir /\ 0 \in 0 .. RestCap
  BY LongestAirtime, PauseBound, RestCapType
<1>2. txQueue \in Seq(1 .. MaxTx) /\ Len(txQueue) = 0
      /\ rxQueue \in Seq(1 .. MaxRx) /\ Len(rxQueue) = 0
  BY DEF RadioInit
<1>3. /\ errors \in 0 .. Threshold /\ errors # Threshold /\ pc = "idle"
      /\ faults \in 0 .. MaxFaults /\ rxWait \in 0 .. RxDelay
      /\ sending \in 0 .. MaxTx /\ txCount \in 0 .. MaxTx /\ aired \in 0 .. MaxTx
      /\ irq \in 0 .. MaxRx /\ rxCount \in 0 .. MaxRx /\ taken \in 0 .. MaxRx
      /\ Len(txQueue) <= TxCap /\ Len(rxQueue) <= RxCap
  BY <1>2, ConstantTypes DEF RadioInit
<1>4. /\ txWait = 0 /\ rest = 0 /\ lastAir = 0 /\ rfPath = "rx"
      /\ receiving = FALSE /\ configured = TRUE /\ stuck = FALSE
      /\ txActive = FALSE /\ ready = FALSE /\ rxStarted = FALSE
      /\ sent = FALSE /\ booked = TRUE
  BY DEF RadioInit
<1> QED
  BY <1>1, <1>2, <1>3, <1>4, Zenon DEF RadioTypeOK

\* Every step of the owner, the chip and the client keeps the types.
LEMMA TypeStep == RadioTypeOK /\ [RadioNext]_radioVars => RadioTypeOK'
<1> SUFFICES ASSUME RadioTypeOK, [RadioNext]_radioVars PROVE RadioTypeOK'
  OBVIOUS
<1> USE ConstantTypes DEF RadioTypeOK
<1>1. CASE StartPass
  <2>1. pc' \in {"poll", "tx"} /\ sent' \in BOOLEAN
    BY <1>1, Zenon DEF StartPass
  <2> QED
    BY <1>1, <2>1 DEF StartPass, chip, owner, waits, sender, history
<1>2. CASE StartRx
  <2>1. /\ rxStarted' \in BOOLEAN /\ ready' \in BOOLEAN /\ receiving' \in BOOLEAN
        /\ sent' \in BOOLEAN /\ pc' \in {"poll", "tx"}
    BY <1>2, Zenon DEF StartRx
  <2>2. irq' \in {0, irq} /\ FaultsSpent
    BY <1>2, StepsCost
  <2>3. /\ sending' = 0 /\ pc = "idle"
        /\ UNCHANGED <<configured, stuck, rfPath, txActive, errors, waits, txQueue,
                       rxQueue, txCount, rxCount, history>>
    BY <1>2, Zenon DEF StartRx
  <2> QED
    BY <2>1, <2>2, <2>3 DEF waits, history, FaultsSpent
<1>3. CASE PollNothing
  BY <1>3 DEF PollNothing, chip, owner, waits, sender, history
<1>4. CASE PollFrame
  <2>1. irq \in 1 .. MaxRx
    BY <1>4 DEF PollFrame
  <2>2. rxQueue' \in Seq(1 .. MaxRx) /\ Len(rxQueue') <= RxCap
    <3>1. CASE rxQueue' = rxQueue
      BY <3>1
    <3>2. CASE Len(rxQueue) < RxCap /\ rxQueue' = Append(rxQueue, irq)
      BY <2>1, <3>2, QueueAppend
    <3> QED
      BY <1>4, <3>1, <3>2, Zenon DEF PollFrame
  <2>3. irq' \in {0, irq} /\ FaultsSpent
    BY <1>4, StepsCost
  <2>4. receiving' \in BOOLEAN
    BY <1>4, Zenon DEF PollFrame, Rearm
  <2> QED
    BY <1>4, <2>2, <2>3, <2>4, SMTT(30) DEF PollFrame, FaultsSpent, waits, sender
<1>5. CASE PollError
  BY <1>5 DEF PollError, Commands, RecordError, chip, owner, waits, sender, history
<1>6. CASE NoTransmit
  BY <1>6 DEF NoTransmit, chip, owner, waits, sender, history
<1>7. CASE BeginTransmit
  <2>1. txQueue' \in Seq(1 .. MaxTx) /\ Len(txQueue') <= TxCap /\ sending' \in 0 .. MaxTx
    BY <1>7, QueueTail DEF BeginTransmit, MayTransmit, AfterDequeue
  <2>2. /\ receiving' \in BOOLEAN /\ sent' \in BOOLEAN /\ txActive' \in BOOLEAN
    BY <1>7, Zenon DEF BeginTransmit
  <2>3. /\ FaultsSpent
        /\ \/ pc' = "air" /\ errors' = errors
           \/ RecordError("idle")
        /\ pc = "tx"
    BY <1>7, StepsCost, Zenon DEF BeginTransmit
  <2>4. /\ errors' \in 0 .. Threshold
        /\ errors' = Threshold <=> pc' = "reinit"
        /\ pc' \in {"idle", "poll", "tx", "air", "restore", "reinit"}
    BY <2>3 DEF RecordError
  <2> QED
    BY <1>7, <2>1, <2>2, <2>3, <2>4, SMTT(30) DEF BeginTransmit, waits, history, FaultsSpent
<1>8. CASE Air
  <2>1. 0 \in 0 .. RestCap
    BY RestCapType
  <2>2. booked' \in BOOLEAN /\ sent' \in BOOLEAN /\ txActive' \in BOOLEAN
    BY <1>8, Zenon DEF Air
  <2>3. FaultsSpent /\ irq' \in {0, irq} /\ aired' \in {sending, aired}
    BY <1>8, StepsCost
  <2>4. (lastAir' \in Airtimes \/ lastAir' = lastAir) /\ rest' \in {rest, 0}
    BY <1>8, Zenon DEF Air
  <2> QED
    BY <1>8, <2>1, <2>2, <2>3, <2>4 DEF Air, FaultsSpent
<1>9. CASE Restore
  <2>1. Factor * lastAir \in 0 .. Factor * MaxAir
    BY PauseBound
  <2>2. txWait' \in 0 .. Factor * MaxAir /\ booked' \in BOOLEAN
    BY <1>9, <2>1 DEF Restore, AirtimePause
  <2>3. /\ receiving' \in BOOLEAN /\ faults' \in 0 .. MaxFaults /\ irq' \in 0 .. MaxRx
        /\ errors' \in 0 .. Threshold
        /\ errors' = Threshold <=> pc' = "reinit"
        /\ pc' \in {"idle", "poll", "tx", "air", "restore", "reinit"}
    BY <1>9, SMTT(30) DEF Restore, Commands, RecordError
  <2> QED
    BY <1>9, <2>2, <2>3 DEF Restore, chip, owner, waits, sender, history
<1>10. CASE Reinit
  <2>1. /\ receiving' \in BOOLEAN /\ configured' \in BOOLEAN /\ stuck' \in BOOLEAN
        /\ rxStarted' \in BOOLEAN /\ ready' \in BOOLEAN
    BY <1>10, Zenon DEF Reinit, chip
  <2>2. irq' \in {0, irq} /\ FaultsSpent /\ pc' \in {"tx", "idle"}
    BY <1>10, StepsCost, Zenon DEF Reinit
  <2> QED
    BY <1>10, <2>1, <2>2 DEF Reinit, waits, sender, FaultsSpent
<1>11. CASE Tick
  <2>1. rest' \in 0 .. RestCap
    BY <1>11, RestCapType DEF Tick
  <2>2. txWait' \in 0 .. Factor * MaxAir
    BY <1>11, LongestAirtime, PauseBound DEF Tick
  <2> QED
    BY <1>11, <2>1, <2>2 DEF Tick, chip, owner, waits, sender, history
<1>12. CASE Hear
  BY <1>12 DEF Hear, chip, owner, waits, sender, history
<1>13. CASE Hang
  BY <1>13 DEF Hang, chip, owner, waits, sender, history
<1>14. CASE EnqueueTx
  <2> DEFINE next == txCount + 1
  <2>1. /\ txQueue' = Append(txQueue, next) /\ Len(txQueue) < TxCap /\ next \in 1 .. MaxTx
        /\ txQueue \in Seq(1 .. MaxTx) /\ MaxTx \in Nat /\ TxCap \in Nat
    BY <1>14 DEF EnqueueTx
  <2> HIDE DEF next
  <2>2. txQueue' \in Seq(1 .. MaxTx) /\ Len(txQueue') <= TxCap
    BY <2>1, QueueAppend, ZenonT(60)
  <2> QED
    BY <1>14, <2>2 DEF EnqueueTx, chip, owner, waits, sender, history
<1>15. CASE DequeueRx
  <2>1. rxQueue' \in Seq(1 .. MaxRx) /\ Len(rxQueue') <= RxCap /\ taken' \in 1 .. MaxRx
    BY <1>15, QueueTail DEF DequeueRx
  <2> QED
    BY <1>15, <2>1 DEF DequeueRx, chip, owner, waits, sender, history
<1>16. CASE UNCHANGED radioVars
  BY <1>16 DEF radioVars, chip, owner, waits, sender, history
<1> QED
  BY <1>1, <1>2, <1>3, <1>4, <1>5, <1>6, <1>7, <1>8, <1>9, <1>10, <1>11, <1>12,
     <1>13, <1>14, <1>15, <1>16 DEF RadioNext, Service

-----------------------------------------------------------------------------
\* Frames leave the TX queue in order and are on the air at most once.
LEMMA SendOrderStep ==
    RadioTypeOK /\ SendOrder /\ [RadioNext]_radioVars => SendOrder'
<1> SUFFICES ASSUME RadioTypeOK, SendOrder, [RadioNext]_radioVars PROVE SendOrder'
  OBVIOUS
<1>a. /\ txQueue \in Seq(1 .. MaxTx) /\ Len(txQueue) \in Nat /\ Len(txQueue) <= TxCap
      /\ \A i \in 1 .. Len(txQueue) : txQueue[i] \in 1 .. MaxTx
      /\ sending \in Nat /\ txCount \in Nat /\ aired \in Nat
      /\ MaxTx \in Nat /\ TxCap \in Nat
  BY ConstantTypes DEF RadioTypeOK
<1> USE <1>a
<1>1. CASE sending' = 0 /\ pc' # "air" /\ UNCHANGED <<txQueue, txCount, aired>>
  BY <1>1 DEF SendOrder
<1>2. CASE (pc' = "air" => pc = "air") /\ UNCHANGED <<txQueue, txCount, aired, sending>>
  BY <1>2 DEF SendOrder
<1>3. CASE BeginTransmit
  <2>1. /\ txQueue # <<>> /\ txQueue' = Tail(txQueue) /\ sending' = Head(txQueue)
        /\ UNCHANGED <<txCount, aired>>
    BY <1>3 DEF BeginTransmit, MayTransmit, AfterDequeue, history
  <2>2. /\ Head(txQueue) = txQueue[1] /\ 1 \in 1 .. Len(txQueue)
        /\ Tail(txQueue) \in Seq(1 .. MaxTx)
        /\ Len(Tail(txQueue)) = Len(txQueue) - 1
        /\ \A i \in 1 .. Len(Tail(txQueue)) :
               Tail(txQueue)[i] = txQueue[i + 1] /\ i + 1 \in 1 .. Len(txQueue)
    BY <2>1, QueueTail
  <2>3. \A i, j \in 1 .. Len(txQueue') : i < j => txQueue'[i] < txQueue'[j]
    BY <2>1, <2>2 DEF SendOrder
  <2>4. \A i \in 1 .. Len(txQueue') : /\ sending' < txQueue'[i] /\ aired' < txQueue'[i]
                                     /\ txQueue'[i] <= txCount'
    BY <2>1, <2>2 DEF SendOrder
  <2>5. aired' <= txCount' /\ sending' <= txCount' /\ aired' < sending'
    BY <2>1, <2>2 DEF SendOrder
  <2> QED
    BY <2>3, <2>4, <2>5 DEF SendOrder
<1>4. CASE Air
  <2>1. /\ aired' \in {sending, aired} /\ pc' = "restore"
        /\ UNCHANGED <<txQueue, txCount, sending>>
    BY <1>4, StepsCost DEF Air
  <2> QED
    BY <2>1 DEF SendOrder
<1>5. CASE EnqueueTx
  <2>1. /\ Len(txQueue) < TxCap /\ txCount < MaxTx /\ txCount' = txCount + 1 /\ pc' = "idle"
        /\ txQueue' = Append(txQueue, txCount + 1) /\ UNCHANGED <<aired, sending>>
    BY <1>5 DEF EnqueueTx, history, sender
  <2>2. /\ Len(txQueue') = Len(txQueue) + 1
        /\ \A i \in 1 .. Len(txQueue) : txQueue'[i] = txQueue[i]
        /\ txQueue'[Len(txQueue) + 1] = txCount + 1
    BY <2>1, QueueAppend
  <2>3. \A i \in 1 .. Len(txQueue') : i \in 1 .. Len(txQueue) \/ i = Len(txQueue) + 1
    BY <2>2
  <2>4. \A i, j \in 1 .. Len(txQueue') : i < j => txQueue'[i] < txQueue'[j]
    BY <2>1, <2>2, <2>3 DEF SendOrder
  <2>5. \A i \in 1 .. Len(txQueue') : /\ sending' < txQueue'[i] /\ aired' < txQueue'[i]
                                     /\ txQueue'[i] <= txCount'
    BY <2>1, <2>2, <2>3 DEF SendOrder
  <2>6. aired' <= txCount' /\ sending' <= txCount' /\ pc' # "air"
    BY <2>1 DEF SendOrder
  <2> QED
    BY <2>4, <2>5, <2>6 DEF SendOrder
<1>6. ASSUME ~BeginTransmit, ~Air, ~EnqueueTx
      PROVE  \/ sending' = 0 /\ pc' # "air" /\ UNCHANGED <<txQueue, txCount, aired>>
             \/ (pc' = "air" => pc = "air") /\ UNCHANGED <<txQueue, txCount, aired, sending>>
  <2>1. StartPass \/ StartRx
            => sending' = 0 /\ pc' # "air" /\ UNCHANGED <<txQueue, txCount, aired>>
    BY DEF StartPass, StartRx, history
  <2>2. PollNothing \/ PollFrame \/ PollError \/ NoTransmit \/ Restore \/ Reinit
            => pc' # "air" /\ UNCHANGED <<txQueue, txCount, aired, sending>>
    BY DEF PollNothing, PollFrame, PollError, NoTransmit, Restore, Reinit, RecordError,
           sender, history
  <2>3. Tick \/ Hear \/ Hang \/ DequeueRx \/ UNCHANGED radioVars
            => pc' = pc /\ UNCHANGED <<txQueue, txCount, aired, sending>>
    BY DEF Tick, Hear, Hang, DequeueRx, radioVars, sender, history
  <2> QED
    BY <1>6, <2>1, <2>2, <2>3, Zenon DEF RadioNext, Service
<1> QED
  BY <1>1, <1>2, <1>3, <1>4, <1>5, <1>6

\* The pause that is booked is kept: time and wait run together.
LEMMA PauseStep ==
    RadioTypeOK /\ SendOrder /\ PauseInv /\ [RadioNext]_radioVars => PauseInv'
<1> SUFFICES ASSUME RadioTypeOK, SendOrder, PauseInv, [RadioNext]_radioVars PROVE PauseInv'
  OBVIOUS
<1>a. /\ rest \in Nat /\ txWait \in Nat /\ Factor * lastAir \in Nat /\ RestCap \in Nat
      /\ booked \in BOOLEAN /\ rest <= RestCap
  BY PauseBound, LongestAirtime, RestCapType, ConstantTypes DEF RadioTypeOK
<1> USE <1>a
<1>1. CASE (pc' = "air" => pc = "air") /\ UNCHANGED <<aired, booked, rest, txWait, lastAir>>
  BY <1>1 DEF PauseInv
<1>2. CASE BeginTransmit
  <2>1. txWait' = 0 /\ UNCHANGED <<aired, booked, rest, txWait, lastAir>>
    BY <1>2 DEF BeginTransmit, MayTransmit, history, waits
  <2> QED
    BY <2>1 DEF PauseInv
<1>3. CASE Air
  <2>1. pc' = "restore" /\ txWait' = txWait /\ aired' \in {sending, aired} /\ aired < sending
    BY <1>3, StepsCost DEF Air, SendOrder
  <2>2. CASE aired' = aired
    <3>1. booked' = booked /\ rest' = rest
      BY <1>3, <2>2 DEF Air
    <3>2. lastAir' = lastAir
      <4>1. aired' # sending
        BY <2>1, <2>2, ConstantTypes DEF RadioTypeOK
      <4> QED
        BY <1>3, <4>1, Zenon DEF Air
    <3> QED
      BY <2>1, <2>2, <3>1, <3>2 DEF PauseInv
  <2>3. CASE aired' # aired
    <3>1. ~booked'
      BY <1>3, <2>3, Zenon DEF Air
    <3> QED
      BY <2>1, <3>1 DEF PauseInv
  <2> QED
    BY <2>2, <2>3
<1>4. CASE Restore
  <2>1. pc' # "air" /\ UNCHANGED <<aired, rest, lastAir>>
    BY <1>4 DEF Restore, RecordError, history
  <2>2. txWait' = Factor * lastAir \/ UNCHANGED <<txWait, booked>>
    BY <1>4, Zenon DEF Restore, AirtimePause
  <2> QED
    BY <2>1, <2>2 DEF PauseInv
<1>5. CASE Tick
  <2>1. pc' # "air" /\ UNCHANGED <<aired, booked, lastAir>>
    BY <1>5 DEF Tick
  <2>2. /\ txWait' = IF txWait = 0 THEN 0 ELSE txWait - 1
        /\ rest' = IF rest = RestCap THEN rest ELSE rest + 1
    BY <1>5 DEF Tick
  <2> QED
    BY <2>1, <2>2 DEF PauseInv
<1>6. ASSUME ~BeginTransmit, ~Air, ~Restore, ~Tick
      PROVE  (pc' = "air" => pc = "air") /\ UNCHANGED <<aired, booked, rest, txWait, lastAir>>
  <2>1. StartPass \/ StartRx \/ PollNothing \/ PollFrame \/ PollError \/ NoTransmit \/ Reinit
            => pc' # "air" /\ UNCHANGED <<aired, booked, rest, txWait, lastAir>>
    BY DEF StartPass, StartRx, PollNothing, PollFrame, PollError, NoTransmit, Reinit,
           RecordError, waits, history
  <2>2. Hear \/ Hang \/ EnqueueTx \/ DequeueRx \/ UNCHANGED radioVars
            => pc' = pc /\ UNCHANGED <<aired, booked, rest, txWait, lastAir>>
    BY DEF Hear, Hang, EnqueueTx, DequeueRx, radioVars, waits, history
  <2> QED
    BY <1>6, <2>1, <2>2, Zenon DEF RadioNext, Service
<1> QED
  BY <1>1, <1>2, <1>3, <1>4, <1>5, <1>6

\* As long as no command fails, a frame is queued once and before the next is heard.
LEMMA HearOrderStep ==
    RadioTypeOK /\ HearOrder /\ [RadioNext]_radioVars => HearOrder'
<1> SUFFICES ASSUME RadioTypeOK, HearOrder, [RadioNext]_radioVars, faults' = MaxFaults
             PROVE  HearOrder'
  BY DEF HearOrder
<1>a. /\ rxQueue \in Seq(1 .. MaxRx) /\ Len(rxQueue) \in Nat /\ Len(rxQueue) <= RxCap
      /\ \A i \in 1 .. Len(rxQueue) : rxQueue[i] \in 1 .. MaxRx
      /\ irq \in Nat /\ rxCount \in Nat /\ taken \in Nat /\ irq <= MaxRx
      /\ MaxRx \in Nat /\ RxCap \in Nat
  BY ConstantTypes DEF RadioTypeOK
<1>b. FaultsSpent => faults = MaxFaults /\ faults' = faults
  BY ConstantTypes DEF FaultsSpent, RadioTypeOK
<1> USE <1>a
<1>1. CASE FaultsSpent /\ irq' \in {0, irq} /\ UNCHANGED <<rxQueue, rxCount, taken>>
  BY <1>1, <1>b DEF HearOrder
<1>2. CASE PollFrame
  <2>1. faults = MaxFaults /\ faults' = faults /\ irq # 0 /\ UNCHANGED <<rxCount, taken>>
    BY <1>2, <1>b, StepsCost DEF PollFrame
  <2>2. irq' = 0
    BY <1>2, <2>1, ConstantTypes DEF PollFrame, Rearm
  <2>3. CASE rxQueue' = rxQueue
    BY <2>1, <2>2, <2>3 DEF HearOrder
  <2>4. CASE Len(rxQueue) < RxCap /\ rxQueue' = Append(rxQueue, irq)
    <3>1. /\ Len(rxQueue') = Len(rxQueue) + 1
          /\ \A i \in 1 .. Len(rxQueue) : rxQueue'[i] = rxQueue[i]
          /\ rxQueue'[Len(rxQueue) + 1] = irq
      BY <2>1, <2>4, QueueAppend
    <3>2. \A i \in 1 .. Len(rxQueue') : i \in 1 .. Len(rxQueue) \/ i = Len(rxQueue) + 1
      BY <3>1
    <3>3. ASSUME NEW i \in 1 .. Len(rxQueue'), NEW j \in 1 .. Len(rxQueue'), i < j
          PROVE  rxQueue'[i] < rxQueue'[j]
      <4>1. i \in 1 .. Len(rxQueue)
        BY <3>1, <3>3
      <4>2. CASE j \in 1 .. Len(rxQueue)
        BY <2>1, <3>1, <3>3, <4>1, <4>2 DEF HearOrder
      <4>3. CASE j = Len(rxQueue) + 1
        BY <2>1, <3>1, <4>1, <4>3 DEF HearOrder
      <4> QED
        BY <3>2, <4>2, <4>3
    <3>4. \A i \in 1 .. Len(rxQueue') : taken' < rxQueue'[i] /\ rxQueue'[i] <= rxCount'
      BY <2>1, <3>1, <3>2 DEF HearOrder
    <3> QED
      BY <2>1, <2>2, <3>3, <3>4 DEF HearOrder
  <2> QED
    BY <1>2, <2>3, <2>4, Zenon DEF PollFrame
<1>3. CASE Hear
  <2>1. /\ faults' = faults /\ rxCount' = rxCount + 1 /\ irq' = rxCount + 1
        /\ UNCHANGED <<rxQueue, taken>>
    BY <1>3 DEF Hear, history
  <2> QED
    BY <2>1 DEF HearOrder
<1>4. CASE DequeueRx
  <2>1. /\ rxQueue # <<>> /\ rxQueue' = Tail(rxQueue) /\ taken' = Head(rxQueue)
        /\ UNCHANGED <<faults, rxCount, irq>>
    BY <1>4 DEF DequeueRx, chip
  <2>2. /\ Head(rxQueue) = rxQueue[1] /\ 1 \in 1 .. Len(rxQueue)
        /\ Len(Tail(rxQueue)) = Len(rxQueue) - 1
        /\ \A i \in 1 .. Len(Tail(rxQueue)) :
               Tail(rxQueue)[i] = rxQueue[i + 1] /\ i + 1 \in 1 .. Len(rxQueue)
    BY <2>1, QueueTail
  <2> QED
    BY <2>1, <2>2 DEF HearOrder
<1>5. ASSUME ~PollFrame, ~Hear, ~DequeueRx
      PROVE  FaultsSpent /\ irq' \in {0, irq} /\ UNCHANGED <<rxQueue, rxCount, taken>>
  <2>1. StartRx \/ Restore \/ Reinit \/ Air => UNCHANGED <<rxQueue, rxCount, taken>>
    BY DEF StartRx, Restore, Reinit, Air, history
  <2>2. PollError \/ BeginTransmit => irq' = irq /\ UNCHANGED <<rxQueue, rxCount, taken>>
    BY DEF PollError, BeginTransmit, chip, history
  <2>3. Hang => FaultsSpent /\ irq' = irq /\ UNCHANGED <<rxQueue, rxCount, taken>>
    BY DEF Hang, FaultsSpent, history
  <2>4. StartPass \/ PollNothing \/ NoTransmit \/ Tick \/ EnqueueTx \/ UNCHANGED radioVars
            => faults' = faults /\ irq' = irq /\ UNCHANGED <<rxQueue, rxCount, taken>>
    BY DEF StartPass, PollNothing, NoTransmit, Tick, EnqueueTx, radioVars, chip, history
  <2> QED
    BY <1>5, <2>1, <2>2, <2>3, <2>4, StepsCost DEF RadioNext, Service, FaultsSpent
<1> QED
  BY <1>1, <1>2, <1>3, <1>4, <1>5

-----------------------------------------------------------------------------
\* The inductive invariant of the radio owner: types, the order of sending, the
\* pause and the order of hearing.
THEOREM RadioInvariance == RadioSpec => []RadioInv
<1>1. RadioInit => RadioInv
  <2> SUFFICES ASSUME RadioInit PROVE RadioInv
    OBVIOUS
  <2>1. RadioTypeOK
    BY TypeInit
  <2>2. Len(txQueue) = 0 /\ Len(rxQueue) = 0
    BY DEF RadioInit
  <2>3. SendOrder /\ PauseInv /\ HearOrder
    BY <2>2 DEF RadioInit, SendOrder, PauseInv, HearOrder
  <2> QED
    BY <2>1, <2>3 DEF RadioInv
<1>2. RadioInv /\ [RadioNext]_radioVars => RadioInv'
  BY TypeStep, SendOrderStep, PauseStep, HearOrderStep DEF RadioInv
<1> QED
  BY <1>1, <1>2, PTL DEF RadioSpec

\* Whatever service passes, faults and resets come, every variable keeps its type,
\* the queues their capacity and the error count its threshold.
THEOREM RadioTypeCorrect == RadioSpec => []RadioTypeOK
<1>1. RadioInv => RadioTypeOK
  BY DEF RadioInv
<1> QED
  BY <1>1, RadioInvariance, PTL

\* The client reads frames in the order they were heard, none twice, while no
\* command has failed (poll_receive, dequeue_rx_frame).
THEOREM HeardInOrder == RadioSpec => []HeardOnceInOrder
<1>1. RadioInv => HeardOnceInOrder
  <2> SUFFICES ASSUME RadioInv, faults = MaxFaults, NEW i \in 1 .. Len(rxQueue)
               PROVE  rxQueue[i] > IF i = 1 THEN taken ELSE rxQueue[i - 1]
    BY DEF HeardOnceInOrder
  <2>1. /\ rxQueue \in Seq(1 .. MaxRx) /\ Len(rxQueue) \in Nat /\ taken \in Nat /\ MaxRx \in Nat
        /\ \A j \in 1 .. Len(rxQueue) : rxQueue[j] \in 1 .. MaxRx
    BY ConstantTypes DEF RadioInv, RadioTypeOK
  <2>2. CASE i = 1
    BY <2>1, <2>2 DEF RadioInv, HearOrder
  <2>3. CASE i # 1
    <3>1. i - 1 \in 1 .. Len(rxQueue) /\ i - 1 < i
      BY <2>1, <2>3
    <3> QED
      BY <2>1, <2>3, <3>1 DEF RadioInv, HearOrder
  <2> QED
    BY <2>2, <2>3
<1> QED
  BY <1>1, RadioInvariance, PTL

\* Each frame that goes on the air was queued after the one before it: none is sent
\* twice or out of order, even when a failed transmission may or may not have sent.
THEOREM AiredInOrder == RadioSpec => [][aired' # aired => aired < aired' /\ aired' <= txCount]_radioVars
<1>1. RadioInv /\ [RadioNext]_radioVars
          => [aired' # aired => aired < aired' /\ aired' <= txCount]_radioVars
  <2> SUFFICES ASSUME RadioInv, RadioNext, aired' # aired
               PROVE  aired < aired' /\ aired' <= txCount
    OBVIOUS
  <2>1. Air
    BY DEF RadioNext, Service, StartPass, StartRx, PollNothing, PollFrame, PollError,
           NoTransmit, BeginTransmit, Restore, Reinit, Tick, Hear, Hang, EnqueueTx,
           DequeueRx, history
  <2>2. aired' = sending /\ pc = "air"
    BY <2>1, StepsCost DEF Air
  <2> QED
    BY <2>2 DEF RadioInv, SendOrder
<1> QED
  BY <1>1, RadioInvariance, PTL DEF RadioSpec

\* After a transmission reported as sent nothing goes on the air before its pause
\* is over, through errors and resets alike (service, record_radio_io_error).
THEOREM PauseKept == RadioSpec => SpacedAfterSent
<1>1. RadioInv /\ [RadioNext]_radioVars
          => [aired' # aired /\ aired # 0 /\ booked => rest >= Factor * lastAir]_radioVars
  <2> SUFFICES ASSUME RadioInv, RadioNext, aired' # aired, aired # 0, booked
               PROVE  rest >= Factor * lastAir
    OBVIOUS
  <2>1. Air
    BY DEF RadioNext, Service, StartPass, StartRx, PollNothing, PollFrame, PollError,
           NoTransmit, BeginTransmit, Restore, Reinit, Tick, Hear, Hang, EnqueueTx,
           DequeueRx, history
  <2>2. txWait = 0
    BY <2>1 DEF Air, RadioInv, PauseInv
  <2>3. Factor * lastAir \in 0 .. Factor * MaxAir
    BY PauseBound DEF RadioInv, RadioTypeOK
  <2>4. Factor * MaxAir \in Nat /\ RestCap = Factor * MaxAir + 1
    BY LongestAirtime, PauseBound, RestCapType
  <2>5. rest \in 0 .. RestCap
    BY DEF RadioInv, RadioTypeOK
  <2>6. rest \in Nat /\ Factor * lastAir \in Nat /\ Factor * lastAir <= RestCap
    BY <2>3, <2>4, <2>5
  <2> QED
    BY <2>2, <2>6 DEF RadioInv, PauseInv
<1> QED
  BY <1>1, RadioInvariance, PTL DEF RadioSpec, SpacedAfterSent

=============================================================================
