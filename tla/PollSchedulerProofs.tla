------------------------ MODULE PollSchedulerProofs ------------------------
(***************************************************************************)
(* Proofs about PollScheduler, for every number of producers, every        *)
(* interval, retry count, poll duration and counter bound.                 *)
(***************************************************************************)
EXTENDS PollScheduler, FiniteSetTheorems, WellFoundedInduction, TLAPS

\* A pass is under way while a poll or a debt is, and the requests a tick
\* takes live no longer than its pass.
PassInv ==
    /\ polling # 0 => inPass
    /\ dueLeft # {} => inPass
    /\ ~inPass => taken = 0

IInv ==
    /\ TypeOK
    /\ PassInv
    /\ RetryOwed
    /\ RequestsConserved
    /\ FailureHasReason

-----------------------------------------------------------------------------
\* Saturating arithmetic stays in range.
LEMMA SatAddRange ==
    ASSUME NEW a \in Nat, NEW b \in Nat
    PROVE  SatAdd(a, b) \in 0 .. MaxCount
BY SchedulerAssumption DEF SatAdd

\* Letting time pass leaves every wait a natural number.
LEMMA ElapseType ==
    ASSUME NEW w \in [Producer -> Nat], NEW d \in Nat
    PROVE  Elapse(w, d) \in [Producer -> Nat]
BY DEF Elapse, Monus

\* The initial spread of the entries is a natural number for each of them.
LEMMA SpreadType ==
    ASSUME NEW jitter \in [Producer -> 0 .. Jitter], NEW p \in Producer
    PROVE  (p - 1) * Spacing + jitter[p] \in Nat
<1>1. Spacing \in Nat
  BY SchedulerAssumption, SMT DEF Spacing
<1>2. p - 1 \in Nat /\ jitter[p] \in Nat
  BY SchedulerAssumption DEF Producer
<1>3. \A a, b \in Nat : a * b \in Nat
  BY SMT
<1> QED
  BY <1>1, <1>2, <1>3

\* What a tick forces on the entries keeps their types.
LEMMA ForcedType ==
    ASSUME TypeOK
    PROVE  /\ ForcedWait \in [Producer -> Nat]
           /\ ForcedRetries \in [Producer -> Nat]
BY DEF ForcedWait, ForcedRetries, TypeOK

\* Re-arming an entry keeps the types of the schedule.
LEMMA RearmType ==
    ASSUME TypeOK, NEW p \in Producer, NEW d \in PollTimes, NEW delay \in Nat,
           Rearm(p, d, delay)
    PROVE  /\ wait' \in [Producer -> Nat]
           /\ passAge' \in Nat
           /\ polling' = 0
           /\ UNCHANGED <<radioReady, pending, issued, taken, inPass, dueLeft>>
<1>1. d \in Nat
  BY SchedulerAssumption
<1>2. Elapse(wait, d) \in [Producer -> Nat]
  BY <1>1, ElapseType DEF TypeOK
<1>3. Monus(delay, passAge + d) \in Nat
  BY <1>1 DEF Monus, TypeOK
<1> QED
  BY <1>1, <1>2, <1>3 DEF Rearm, TypeOK, reqVars

-----------------------------------------------------------------------------
\* PollScheduler::new makes a well-typed schedule.
LEMMA TypeInit == Init => TypeOK
<1> SUFFICES ASSUME Init PROVE TypeOK
  OBVIOUS
<1>1. wait \in [Producer -> Nat]
  <2>1. PICK jitter \in [Producer -> 0 .. Jitter] :
            wait = [p \in Producer |-> (p - 1) * Spacing + jitter[p]]
    BY DEF Init
  <2> QED
    BY <2>1, SpreadType
<1>2. 0 \in Nat /\ 0 \in 0 .. MaxCount /\ 0 \in 0 .. MaxPending
  BY SchedulerAssumption
<1>3. /\ retries \in [Producer -> Nat]
      /\ okTotal \in [Producer -> 0 .. MaxCount]
      /\ failTotal \in [Producer -> 0 .. MaxCount]
      /\ lastOk \in [Producer -> {"none", "true", "false"}]
      /\ lastError \in [Producer -> Reasons \cup {NoReason}]
  BY <1>2, Zenon DEF Init
<1> QED
  BY <1>1, <1>2, <1>3 DEF Init, TypeOK

\* Every operation keeps waits, attempts and counters within their types.
LEMMA TypeStep == TypeOK /\ [Next]_vars => TypeOK'
<1> SUFFICES ASSUME TypeOK, [Next]_vars PROVE TypeOK'
  OBVIOUS
<1> USE SchedulerAssumption
<1>1. CASE Advance
  <2>1. wait' \in [Producer -> Nat]
    BY <1>1, ElapseType DEF Advance, TypeOK
  <2> QED
    BY <1>1, <2>1 DEF Advance, TypeOK, reqVars, passVars, nodeStats, gwStats
<1>2. CASE RadioUp
  BY <1>2 DEF RadioUp, TypeOK, reqVars, passVars, nodeStats, gwStats
<1>3. CASE RequestPollNow
  <2>1. issued' \in 0 .. MaxCount
    BY <1>3, SatAddRange DEF RequestPollNow, TypeOK
  <2> QED
    BY <1>3, <2>1 DEF RequestPollNow, TypeOK, schedVars, passVars, nodeStats,
                      gwStats
<1>4. CASE TickPoll
  <2>1. ForcedWait \in [Producer -> Nat] /\ ForcedRetries \in [Producer -> Nat]
    BY ForcedType
  <2> QED
    BY <1>4, <2>1 DEF TickPoll, Due, TypeOK, nodeStats, gwStats
<1>5. CASE TickNoPoll
  <2>1. gwOnDemand' \in 0 .. MaxCount
    BY <1>5, SatAddRange DEF TickNoPoll, TypeOK
  <2>2. ForcedWait \in [Producer -> Nat] /\ ForcedRetries \in [Producer -> Nat]
    BY ForcedType
  <2> QED
    BY <1>5, <2>1, <2>2 DEF TickNoPoll, TypeOK, passVars, nodeStats
<1>6. CASE EndPass
  <2>1. gwRetry' \in 0 .. MaxCount /\ gwOnDemand' \in 0 .. MaxCount
    BY <1>6, SatAddRange DEF EndPass, TypeOK
  <2>2. /\ inPass' \in BOOLEAN /\ passAge' \in Nat /\ retrying' \in Nat
        /\ taken' \in 0 .. MaxPending
    <3>1. inPass' = FALSE /\ passAge' = 0 /\ retrying' = 0 /\ taken' = 0
      BY <1>6 DEF EndPass
    <3>2. 0 \in Nat /\ 0 \in 0 .. MaxPending
      OBVIOUS
    <3> QED
      BY <3>1, <3>2, Zenon
  <2>3. UNCHANGED <<wait, retries, radioReady, pending, issued, dueLeft,
                    polling, okTotal, failTotal, lastOk, lastError, gwOk, gwFail>>
    BY <1>6 DEF EndPass, schedVars, nodeStats
  <2> HIDE SchedulerAssumption
  <2> QED
    BY <2>1, <2>2, <2>3 DEF TypeOK
<1>7. ASSUME NEW p \in Producer, BeginPoll(p) PROVE TypeOK'
  BY <1>7 DEF BeginPoll, TypeOK, schedVars, reqVars, nodeStats, gwStats
<1>8. ASSUME NEW p \in Producer, NEW d \in PollTimes, PollOk(p, d)
      PROVE  TypeOK'
  <2>1. /\ wait' \in [Producer -> Nat] /\ passAge' \in Nat /\ polling' = 0
        /\ UNCHANGED <<radioReady, pending, issued, taken, inPass, dueLeft>>
    BY <1>8, RearmType DEF PollOk, MarkPolled
  <2>2. SatAdd(okTotal[p], 1) \in 0 .. MaxCount /\ gwOk' \in 0 .. MaxCount
    BY <1>8, SatAddRange DEF PollOk, TypeOK
  <2> QED
    BY <1>8, <2>1, <2>2 DEF PollOk, MarkPolled, TypeOK
<1>9. ASSUME NEW p \in Producer, NEW d \in PollTimes, NEW reason \in Reasons,
             PollFailed(p, d, reason)
      PROVE  TypeOK'
  <2>1. /\ wait' \in [Producer -> Nat] /\ passAge' \in Nat /\ polling' = 0
        /\ UNCHANGED <<radioReady, pending, issued, taken, inPass, dueLeft>>
    BY <1>9, RearmType DEF PollFailed, MarkPolled
  <2>2. SatAdd(failTotal[p], 1) \in 0 .. MaxCount /\ gwFail' \in 0 .. MaxCount
    BY <1>9, SatAddRange DEF PollFailed, TypeOK
  <2> QED
    BY <1>9, <2>1, <2>2 DEF PollFailed, MarkPolled, TypeOK
<1>10. ASSUME NEW p \in Producer, NEW d \in PollTimes, NEW reason \in Reasons,
              PollRetry(p, d, reason)
       PROVE  TypeOK'
  <2>1. RetryDelay \in Nat
    BY DEF RetryDelay
  <2>2. /\ wait' \in [Producer -> Nat] /\ passAge' \in Nat /\ polling' = 0
        /\ UNCHANGED <<radioReady, pending, issued, taken, inPass, dueLeft>>
    BY <1>10, <2>1, RearmType DEF PollRetry
  <2>3. /\ retries' \in [Producer -> Nat]
        /\ retrying' \in Nat
        /\ lastError' \in [Producer -> Reasons \cup {NoReason}]
    BY <1>10 DEF PollRetry, TypeOK
  <2> QED
    BY <1>10, <2>2, <2>3 DEF PollRetry, TypeOK, gwStats
<1>11. CASE UNCHANGED vars
  BY <1>11 DEF vars, TypeOK, schedVars, reqVars, passVars, nodeStats, gwStats
<1> QED
  BY <1>1, <1>2, <1>3, <1>4, <1>5, <1>6, <1>7, <1>8, <1>9, <1>10, <1>11
  DEF Next, EndPoll

\* The types hold for every instance.
THEOREM TypeCorrect == Spec => []TypeOK
<1> QED
  BY TypeInit, TypeStep, PTL DEF Spec

-----------------------------------------------------------------------------
\* A request and its receipt cancel out, wherever the counters saturate.
LEMMA SatAddAssoc ==
    ASSUME NEW a \in Nat, NEW b \in Nat, NEW c \in Nat
    PROVE  /\ SatAdd(a, SatAdd(b, c)) = SatAdd(a + c, b)
           /\ SatAdd(SatAdd(a, b), c) = SatAdd(a + c, b)
BY SchedulerAssumption DEF SatAdd

\* The invariant holds before the first tick.
LEMMA InvInit == Init => IInv
<1> SUFFICES ASSUME Init PROVE IInv
  OBVIOUS
<1>1. TypeOK
  BY TypeInit
<1>2. PassInv
  BY DEF Init, PassInv
<1>3. RetryOwed
  BY DEF Init, RetryOwed
<1>4. RequestsConserved
  BY SchedulerAssumption DEF Init, RequestsConserved, SatAdd
<1>5. FailureHasReason
  BY DEF Init, FailureHasReason
<1> QED
  BY <1>1, <1>2, <1>3, <1>4, <1>5 DEF IInv

\* The bookkeeping of the pass.
LEMMA PassStep == IInv /\ [Next]_vars => PassInv'
<1> SUFFICES ASSUME TypeOK, PassInv, [Next]_vars PROVE PassInv'
  BY DEF IInv
<1>1. CASE Advance
  BY <1>1 DEF Advance, PassInv, reqVars, passVars
<1>2. CASE RadioUp
  BY <1>2 DEF RadioUp, PassInv, reqVars, passVars
<1>3. CASE RequestPollNow
  BY <1>3 DEF RequestPollNow, PassInv, passVars
<1>4. CASE TickPoll
  BY <1>4 DEF TickPoll, PassInv
<1>5. CASE TickNoPoll
  BY <1>5 DEF TickNoPoll, PassInv, passVars
<1>6. CASE EndPass
  BY <1>6 DEF EndPass, PassInv
<1>7. ASSUME NEW p \in Producer, BeginPoll(p) PROVE PassInv'
  BY <1>7 DEF BeginPoll, PassInv, reqVars
<1>8. ASSUME NEW p \in Producer, EndPoll(p) PROVE PassInv'
  <2>1. polling' = 0 /\ UNCHANGED <<inPass, dueLeft, taken>>
    BY <1>8 DEF EndPoll, PollOk, PollFailed, PollRetry, MarkPolled, Rearm, reqVars
  <2> QED
    BY <2>1 DEF PassInv
<1>9. CASE UNCHANGED vars
  BY <1>9 DEF vars, PassInv, reqVars, passVars
<1> QED
  BY <1>1, <1>2, <1>3, <1>4, <1>5, <1>6, <1>7, <1>8, <1>9 DEF Next

\* Time shortens what is left of the delay no more than what is left to wait.
LEMMA LeftElapses ==
    ASSUME NEW w \in [Producer -> Nat], NEW q \in Producer, NEW a \in Nat,
           NEW d \in Nat, NEW delay \in Nat, w[q] <= Monus(delay, a)
    PROVE  Elapse(w, d)[q] <= Monus(delay, a + d)
BY DEF Elapse, Monus

\* One producer's part of RetryOwed.
Owed(q) ==
    /\ retries[q] > 0 => /\ lastError[q] \in Reasons \ {Unsupported}
                         /\ wait[q] <= RetryLeft
    /\ lastError[q] # NoReason /\ lastOk[q] # "false" => wait[q] <= RetryLeft

\* Who waits no longer than before, with no new error or attempt, owes no more.
LEMMA OwedKept ==
    ASSUME NEW q \in Producer, TypeOK, Owed(q),
           UNCHANGED <<lastError, lastOk>>,
           retries'[q] = retries[q] \/ retries'[q] = 0,
           wait[q] <= RetryLeft => wait'[q] <= RetryLeft'
    PROVE  Owed(q)'
BY DEF Owed, TypeOK

\* The end of a poll leaves the other producers what they owe.
LEMMA OwedByOthers ==
    ASSUME TypeOK, RetryOwed, NEW p \in Producer, NEW d \in PollTimes,
           NEW delay \in Nat, Rearm(p, d, delay),
           NEW q \in Producer, q # p,
           retries'[q] = retries[q], lastError'[q] = lastError[q],
           lastOk'[q] = lastOk[q]
    PROVE  Owed(q)'
<1>1. d \in Nat /\ passAge \in Nat /\ RetryDelay \in Nat
  BY SchedulerAssumption DEF TypeOK, RetryDelay
<1>2. wait'[q] = Elapse(wait, d)[q] /\ passAge' = passAge + d
  BY DEF Rearm, Elapse
<1>3. wait[q] <= Monus(RetryDelay, passAge)
         => Elapse(wait, d)[q] <= Monus(RetryDelay, passAge + d)
  BY <1>1, LeftElapses DEF TypeOK
<1>4. wait[q] <= RetryLeft => wait'[q] <= RetryLeft'
  BY <1>2, <1>3, Zenon DEF RetryLeft, RetryDelay
<1>5. Owed(q)
  BY DEF RetryOwed, Owed
<1> QED
  BY <1>4, <1>5 DEF Owed

\* An error is counted or owed again, and a retry that was used is owed.
LEMMA RetryStep == IInv /\ [Next]_vars => RetryOwed'
<1> SUFFICES ASSUME TypeOK, RetryOwed, [Next]_vars, NEW q \in Producer
             PROVE  Owed(q)'
  BY DEF IInv, RetryOwed, Owed
<1>0. Owed(q) /\ wait[q] \in Nat /\ passAge \in Nat /\ RetryDelay \in Nat
  BY SchedulerAssumption DEF RetryOwed, Owed, TypeOK, RetryDelay
<1>1. CASE UNCHANGED <<wait, retries, passAge, lastError, lastOk>>
  BY <1>0, <1>1 DEF Owed, RetryLeft, RetryDelay
<1>2. CASE Advance
  <2>1. /\ wait'[q] <= wait[q] /\ wait'[q] \in Nat
        /\ UNCHANGED <<retries, passAge, lastError, lastOk>>
    BY <1>0, <1>2 DEF Advance, Elapse, Monus, passVars, nodeStats
  <2>2. RetryLeft' = RetryLeft /\ RetryLeft \in Nat
    BY <1>0, <2>1 DEF RetryLeft, Monus, RetryDelay
  <2> QED
    BY <1>0, <2>1, <2>2, OwedKept
<1>3. CASE TickPoll \/ TickNoPoll
  <2>1. /\ wait'[q] = wait[q] \/ wait'[q] = 0
        /\ retries'[q] = retries[q] \/ retries'[q] = 0
        /\ UNCHANGED <<lastError, lastOk>>
        /\ passAge' = 0 \/ passAge' = passAge
    BY <1>3 DEF TickPoll, TickNoPoll, ForcedWait, ForcedRetries, passVars, nodeStats
  <2>2. wait[q] <= RetryLeft => wait'[q] <= RetryLeft'
    BY <1>0, <2>1 DEF RetryLeft, Monus, RetryDelay
  <2> QED
    BY <1>0, <2>1, <2>2, OwedKept
<1>4. CASE EndPass
  <2>1. passAge' = 0 /\ UNCHANGED <<wait, retries, lastError, lastOk>>
    BY <1>4 DEF EndPass, schedVars, nodeStats
  <2>2. wait[q] <= RetryLeft => wait'[q] <= RetryLeft'
    BY <1>0, <2>1 DEF RetryLeft, Monus, RetryDelay
  <2> QED
    BY <1>0, <2>1, <2>2, OwedKept
<1>5. ASSUME NEW p \in Producer, NEW d \in PollTimes, NEW reason \in Reasons,
             \/ PollOk(p, d) \/ PollFailed(p, d, reason)
             \/ PollRetry(p, d, reason)
      PROVE  Owed(q)'
  <2>1. PICK delay \in Nat : Rearm(p, d, delay) /\ (PollRetry(p, d, reason) => delay = RetryDelay)
    <3>1. CASE PollRetry(p, d, reason)
      BY <1>0, <3>1 DEF PollRetry
    <3>2. CASE ~PollRetry(p, d, reason)
      <4>1. Interval[p] \in Nat
        BY SchedulerAssumption
      <4> QED
        BY <1>5, <3>2, <4>1 DEF PollOk, PollFailed, MarkPolled
    <3> QED
      BY <3>1, <3>2
  <2>2. CASE q # p
    <3>1. /\ retries'[q] = retries[q] /\ lastError'[q] = lastError[q]
          /\ lastOk'[q] = lastOk[q]
      BY <1>5, <2>2 DEF PollOk, PollFailed, PollRetry, MarkPolled, TypeOK
    <3> QED
      BY <2>1, <2>2, <3>1, OwedByOthers
  <2>3. CASE q = p /\ ~PollRetry(p, d, reason)
    <3>1. /\ retries'[q] = 0
          /\ lastError'[q] = NoReason \/ lastOk'[q] = "false"
      BY <1>5, <2>3 DEF PollOk, PollFailed, MarkPolled, TypeOK
    <3> QED
      BY <3>1 DEF Owed
  <2>4. CASE q = p /\ PollRetry(p, d, reason)
    <3>1. /\ lastError'[q] \in Reasons \ {Unsupported}
          /\ wait'[q] = Monus(RetryDelay, passAge + d)
          /\ passAge' = passAge + d
      BY <2>4 DEF PollRetry, Rearm, Elapse, TypeOK
    <3>2. wait'[q] = RetryLeft'
      BY <3>1, Zenon DEF RetryLeft, RetryDelay
    <3>3. d \in Nat
      BY SchedulerAssumption
    <3>4. RetryLeft' \in Nat
      BY <1>0, <3>1, <3>3 DEF RetryLeft, Monus, RetryDelay
    <3> QED
      BY <3>1, <3>2, <3>4 DEF Owed
  <2> QED
    BY <2>2, <2>3, <2>4
<1>6. CASE RadioUp \/ RequestPollNow \/ (\E p \in Producer : BeginPoll(p)) \/ UNCHANGED vars
  BY <1>1, <1>6 DEF RadioUp, RequestPollNow, BeginPoll, schedVars, passVars,
                    nodeStats, vars
<1> QED
  <2>1. Reasons # {}
    BY SchedulerAssumption
  <2>2. ASSUME NEW p \in Producer, NEW d \in PollTimes, PollOk(p, d) PROVE Owed(q)'
    BY <1>5, <2>1, <2>2
  <2>3. ASSUME NEW p \in Producer, EndPoll(p) PROVE Owed(q)'
    BY <1>5, <2>2, <2>3 DEF EndPoll
  <2> QED
    BY <1>2, <1>3, <1>4, <1>6, <2>3 DEF Next

\* Requests move from the counter to the tick to the statistics, one for one.
LEMMA RequestStep == IInv /\ [Next]_vars => RequestsConserved'
<1> SUFFICES ASSUME TypeOK, PassInv, RequestsConserved, [Next]_vars
             PROVE  RequestsConserved'
  BY DEF IInv
<1> USE SchedulerAssumption
<1>t. pending \in Nat /\ taken \in Nat /\ gwOnDemand \in Nat /\ gwOnDemand <= MaxCount
  BY DEF TypeOK
<1>1. CASE UNCHANGED <<pending, taken, issued, gwOnDemand>>
  BY <1>1 DEF RequestsConserved, SatAdd
<1>2. CASE RequestPollNow
  <2>1. issued' = SatAdd(SatAdd(pending + taken, gwOnDemand), 1)
    BY <1>2 DEF RequestPollNow, RequestsConserved
  <2>2. pending' + taken' = pending + taken + 1 /\ gwOnDemand' = gwOnDemand
    BY <1>t, <1>2 DEF RequestPollNow, gwStats
  <2> QED
    BY <1>t, <2>1, <2>2 DEF RequestsConserved, SatAdd
<1>3. CASE TickPoll
  <2>1. pending' + taken' = pending + taken /\ UNCHANGED <<issued, gwOnDemand>>
    BY <1>t, <1>3 DEF TickPoll, PassInv, gwStats
  <2> QED
    BY <2>1 DEF RequestsConserved, SatAdd
<1>4. CASE TickNoPoll
  <2>1. /\ taken = 0 /\ taken' = 0 /\ pending' = 0 /\ issued' = issued
        /\ gwOnDemand' = SatAdd(gwOnDemand, pending)
    BY <1>4 DEF TickNoPoll, PassInv
  <2> QED
    BY <1>t, <2>1 DEF RequestsConserved, SatAdd
<1>5. CASE EndPass
  <2>1. /\ taken' = 0 /\ UNCHANGED <<pending, issued>>
        /\ gwOnDemand' = SatAdd(gwOnDemand, taken)
    BY <1>5 DEF EndPass
  <2> QED
    BY <1>t, <2>1 DEF RequestsConserved, SatAdd
<1>6. ASSUME NEW p \in Producer, BeginPoll(p) \/ EndPoll(p)
      PROVE  UNCHANGED <<pending, taken, issued, gwOnDemand>>
  BY <1>6 DEF BeginPoll, EndPoll, PollOk, PollFailed, PollRetry, MarkPolled,
              Rearm, reqVars, gwStats
<1> QED
  BY <1>1, <1>2, <1>3, <1>4, <1>5, <1>6
  DEF Next, Advance, RadioUp, reqVars, gwStats, vars

\* A result is recorded with the reason the client has stored for it.
LEMMA ReasonStep == IInv /\ [Next]_vars => FailureHasReason'
<1> SUFFICES ASSUME TypeOK, FailureHasReason, [Next]_vars
             PROVE  FailureHasReason'
  BY DEF IInv
<1>1. CASE UNCHANGED <<lastOk, lastError>>
  BY <1>1 DEF FailureHasReason
<1>2. ASSUME NEW p \in Producer, NEW d \in PollTimes, PollOk(p, d)
      PROVE  FailureHasReason'
  BY <1>2 DEF PollOk, FailureHasReason, TypeOK
<1>3. ASSUME NEW p \in Producer, NEW d \in PollTimes, NEW reason \in Reasons,
             PollFailed(p, d, reason) \/ PollRetry(p, d, reason)
      PROVE  FailureHasReason'
  BY <1>3 DEF PollFailed, PollRetry, FailureHasReason, TypeOK
<1> QED
  BY <1>1, <1>2, <1>3
  DEF Next, Advance, RadioUp, RequestPollNow, TickPoll, TickNoPoll, EndPass,
      BeginPoll, EndPoll, nodeStats, vars

\* Every operation keeps the invariant.
LEMMA InvStep == IInv /\ [Next]_vars => IInv'
BY TypeStep, PassStep, RetryStep, RequestStep, ReasonStep DEF IInv

\* The inductive invariant of the scheduler.
THEOREM Invariance == Spec => []IInv
<1> QED
  BY InvInit, InvStep, PTL DEF Spec

\* Through passes, slow polls and forced passes an error that was not counted is
\* of a poll that is owed again within the retry delay of the clock reading its
\* pass began with, and so is the poll of whoever has used a retry.
THEOREM RetriesOwed == Spec => []RetryOwed
<1>1. IInv => RetryOwed
  BY DEF IInv
<1> QED
  BY <1>1, Invariance, PTL

\* No poll-now request is lost or counted twice between poll_control.rs, the
\* tick and poll_on_demand_total.
THEOREM RequestAccounting == Spec => []RequestsConserved
<1>1. IInv => RequestsConserved
  BY DEF IInv
<1> QED
  BY <1>1, Invariance, PTL

\* A producer reported as failed is reported with a reason.
THEOREM FailureReported == Spec => []FailureHasReason
<1>1. IInv => FailureHasReason
  BY DEF IInv
<1> QED
  BY <1>1, Invariance, PTL

-----------------------------------------------------------------------------
\* Whatever step takes requests makes every entry due, with no retry used.
THEOREM RequestsAreServed == Spec => RequestsForceEveryEntry
<1> DEFINE A == pending' < pending =>
                    \A p \in Producer : wait'[p] = 0 /\ retries'[p] = 0
<1>1. IInv /\ [Next]_vars => [A]_vars
  <2> SUFFICES ASSUME TypeOK, [Next]_vars PROVE A
    BY DEF IInv
  <2>1. CASE UNCHANGED pending
    BY <2>1 DEF TypeOK
  <2>2. CASE RequestPollNow
    BY <2>2 DEF RequestPollNow, TypeOK
  <2>3. CASE TickPoll \/ TickNoPoll
    BY <2>3 DEF TickPoll, TickNoPoll, ForcedWait, ForcedRetries, TypeOK
  <2>4. ASSUME NEW p \in Producer, BeginPoll(p) \/ EndPoll(p)
        PROVE  UNCHANGED pending
    BY <2>4 DEF BeginPoll, EndPoll, PollOk, PollFailed, PollRetry, MarkPolled,
                Rearm, reqVars
  <2> QED
    BY <2>1, <2>2, <2>3, <2>4
    DEF Next, Advance, RadioUp, EndPass, reqVars, vars
<1> QED
  BY <1>1, Invariance, PTL DEF Spec, RequestsForceEveryEntry

-----------------------------------------------------------------------------
\* A new schedule owes no poll.
LEMMA DutyInitially == Init => Duty!DutyInit
BY DEF Init, Duty!DutyInit

\* Every step of the scheduler is a step of PollDuty or leaves it alone.
LEMMA DutyStep == IInv /\ [Next]_vars => [Duty!DutyNext]_(Duty!dutyVars)
<1> SUFFICES ASSUME TypeOK, PassInv, [Next]_vars
             PROVE  Duty!DutyNext \/ UNCHANGED Duty!dutyVars
  BY DEF IInv
<1>1. CASE UNCHANGED <<dueLeft, polling, retries, lastOk>>
  BY <1>1 DEF Duty!dutyVars
<1>2. CASE TickPoll
  <2>1. /\ Duty!Free /\ Due(ForcedWait) \in SUBSET Producer
        /\ dueLeft' = Due(ForcedWait) /\ dueLeft' # {}
        /\ UNCHANGED <<polling, lastOk>>
    BY <1>2 DEF TickPoll, PassInv, Duty!Free, Due, nodeStats
  <2>2. \/ UNCHANGED retries
        \/ dueLeft' = Producer /\ retries' = [p \in Producer |-> 0]
    BY <1>2 DEF TickPoll, ForcedRetries, ForcedWait, Due
  <2>3. Duty!BeginDuty(Due(ForcedWait))
    BY <2>1, <2>2 DEF Duty!BeginDuty
  <2> QED
    BY <2>1, <2>3 DEF Duty!DutyNext
<1>3. CASE TickNoPoll
  <2>1. /\ Duty!Free /\ retries' = [p \in Producer |-> 0]
        /\ UNCHANGED <<dueLeft, polling, lastOk>>
    BY <1>3 DEF TickNoPoll, ForcedRetries, PassInv, Duty!Free, passVars,
                nodeStats, TypeOK
  <2> QED
    BY <2>1 DEF Duty!DutyNext, Duty!Refill
<1>4. ASSUME NEW p \in Producer, BeginPoll(p) PROVE Duty!DutyNext
  BY <1>4 DEF BeginPoll, schedVars, nodeStats, Duty!DutyNext, Duty!Start
<1>5. ASSUME NEW p \in Producer, NEW d \in PollTimes, PollOk(p, d)
      PROVE  Duty!DutyNext
  <2>1. Duty!Conclude(p, "true")
    BY <1>5 DEF PollOk, MarkPolled, Rearm, Duty!Conclude
  <2> QED
    BY <2>1 DEF Duty!DutyNext
<1>6. ASSUME NEW p \in Producer, NEW d \in PollTimes, NEW reason \in Reasons,
             PollFailed(p, d, reason)
      PROVE  Duty!DutyNext
  <2>1. Duty!Conclude(p, "false")
    BY <1>6 DEF PollFailed, MarkPolled, Rearm, Duty!Conclude
  <2> QED
    BY <2>1 DEF Duty!DutyNext
<1>7. ASSUME NEW p \in Producer, NEW d \in PollTimes, NEW reason \in Reasons,
             PollRetry(p, d, reason)
      PROVE  Duty!DutyNext
  <2>1. Duty!Defer(p)
    BY <1>7 DEF PollRetry, Rearm, Duty!Defer
  <2> QED
    BY <2>1 DEF Duty!DutyNext
<1> QED
  BY <1>1, <1>2, <1>3, <1>4, <1>5, <1>6, <1>7
  DEF Next, Advance, RadioUp, RequestPollNow, EndPass, EndPoll, schedVars,
      passVars, nodeStats, vars

\* The scheduler implements PollDuty.
THEOREM Refinement == Spec => KeepsDuty
<1> QED
  BY DutyInitially, DutyStep, Invariance, PTL DEF Spec, KeepsDuty, Duty!DutySpec

-----------------------------------------------------------------------------
(* Sums over the producers.  What is proved of every set of producers is the *)
(* set of the sizes it holds for.                                           *)

LEMMA LeastNatural ==
    ASSUME NEW T, T \subseteq Nat, T # {}
    PROVE  \E n \in T : \A m \in T : ~(m < n)
<1> DEFINE R == OpToRel(<, Nat)
<1>1. IsWellFoundedOn(R, Nat)
  BY NatLessThanWellFounded, Zenon
<1>2. R = {pair \in Nat \X Nat : pair[1] < pair[2]}
  BY Zenon DEF OpToRel
<1> HIDE DEF R
<1>3. PICK n \in T : \A m \in T : ~(<<m, n>> \in R)
  BY <1>1, WFMin, Zenon
<1>4. \A m \in T : m < n => <<m, n>> \in R
  BY <1>2
<1> QED
  BY <1>3, <1>4

LEMMA AllNaturals ==
    ASSUME NEW S, 0 \in S, \A n \in S : n + 1 \in S
    PROVE  Nat \subseteq S
<1> SUFFICES ASSUME Nat \ S # {} PROVE FALSE
  OBVIOUS
<1>1. PICK n \in Nat \ S : \A m \in Nat \ S : ~(m < n)
  BY LeastNatural
<1>2. n # 0 /\ n - 1 \in Nat
  BY <1>1
<1>3. n - 1 \in S
  BY <1>1, <1>2
<1>4. n - 1 + 1 \in S
  BY <1>3
<1> QED
  BY <1>1, <1>2, <1>4

\* The producer that the sum over s begins with, and the rest.
Picked(s) == CHOOSE p \in s : TRUE
Rest(s) == s \ {Picked(s)}

Groups(n) == {s \in SUBSET Producer : Cardinality(s) <= n}

\* g has the sums of f over the groups of at most n producers.
SumStep(g, f, s) == IF s = {} THEN 0 ELSE f[Picked(s)] + g[Rest(s)]
SumRun(g, f, n) == g = [s \in Groups(n) |-> SumStep(g, f, s)]

LEMMA GroupsFinite ==
    ASSUME NEW s \in SUBSET Producer
    PROVE  /\ IsFiniteSet(s) /\ Cardinality(s) \in Nat /\ Cardinality(s) <= N
           /\ Cardinality(s) = 0 <=> s = {}
           /\ s # {} => /\ Picked(s) \in s
                        /\ Rest(s) \in SUBSET Producer
                        /\ Cardinality(Rest(s)) = Cardinality(s) - 1
<1>1. IsFiniteSet(Producer) /\ Cardinality(Producer) = N
  <2>1. N \in Nat
    BY SchedulerAssumption
  <2> QED
    BY <2>1, FS_Interval DEF Producer
<1>2. IsFiniteSet(s) /\ Cardinality(s) <= N
  BY <1>1, FS_Subset
<1>3. Cardinality(s) \in Nat /\ (Cardinality(s) = 0 <=> s = {})
  BY <1>2, FS_CardinalityType, FS_EmptySet
<1>4. s # {} => Picked(s) \in s
  BY Zenon DEF Picked
<1>5. s # {} => Cardinality(Rest(s)) = Cardinality(s) - 1
  BY <1>2, <1>4, FS_RemoveElement DEF Rest
<1>6. Rest(s) \in SUBSET Producer
  BY DEF Rest
<1> QED
  BY <1>2, <1>3, <1>4, <1>5, <1>6

LEMMA SumRunExists ==
    ASSUME NEW f, NEW n \in Nat
    PROVE  \E g : SumRun(g, f, n)
<1> DEFINE S == {k \in Nat : \E g : SumRun(g, f, k)}
<1>1. 0 \in S
  <2> DEFINE g == [s \in Groups(0) |-> 0]
             h == [s \in Groups(0) |-> SumStep(g, f, s)]
  <2>1. ASSUME NEW s \in Groups(0) PROVE g[s] = h[s]
    <3>1. s = {}
      <4>1. s \in SUBSET Producer /\ Cardinality(s) <= 0
        BY DEF Groups
      <4> QED
        BY <4>1, GroupsFinite
    <3>2. SumStep(g, f, s) = 0
      BY <3>1, Zenon DEF SumStep
    <3> QED
      BY <3>2
  <2>2. g = h
    BY <2>1
  <2>3. SumRun(g, f, 0)
    BY <2>2, Zenon DEF SumRun
  <2> QED
    BY <2>3
<1>2. ASSUME NEW k \in S PROVE k + 1 \in S
  <2>1. PICK g : SumRun(g, f, k)
    BY <1>2
  <2> DEFINE longer == [s \in Groups(k + 1) |-> SumStep(g, f, s)]
             h == [s \in Groups(k + 1) |-> SumStep(longer, f, s)]
  <2>2. ASSUME NEW s \in Groups(k + 1) PROVE longer[s] = h[s]
    <3>1. CASE s = {}
      <4>1. SumStep(g, f, s) = 0 /\ SumStep(longer, f, s) = 0
        BY <3>1, Zenon DEF SumStep
      <4> QED
        BY <4>1
    <3>2. CASE s # {}
      <4>1. Rest(s) \in Groups(k) /\ Rest(s) \in Groups(k + 1)
        BY <3>2, GroupsFinite DEF Groups
      <4>2. g[Rest(s)] = SumStep(g, f, Rest(s))
        BY <2>1, <4>1, Zenon DEF SumRun
      <4>3. longer[Rest(s)] = g[Rest(s)]
        BY <4>1, <4>2
      <4> HIDE DEF longer
      <4>4. SumStep(longer, f, s) = SumStep(g, f, s)
        BY <3>2, <4>3, Zenon DEF SumStep
      <4> QED
        BY <4>4 DEF longer
    <3> QED
      BY <3>1, <3>2
  <2>3. longer = h
    BY <2>2
  <2>4. SumRun(longer, f, k + 1)
    BY <2>3, Zenon DEF SumRun
  <2> QED
    BY <2>4
<1>3. Nat \subseteq S
  <2> HIDE DEF S
  <2> QED
    BY <1>1, <1>2, AllNaturals
<1> QED
  BY <1>3

LEMMA SumOverIsRun ==
    ASSUME NEW f
    PROVE  \E g : SumRun(g, f, N) /\ SumOver(f) = g[Producer]
<1> DEFINE Sums(g) == g = [s \in SUBSET Producer |->
                              IF s = {} THEN 0 ELSE f[Picked(s)] + g[s \ {Picked(s)}]]
<1>1. SumOver(f) = (CHOOSE g : Sums(g))[Producer]
  BY Zenon DEF SumOver, MapThenSumSet, MapThenFoldSet, Picked
<1>2. Groups(N) = SUBSET Producer
  BY GroupsFinite DEF Groups
<1>3. \A g : SumRun(g, f, N) <=> Sums(g)
  BY <1>2, Zenon DEF SumRun, SumStep, Rest
<1>4. N \in Nat
  BY SchedulerAssumption
<1>5. \E g : Sums(g)
  BY <1>3, <1>4, SumRunExists, Zenon
<1> HIDE DEF Sums
<1>6. Sums(CHOOSE g : Sums(g))
  BY <1>5, Zenon
<1> QED
  BY <1>1, <1>3, <1>6, Zenon

LEMMA SumRunSteps ==
    ASSUME NEW g, NEW f, SumRun(g, f, N), NEW s \in SUBSET Producer
    PROVE  /\ s = {} => g[s] = 0
           /\ s # {} => g[s] = f[Picked(s)] + g[Rest(s)]
<1>1. s \in Groups(N)
  BY GroupsFinite DEF Groups
<1>2. g[s] = SumStep(g, f, s)
  BY <1>1, Zenon DEF SumRun
<1> QED
  BY <1>2, Zenon DEF SumStep

\* One more for one of the producers is one more for all of them.
LEMMA SumOverStep ==
    ASSUME NEW f \in [Producer -> Nat], NEW a \in Producer
    PROVE  /\ SumOver(f) \in Nat /\ f[a] <= SumOver(f)
           /\ SumOver([f EXCEPT ![a] = f[a] + 1]) = SumOver(f) + 1
<1> DEFINE h == [f EXCEPT ![a] = f[a] + 1]
<1>1. /\ h \in [Producer -> Nat] /\ h[a] = f[a] + 1
      /\ \A p \in Producer : p # a => h[p] = f[p]
  OBVIOUS
<1> HIDE DEF h
<1>2. PICK g : SumRun(g, f, N) /\ SumOver(f) = g[Producer]
  BY SumOverIsRun
<1>3. PICK k : SumRun(k, h, N) /\ SumOver(h) = k[Producer]
  BY SumOverIsRun
<1> DEFINE Grown(s) == /\ g[s] \in Nat
                       /\ a \in s => f[a] <= g[s] /\ k[s] = g[s] + 1
                       /\ a \notin s => k[s] = g[s]
           S == {n \in Nat : \A s \in Groups(n) : Grown(s)}
<1>4. ASSUME NEW s \in SUBSET Producer, s # {} => Grown(Rest(s))
      PROVE  Grown(s)
  <2>1. CASE s = {}
    <3>1. g[s] = 0 /\ k[s] = 0
      BY <1>2, <1>3, <2>1, SumRunSteps, Zenon
    <3> QED
      BY <2>1, <3>1
  <2>2. CASE s # {}
    <3> DEFINE x == Picked(s)
               r == Rest(s)
    <3>1. x \in Producer /\ x \in s /\ (a \in r <=> a \in s /\ a # x)
      BY <2>2, GroupsFinite DEF Rest
    <3>2. g[s] = f[x] + g[r] /\ k[s] = h[x] + k[r]
      BY <1>2, <1>3, <2>2, SumRunSteps
    <3>3. Grown(r)
      BY <1>4, <2>2
    <3> HIDE DEF x, r
    <3>4. f[x] \in Nat /\ f[a] \in Nat
      BY <3>1
    <3>5. CASE a = x
      BY <1>1, <3>1, <3>2, <3>3, <3>4, <3>5
    <3>6. CASE a # x
      BY <1>1, <3>1, <3>2, <3>3, <3>4, <3>6
    <3> QED
      BY <3>5, <3>6
  <2> QED
    BY <2>1, <2>2
<1>5. 0 \in S
  <2> SUFFICES ASSUME NEW s \in Groups(0) PROVE Grown(s)
    OBVIOUS
  <2>1. s \in SUBSET Producer /\ s = {}
    BY GroupsFinite DEF Groups
  <2> QED
    BY <1>4, <2>1
<1>6. ASSUME NEW n \in S PROVE n + 1 \in S
  <2> SUFFICES ASSUME NEW s \in Groups(n + 1) PROVE Grown(s)
    BY <1>6
  <2>1. s \in SUBSET Producer /\ (s # {} => Rest(s) \in Groups(n))
    BY <1>6, GroupsFinite DEF Groups
  <2>2. s # {} => Grown(Rest(s))
    BY <1>6, <2>1
  <2> QED
    BY <1>4, <2>1, <2>2
<1>7. Nat \subseteq S
  <2> HIDE DEF S
  <2> QED
    BY <1>5, <1>6, AllNaturals
<1>8. Producer \in Groups(N) /\ N \in Nat
  BY GroupsFinite, SchedulerAssumption DEF Groups
<1>9. Grown(Producer)
  BY <1>7, <1>8
<1> QED
  BY <1>2, <1>3, <1>9 DEF h

LEMMA SumOverZero ==
    ASSUME NEW f, \A p \in Producer : f[p] = 0
    PROVE  SumOver(f) = 0
<1>1. PICK g : SumRun(g, f, N) /\ SumOver(f) = g[Producer]
  BY SumOverIsRun
<1> DEFINE S == {n \in Nat : \A s \in Groups(n) : g[s] = 0}
<1>2. 0 \in S
  <2> SUFFICES ASSUME NEW s \in Groups(0) PROVE g[s] = 0
    OBVIOUS
  <2>1. s \in SUBSET Producer /\ s = {}
    BY GroupsFinite DEF Groups
  <2> QED
    BY <1>1, <2>1, SumRunSteps
<1>3. ASSUME NEW n \in S PROVE n + 1 \in S
  <2> SUFFICES ASSUME NEW s \in Groups(n + 1) PROVE g[s] = 0
    BY <1>3
  <2>1. CASE s = {}
    BY <1>1, <2>1, SumRunSteps DEF Groups
  <2>2. CASE s # {}
    <3>1. s \in SUBSET Producer /\ Rest(s) \in Groups(n) /\ Picked(s) \in Producer
      BY <1>3, <2>2, GroupsFinite DEF Groups
    <3>2. g[s] = f[Picked(s)] + g[Rest(s)]
      BY <1>1, <2>2, <3>1, SumRunSteps
    <3>3. f[Picked(s)] = 0 /\ g[Rest(s)] = 0
      BY <1>3, <3>1
    <3> QED
      BY <3>2, <3>3
  <2> QED
    BY <2>1, <2>2
<1>4. Nat \subseteq S
  <2> HIDE DEF S
  <2> QED
    BY <1>2, <1>3, AllNaturals
<1>5. Producer \in Groups(N) /\ N \in Nat
  BY GroupsFinite, SchedulerAssumption DEF Groups
<1> QED
  BY <1>1, <1>4, <1>5

-----------------------------------------------------------------------------
\* A poll counted for the gateway and for its producer, where either saturates.
LEMMA CountedOnce ==
    ASSUME NEW f \in [Producer -> 0 .. MaxCount], NEW p \in Producer, NEW total,
           total = SatAdd(0, SumOver(f))
    PROVE  SatAdd(total, 1) = SatAdd(0, SumOver([f EXCEPT ![p] = SatAdd(@, 1)]))
<1>1. MaxCount \in Nat
  BY SchedulerAssumption
<1>2. f \in [Producer -> Nat] /\ f[p] \in 0 .. MaxCount
  BY <1>1
<1>3. /\ SumOver(f) \in Nat /\ f[p] <= SumOver(f)
      /\ SumOver([f EXCEPT ![p] = f[p] + 1]) = SumOver(f) + 1
  BY <1>2, SumOverStep
<1> DEFINE h == [f EXCEPT ![p] = SatAdd(@, 1)]
           sum == SumOver(f)
<1>4. SatAdd(SatAdd(0, sum), 1) = SatAdd(0, SumOver(h))
  <2>1. CASE f[p] < MaxCount
    <3>1. SatAdd(f[p], 1) = f[p] + 1
      BY <1>1, <1>2, <2>1 DEF SatAdd
    <3>2. SumOver(h) = sum + 1
      BY <1>3, <3>1, Zenon
    <3> HIDE DEF sum, h
    <3>3. SatAdd(SatAdd(0, sum), 1) = SatAdd(0, sum + 1)
      BY <1>1, <1>3 DEF SatAdd, sum
    <3> QED
      BY <3>2, <3>3, Zenon
  <2>2. CASE ~(f[p] < MaxCount)
    <3>1. f[p] = MaxCount
      BY <1>1, <1>2, <2>2
    <3>2. SatAdd(f[p], 1) = f[p]
      BY <1>1, <3>1 DEF SatAdd
    <3>3. h = f
      BY <3>2
    <3> HIDE DEF h
    <3>4. SumOver(h) = sum
      BY <3>3, Zenon
    <3> HIDE DEF sum
    <3>5. SatAdd(SatAdd(0, sum), 1) = SatAdd(0, sum)
      BY <1>1, <1>3, <3>1 DEF SatAdd, sum
    <3> QED
      BY <3>4, <3>5, Zenon
  <2> QED
    BY <2>1, <2>2, Zenon
<1> QED
  BY <1>4, Zenon

\* Whatever the order of polls and retries, and wherever the counters saturate, the
\* totals of the gateway are those of its producers (record_poll_success,
\* record_poll_failure).
THEOREM TotalsOfProducers == Spec => []TotalsAgree
<1>1. Init => TotalsAgree
  <2> SUFFICES ASSUME Init PROVE TotalsAgree
    OBVIOUS
  <2>1. SumOver(okTotal) = 0 /\ SumOver(failTotal) = 0
    BY SumOverZero DEF Init
  <2> QED
    BY <2>1, SchedulerAssumption DEF Init, TotalsAgree, SatAdd
<1>2. IInv /\ TotalsAgree /\ [Next]_vars => TotalsAgree'
  <2> SUFFICES ASSUME TypeOK, TotalsAgree, [Next]_vars PROVE TotalsAgree'
    BY DEF IInv
  <2>1. /\ okTotal \in [Producer -> 0 .. MaxCount] /\ failTotal \in [Producer -> 0 .. MaxCount]
        /\ gwOk = SatAdd(0, SumOver(okTotal)) /\ gwFail = SatAdd(0, SumOver(failTotal))
    BY DEF TypeOK, TotalsAgree
  <2>2. CASE okTotal' = okTotal /\ failTotal' = failTotal /\ gwOk' = gwOk /\ gwFail' = gwFail
    BY <2>1, <2>2, Zenon DEF TotalsAgree
  <2>3. CASE \E p \in Producer :
                /\ okTotal' = [okTotal EXCEPT ![p] = SatAdd(@, 1)] /\ gwOk' = SatAdd(gwOk, 1)
                /\ failTotal' = failTotal /\ gwFail' = gwFail
    <3>1. gwOk' = SatAdd(0, SumOver(okTotal'))
      <4>1. PICK p \in Producer : /\ okTotal' = [okTotal EXCEPT ![p] = SatAdd(@, 1)]
                                  /\ gwOk' = SatAdd(gwOk, 1)
        BY <2>3, Zenon
      <4>2. SatAdd(gwOk, 1) = SatAdd(0, SumOver([okTotal EXCEPT ![p] = SatAdd(@, 1)]))
        BY <2>1, CountedOnce
      <4> QED
        BY <4>1, <4>2, Zenon
    <3>2. gwFail' = SatAdd(0, SumOver(failTotal'))
      BY <2>1, <2>3, Zenon
    <3> QED
      BY <3>1, <3>2, Zenon DEF TotalsAgree
  <2>4. CASE \E p \in Producer :
                /\ failTotal' = [failTotal EXCEPT ![p] = SatAdd(@, 1)]
                /\ gwFail' = SatAdd(gwFail, 1)
                /\ okTotal' = okTotal /\ gwOk' = gwOk
    <3>1. gwFail' = SatAdd(0, SumOver(failTotal'))
      <4>1. PICK p \in Producer : /\ failTotal' = [failTotal EXCEPT ![p] = SatAdd(@, 1)]
                                  /\ gwFail' = SatAdd(gwFail, 1)
        BY <2>4, Zenon
      <4>2. SatAdd(gwFail, 1) = SatAdd(0, SumOver([failTotal EXCEPT ![p] = SatAdd(@, 1)]))
        BY <2>1, CountedOnce
      <4> QED
        BY <4>1, <4>2, Zenon
    <3>2. gwOk' = SatAdd(0, SumOver(okTotal'))
      BY <2>1, <2>4, Zenon
    <3> QED
      BY <3>1, <3>2, Zenon DEF TotalsAgree
  <2>5. CASE \E p \in Producer : EndPoll(p)
    <3>1. PICK p \in Producer, d \in PollTimes :
              \/ PollOk(p, d)
              \/ \E reason \in Reasons : PollFailed(p, d, reason)
              \/ \E reason \in Reasons : PollRetry(p, d, reason)
      <4>1. PICK p \in Producer : EndPoll(p)
        BY <2>5
      <4>2. PICK d \in PollTimes : \/ PollOk(p, d)
                                   \/ \E reason \in Reasons : PollFailed(p, d, reason)
                                                             \/ PollRetry(p, d, reason)
        BY <4>1, Zenon DEF EndPoll
      <4> QED
        BY <4>2, Zenon
    <3>2. CASE PollOk(p, d)
      <4>1. /\ okTotal' = [okTotal EXCEPT ![p] = SatAdd(@, 1)] /\ gwOk' = SatAdd(gwOk, 1)
            /\ failTotal' = failTotal /\ gwFail' = gwFail
        BY <3>2, SMT DEF PollOk
      <4> QED
        BY <2>3, <4>1, Zenon
    <3>3. CASE \E reason \in Reasons : PollFailed(p, d, reason)
      <4>1. /\ failTotal' = [failTotal EXCEPT ![p] = SatAdd(@, 1)]
            /\ gwFail' = SatAdd(gwFail, 1)
            /\ okTotal' = okTotal /\ gwOk' = gwOk
        BY <3>3, SMT DEF PollFailed
      <4> QED
        BY <2>4, <4>1, Zenon
    <3>4. CASE \E reason \in Reasons : PollRetry(p, d, reason)
      <4>1. /\ okTotal' = okTotal /\ failTotal' = failTotal
            /\ gwOk' = gwOk /\ gwFail' = gwFail
        BY <3>4, SMT DEF PollRetry, gwStats
      <4> QED
        BY <2>2, <4>1, Zenon
    <3> QED
      BY <3>1, <3>2, <3>3, <3>4, Zenon
  <2>6. CASE \/ Advance \/ RadioUp \/ RequestPollNow \/ TickPoll \/ TickNoPoll \/ EndPass
             \/ (\E p \in Producer : BeginPoll(p)) \/ UNCHANGED vars
    BY <2>2, <2>6 DEF Advance, RadioUp, RequestPollNow, TickPoll, TickNoPoll, EndPass, BeginPoll,
                      nodeStats, gwStats, vars
  <2> QED
    BY <2>5, <2>6, Zenon DEF Next
<1> QED
  BY <1>1, <1>2, Invariance, PTL DEF Spec
=============================================================================
