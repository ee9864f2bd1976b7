--------------------------- MODULE PollScheduler ---------------------------
(***************************************************************************)
(* The poll scheduler of muninn-gate-core (poller.rs), the ESP32 runtime   *)
(* that drives it (scheduler.rs), the poll-on-demand counter               *)
(* (poll_control.rs) and the poll statistics of the telemetry store        *)
(* (telemetry.rs).                                                         *)
(*                                                                         *)
(* Time is relative: wait[p] is next_poll_ms - now, or 0 once producer p   *)
(* is due, and passAge is now - now_ms of the pass under way.  The code    *)
(* compares timestamps only with the clock, so nothing is lost, and no     *)
(* horizon is needed to keep the state space finite.                       *)
(***************************************************************************)
EXTENDS Naturals, FiniteSetsExt

CONSTANTS
    N,               \* number of enabled producers: the scheduler's entries
    Interval,        \* Interval[p]: effective_polling_interval_ms of producer p
    DefaultInterval, \* PollingConfig::default_interval_ms
    Jitter,          \* PollingConfig::jitter_ms
    Second,          \* 1 000 ms in the model's unit of time
    RetryCount,      \* PollingConfig::retry_count
    PollTimes,       \* how long one producer poll may block
    Reasons,         \* PollFailureReason values
    Unsupported,     \* the reason that maps to Error::Unsupported
    NoReason,        \* last_poll_error = None
    MaxCount,        \* where the u64 counters saturate
    MaxPending       \* bound on unserved poll-now requests

Producer == 1 .. N

ASSUME SchedulerAssumption ==
    /\ N \in Nat
    /\ Interval \in [Producer -> Nat \ {0}]
    /\ DefaultInterval \in Nat \ {0}
    /\ Jitter \in Nat
    /\ Second \in Nat \ {0}
    /\ RetryCount \in Nat
    /\ PollTimes \subseteq Nat
    /\ Unsupported \in Reasons
    /\ NoReason \notin Reasons
    /\ MaxCount \in Nat
    /\ MaxPending \in Nat

VARIABLES
    wait,       \* time until producer p is due; 0 when it is due
    retries,    \* ScheduledProducer::retry_attempts
    radioReady, \* RADIO_READY
    pending,    \* POLL_NOW_REQUESTS
    issued,     \* every poll-now request since boot (history)
    taken,      \* poll_now_requests, local to the tick under way
    inPass,     \* poll_due_producers is running
    passAge,    \* time since the pass read its now_ms
    dueLeft,    \* due producers the pass has still to poll
    polling,    \* the producer whose poll blocks the pass; 0 for none
    retrying,   \* PollSummary::retrying
    okTotal, failTotal, lastOk, lastError,    \* ProducerPollMetrics
    gwOk, gwFail, gwRetry, gwOnDemand         \* GatewayMetrics

schedVars == <<wait, retries, radioReady>>
reqVars   == <<pending, issued, taken>>
passVars  == <<inPass, passAge, dueLeft, polling, retrying>>
nodeStats == <<okTotal, failTotal, lastOk, lastError>>
gwStats   == <<gwOk, gwFail, gwRetry, gwOnDemand>>
vars == <<schedVars, reqVars, passVars, nodeStats, gwStats>>

-----------------------------------------------------------------------------
\* saturating_sub and saturating_add
Monus(a, b) == IF a > b THEN a - b ELSE 0
SatAdd(a, b) == IF a + b > MaxCount THEN MaxCount ELSE a + b

RetryDelay == IF Jitter > Second THEN Jitter ELSE Second
Spacing == IF N > 1 THEN DefaultInterval \div N ELSE 0

Due(w) == {p \in Producer : w[p] = 0}
Elapse(w, d) == [p \in Producer |-> Monus(w[p], d)]

Init ==
    /\ \E jitter \in [Producer -> 0 .. Jitter] :
           wait = [p \in Producer |-> (p - 1) * Spacing + jitter[p]]
    /\ retries = [p \in Producer |-> 0]
    /\ radioReady = FALSE
    /\ pending = 0 /\ issued = 0 /\ taken = 0
    /\ inPass = FALSE /\ passAge = 0 /\ dueLeft = {} /\ polling = 0
    /\ retrying = 0
    /\ okTotal = [p \in Producer |-> 0]
    /\ failTotal = [p \in Producer |-> 0]
    /\ lastOk = [p \in Producer |-> "none"]
    /\ lastError = [p \in Producer |-> NoReason]
    /\ gwOk = 0 /\ gwFail = 0 /\ gwRetry = 0 /\ gwOnDemand = 0

-----------------------------------------------------------------------------
\* The environment of the scheduler.

\* One unit of idle time passes between two ticks.
Advance ==
    /\ ~inPass
    /\ \E p \in Producer : wait[p] > 0
    /\ wait' = Elapse(wait, 1)
    /\ UNCHANGED <<retries, radioReady, reqVars, passVars, nodeStats, gwStats>>

\* The radio owner enters continuous RX; nothing ever takes this back.
RadioUp ==
    /\ ~radioReady
    /\ radioReady' = TRUE
    /\ UNCHANGED <<wait, retries, reqVars, passVars, nodeStats, gwStats>>

\* A button press, GET /poll or a USB poll_now; the HTTP handler also runs in
\* the maintenance callback, so a request may arrive while a pass is under way.
RequestPollNow ==
    /\ pending < MaxPending
    /\ pending' = pending + 1
    /\ issued' = SatAdd(issued, 1)
    /\ UNCHANGED <<taken, schedVars, passVars, nodeStats, gwStats>>

-----------------------------------------------------------------------------
\* GatewayScheduler::tick_with_maintenance.

ForcedWait == IF pending > 0 THEN [p \in Producer |-> 0] ELSE wait
ForcedRetriesKept == retries
ForcedRetries == IF pending > 0 THEN [p \in Producer |-> 0] ELSE retries

\* A tick that starts a pass: take the requests, force the entries, find work.
TickPoll ==
    /\ ~inPass
    /\ radioReady
    /\ Due(ForcedWait) # {}
    /\ taken' = pending
    /\ pending' = 0
    /\ wait' = ForcedWait
    /\ retries' = ForcedRetries
    /\ inPass' = TRUE
    /\ passAge' = 0
    /\ dueLeft' = Due(ForcedWait)
    /\ retrying' = 0
    /\ UNCHANGED <<radioReady, issued, polling, nodeStats, gwStats>>

\* Changed: the requests of a tick that polls nobody are not counted.
TickNoPollUncounted ==
    /\ ~inPass
    /\ pending > 0
    /\ ~radioReady \/ Due(ForcedWait) = {}
    /\ pending' = 0
    /\ wait' = ForcedWait
    /\ retries' = ForcedRetries
    /\ UNCHANGED <<radioReady, issued, taken, passVars, nodeStats, gwStats>>

\* Changed: without a ready radio the tick returns before it takes requests.
TickNoPollReadyOnly ==
    /\ ~inPass
    /\ pending > 0
    /\ radioReady
    /\ Due(ForcedWait) = {}
    /\ pending' = 0
    /\ wait' = ForcedWait
    /\ retries' = ForcedRetries
    /\ gwOnDemand' = SatAdd(gwOnDemand, pending)
    /\ UNCHANGED <<radioReady, issued, taken, passVars, nodeStats,
                   gwOk, gwFail, gwRetry>>

\* A tick that takes requests but polls nobody (radio not ready, no entries).
TickNoPoll ==
    /\ ~inPass
    /\ pending > 0
    /\ ~radioReady \/ Due(ForcedWait) = {}
    /\ pending' = 0
    /\ wait' = ForcedWait
    /\ retries' = ForcedRetries
    /\ gwOnDemand' = SatAdd(gwOnDemand, pending)
    /\ UNCHANGED <<radioReady, issued, taken, passVars, nodeStats,
                   gwOk, gwFail, gwRetry>>

\* Changed: the pass polls only its first due producer.
BeginPollFirst(p) ==
    /\ inPass
    /\ polling = 0
    /\ p \in dueLeft
    /\ \A q \in dueLeft : p <= q
    /\ polling' = p
    /\ dueLeft' = {}
    /\ UNCHANGED <<schedVars, reqVars, inPass, passAge, retrying, nodeStats,
                   gwStats>>

\* Changed: the producer stays in the due list while it is polled.
BeginPollKept(p) ==
    /\ inPass
    /\ polling = 0
    /\ p \in dueLeft
    /\ \A q \in dueLeft : p <= q
    /\ polling' = p
    /\ UNCHANGED <<schedVars, reqVars, inPass, passAge, dueLeft, retrying,
                   nodeStats, gwStats>>

\* The pass goes to the next due entry, in entry order.
BeginPoll(p) ==
    /\ inPass
    /\ polling = 0
    /\ p \in dueLeft
    /\ \A q \in dueLeft : p <= q
    /\ polling' = p
    /\ dueLeft' = dueLeft \ {p}
    /\ UNCHANGED <<schedVars, reqVars, inPass, passAge, retrying, nodeStats,
                   gwStats>>

\* Time d has passed in the poll of p; the entry is re-armed delay after the
\* now_ms the pass started with.
Rearm(p, d, delay) ==
    /\ wait' = [Elapse(wait, d) EXCEPT ![p] = Monus(delay, passAge + d)]
    /\ passAge' = passAge + d
    /\ polling' = 0
    /\ UNCHANGED <<radioReady, reqVars, inPass, dueLeft>>

\* mark_polled
MarkPolled(p, d) ==
    /\ Rearm(p, d, Interval[p])
    /\ retries' = [retries EXCEPT ![p] = 0]
    /\ UNCHANGED <<retrying, gwRetry, gwOnDemand>>

\* poll_producer returned telemetry, and the store has a record for p.
PollOk(p, d) ==
    /\ polling = p
    /\ MarkPolled(p, d)
    /\ okTotal' = [okTotal EXCEPT ![p] = SatAdd(@, 1)]
    /\ lastOk' = [lastOk EXCEPT ![p] = "true"]
    /\ lastError' = [lastError EXCEPT ![p] = NoReason]
    /\ gwOk' = SatAdd(gwOk, 1)
    /\ UNCHANGED <<failTotal, gwFail>>

\* Changed: only the producer's own total is stepped.
PollFailedLocally(p, d, reason) ==
    /\ polling = p
    /\ reason = Unsupported \/ retries[p] >= RetryCount
    /\ MarkPolled(p, d)
    /\ failTotal' = [failTotal EXCEPT ![p] = SatAdd(@, 1)]
    /\ lastOk' = [lastOk EXCEPT ![p] = "false"]
    /\ lastError' = [lastError EXCEPT ![p] = reason]
    /\ UNCHANGED <<okTotal, gwOk, gwFail>>

\* The client has stored its reason before the error reaches the scheduler;
\* an error that may not be retried again is the final result of the poll.
PollFailed(p, d, reason) ==
    /\ polling = p
    /\ reason = Unsupported \/ retries[p] >= RetryCount
    /\ MarkPolled(p, d)
    /\ failTotal' = [failTotal EXCEPT ![p] = SatAdd(@, 1)]
    /\ lastOk' = [lastOk EXCEPT ![p] = "false"]
    /\ lastError' = [lastError EXCEPT ![p] = reason]
    /\ gwFail' = SatAdd(gwFail, 1)
    /\ UNCHANGED <<okTotal, gwOk>>

\* Changed: the retry is re-armed as a poll that succeeded is, an interval later.
PollRetryNextInterval(p, d, reason) ==
    /\ polling = p
    /\ reason # Unsupported
    /\ retries[p] < RetryCount
    /\ Rearm(p, d, Interval[p])
    /\ retries' = [retries EXCEPT ![p] = @ + 1]
    /\ retrying' = retrying + 1
    /\ lastError' = [lastError EXCEPT ![p] = reason]
    /\ UNCHANGED <<okTotal, failTotal, lastOk, gwStats>>

\* mark_retry
PollRetry(p, d, reason) ==
    /\ polling = p
    /\ reason # Unsupported
    /\ retries[p] < RetryCount
    /\ Rearm(p, d, RetryDelay)
    /\ retries' = [retries EXCEPT ![p] = @ + 1]
    /\ retrying' = retrying + 1
    /\ lastError' = [lastError EXCEPT ![p] = reason]
    /\ UNCHANGED <<okTotal, failTotal, lastOk, gwStats>>

\* record_poll_pass, after the last due producer.
EndPass ==
    /\ inPass
    /\ polling = 0
    /\ dueLeft = {}
    /\ inPass' = FALSE
    /\ gwRetry' = SatAdd(gwRetry, retrying)
    /\ gwOnDemand' = SatAdd(gwOnDemand, taken)
    /\ passAge' = 0 /\ retrying' = 0 /\ taken' = 0
    /\ UNCHANGED <<schedVars, pending, issued, dueLeft, polling, nodeStats,
                   gwOk, gwFail>>

EndPoll(p) ==
    \E d \in PollTimes :
        \/ PollOk(p, d)
        \/ \E reason \in Reasons : PollFailed(p, d, reason) \/ PollRetry(p, d, reason)

Next ==
    \/ Advance \/ RadioUp \/ RequestPollNow
    \/ TickPoll \/ TickNoPoll \/ EndPass
    \/ \E p \in Producer : BeginPoll(p) \/ EndPoll(p)

Spec == Init /\ [][Next]_vars

(***************************************************************************)
(* The loop that calls tick never stops, time passes while it idles, and   *)
(* every wait of the MeshCore client has a timeout.                        *)
(***************************************************************************)
Fairness ==
    /\ WF_vars(Advance)
    /\ WF_vars(TickPoll)
    /\ WF_vars(TickNoPoll)
    /\ WF_vars(EndPass)
    /\ \A p \in Producer : WF_vars(BeginPoll(p)) /\ WF_vars(EndPoll(p))

FairSpec == Spec /\ Fairness

-----------------------------------------------------------------------------
\* Type invariant of the scheduler, the tick under way and the statistics.
TypeOK ==
    /\ wait \in [Producer -> Nat]
    /\ retries \in [Producer -> Nat]
    /\ radioReady \in BOOLEAN
    /\ pending \in 0 .. MaxPending
    /\ issued \in 0 .. MaxCount
    /\ taken \in 0 .. MaxPending
    /\ inPass \in BOOLEAN
    /\ passAge \in Nat
    /\ dueLeft \in SUBSET Producer
    /\ polling \in {0} \cup Producer
    /\ retrying \in Nat
    /\ okTotal \in [Producer -> 0 .. MaxCount]
    /\ failTotal \in [Producer -> 0 .. MaxCount]
    /\ lastOk \in [Producer -> {"none", "true", "false"}]
    /\ lastError \in [Producer -> Reasons \cup {NoReason}]
    /\ gwOk \in 0 .. MaxCount
    /\ gwFail \in 0 .. MaxCount
    /\ gwRetry \in 0 .. MaxCount
    /\ gwOnDemand \in 0 .. MaxCount

\* What is left of the retry delay, which runs from the now_ms of the pass.
RetryLeft == Monus(RetryDelay, passAge)

\* The error a producer shows is either counted as its failure or of a poll that
\* is owed again within the retry delay, counted from the clock reading the pass
\* began with; and whoever has used a retry is owed one, for an error that may be
\* retried.  So it stays through passes of the others, slow polls (which make the
\* reading old) and forced passes (which take the attempts back, not the error).
RetryOwed ==
    \A p \in Producer :
        /\ retries[p] > 0 => /\ lastError[p] \in Reasons \ {Unsupported}
                            /\ wait[p] <= RetryLeft
        /\ lastError[p] # NoReason /\ lastOk[p] # "false" => wait[p] <= RetryLeft

\* Every poll-now request is counted exactly once: it is waiting, it is in the
\* tick under way, or it is in poll_on_demand_total (telemetry_state.rs).
RequestsConserved == issued = SatAdd(pending + taken, gwOnDemand)

SumOver(totals) == MapThenSumSet(LAMBDA p : totals[p], Producer)

\* The gateway totals are the sums of the producers' totals: both are stepped
\* in one critical section of the store (record_poll_success/failure).
TotalsAgree ==
    /\ gwOk = SatAdd(0, SumOver(okTotal))
    /\ gwFail = SatAdd(0, SumOver(failTotal))

\* A producer whose last poll failed shows why: the client's reason is never
\* lost between set_poll_error and record_poll_failure.
FailureHasReason ==
    \A p \in Producer : lastOk[p] = "false" => lastError[p] \in Reasons

\* poll_now requests leave the counter only in a tick that makes every entry
\* due with a fresh retry budget, so none is dropped, whenever it arrives.
RequestsForceEveryEntry ==
    [][pending' < pending =>
          \A p \in Producer : wait'[p] = 0 /\ retries'[p] = 0]_vars

Duty == INSTANCE PollDuty WITH
    Budget <- RetryCount, Nobody <- 0,
    owed <- dueLeft, busy <- polling, used <- retries, verdict <- lastOk

\* The scheduler keeps the promise PollDuty states: one poll at a time, each
\* due producer once a pass, bounded retries, one verdict a poll.
KeepsDuty == Duty!DutySpec

\* Once the radio is ready every producer is polled again and again, whatever
\* the others do and however often the operator asks.
EveryProducerPolled ==
    \A p \in Producer : radioReady ~> (polling = p)

\* A poll-now request is eventually consumed, even before the radio is ready.
RequestsConsumed == (pending > 0) ~> (pending = 0)
=============================================================================
