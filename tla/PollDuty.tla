------------------------------ MODULE PollDuty ------------------------------
(***************************************************************************)
(* What the poll scheduler promises (5_SCHEDULER.md): producers are polled *)
(* one at a time over the single radio; a pass polls each producer it owes *)
(* exactly once; a poll may be deferred for retry at most Budget times and *)
(* then counts once, as a success or a failure; an operator's request, and *)
(* only that, gives every producer its whole budget back, between passes.  *)
(***************************************************************************)
EXTENDS Naturals

CONSTANTS Producer, Budget, Nobody

VARIABLES
    owed,    \* producers the pass under way has still to poll
    busy,    \* the producer that has the radio, or Nobody
    used,    \* used[p]: retries of p's poll so far
    verdict  \* verdict[p]: final result of p's last poll

dutyVars == <<owed, busy, used, verdict>>

DutyInit ==
    /\ owed = {}
    /\ busy = Nobody
    /\ used = [p \in Producer |-> 0]
    /\ verdict = [p \in Producer |-> "none"]

Free == owed = {} /\ busy = Nobody

\* A pass that owes some producers a poll begins, perhaps on request.
BeginDuty(due) ==
    /\ Free
    /\ due # {}
    /\ owed' = due
    /\ \/ UNCHANGED used
       \/ due = Producer /\ used' = [p \in Producer |-> 0]
    /\ UNCHANGED <<busy, verdict>>

\* A request is honoured while there is nobody to poll, or no radio.
Refill ==
    /\ Free
    /\ used' = [p \in Producer |-> 0]
    /\ UNCHANGED <<owed, busy, verdict>>

Start(p) ==
    /\ busy = Nobody
    /\ p \in owed
    /\ owed' = owed \ {p}
    /\ busy' = p
    /\ UNCHANGED <<used, verdict>>

Defer(p) ==
    /\ busy = p
    /\ used[p] < Budget
    /\ busy' = Nobody
    /\ used' = [used EXCEPT ![p] = @ + 1]
    /\ UNCHANGED <<owed, verdict>>

Conclude(p, result) ==
    /\ busy = p
    /\ busy' = Nobody
    /\ used' = [used EXCEPT ![p] = 0]
    /\ verdict' = [verdict EXCEPT ![p] = result]
    /\ UNCHANGED owed

DutyNext ==
    \/ \E due \in SUBSET Producer : BeginDuty(due)
    \/ Refill
    \/ \E p \in Producer :
          Start(p) \/ Defer(p) \/ \E result \in {"true", "false"} : Conclude(p, result)

DutySpec == DutyInit /\ [][DutyNext]_dutyVars
=============================================================================
