------------------------------ MODULE NetworkLoop ------------------------------
(***************************************************************************)
(* serve_http of wifi.rs: one loop that keeps the station associated,      *)
(* leases an address, serves the socket pool, watches over all of it and   *)
(* runs the scheduler when no client is being served.  The scheduler's     *)
(* maintenance callback serves the pool again in the middle of its polls.  *)
(*                                                                         *)
(* Time passes in units of HTTP_SOCKET_STATE_REPORT_MS, wherever the loop  *)
(* waits.  TCP sockets and the DHCP client move only where poll_network    *)
(* runs, so the steps between two of its calls see them stand still.       *)
(***************************************************************************)
EXTENDS WifiStation, HttpPool, Sequences

CONSTANTS
    Cooldown,      \* NETWORK_RECOVERY_COOLDOWN_MS
    PoolStalled,   \* HTTP_SOCKET_POOL_STALLED_RECOVERY_MS
    IdleRecovery,  \* HTTP_IDLE_RECOVERY_MS
    ErrorWindow,   \* HTTP_SEND_ERROR_RECOVERY_WINDOW_MS
    ErrorThreshold,\* HTTP_SEND_ERROR_RECOVERY_THRESHOLD
    AirFaults      \* the air may fail: without it, requests succeed and links hold

ASSUME WatchdogAssumption ==
    /\ {Cooldown, PoolStalled, IdleRecovery, ErrorWindow, ErrorThreshold} \subseteq Nat \ {0}
    /\ AirFaults \in BOOLEAN

VARIABLES
    pc,      \* where the loop stands; "startup" before it
    inTick,  \* the scheduler's tick is running
    dog,     \* NetworkWatchdog
    recAge,  \* history: time since the last forced recovery
    errors   \* history: ages of the send errors since the last success, newest first

vars == <<stationVars, poolVars, pc, inTick, dog, recAge, errors>>

NetTypeOK ==
    /\ StationTypeOK /\ PoolTypeOK
    /\ pc \in {"startup", "top", "net", "service", "decide", "tick"}
    /\ inTick \in BOOLEAN
    /\ dog \in [cool : {Never} \cup 0..Cooldown, forced : BOOLEAN,
                stalled : {Never} \cup 0..PoolStalled,
                idle : {Never} \cup 0..IdleRecovery,
                errAge : {Never} \cup 0..ErrorWindow + 1,
                errCount : 0..ErrorThreshold, sampled : BOOLEAN]
    /\ recAge \in {Never} \cup 0..Cooldown
    /\ errors \in Seq(0..ErrorWindow + 1)

-----------------------------------------------------------------------------
(* NetworkWatchdog.  saw_http_client holds exactly when dog.idle is set.    *)

NewDog == [cool |-> Never, forced |-> FALSE, stalled |-> Never, idle |-> Never,
           errAge |-> Never, errCount |-> 0, sampled |-> FALSE]

Ages(age, cap) == IF age = Never \/ age = cap THEN age ELSE age + 1

AgeDog ==
    /\ dog' = [dog EXCEPT !.cool = Ages(@, Cooldown), !.stalled = Ages(@, PoolStalled),
                          !.idle = Ages(@, IdleRecovery), !.errAge = Ages(@, ErrorWindow + 1),
                          !.sampled = FALSE]
    /\ recAge' = Ages(recAge, Cooldown)
    /\ errors' = [i \in DOMAIN errors |-> Ages(errors[i], ErrorWindow + 1)]

RecordActivity(w) == [w EXCEPT !.idle = 0]

RecordSuccess(w) == [w EXCEPT !.idle = 0, !.errAge = Never, !.errCount = 0]

\* Changed: an old error still counts.
RecordSendErrorForever(w) ==
    LET n == Least(w.errCount + 1, ErrorThreshold)
    IN [w EXCEPT !.errAge = IF w.errAge = Never THEN 0 ELSE w.errAge,
                 !.errCount = n, !.forced = @ \/ n = ErrorThreshold]

RecordSendError(w) ==
    LET fresh == w.errAge = Never \/ w.errAge > ErrorWindow
        n == IF fresh THEN 1 ELSE Least(w.errCount + 1, ErrorThreshold)
    IN [w EXCEPT !.errAge = IF fresh THEN 0 ELSE @, !.errCount = n,
                 !.forced = @ \/ n = ErrorThreshold]

MarkEndpointReady(w) == [w EXCEPT !.idle = IF @ = Never THEN Never ELSE 0,
                                  !.stalled = Never]

\* record_socket_state, at most once per unit of time.
RecordSocketState(w, full) ==
    IF w.sampled THEN w
    ELSE [w EXCEPT !.sampled = TRUE,
                   !.stalled = IF ~full THEN Never ELSE IF @ = Never THEN 0 ELSE @]

\* Changed: recoveries may follow each other at once.
RecoveryDueAtOnce(w) == w.forced \/ w.stalled >= PoolStalled \/ w.idle >= IdleRecovery

\* recovery_reason is Some.
RecoveryDue(w) ==
    /\ w.cool \in {Never, Cooldown}
    /\ w.forced \/ w.stalled >= PoolStalled \/ w.idle >= IdleRecovery

MarkRecovery(w) ==
    [w EXCEPT !.cool = 0, !.idle = IF @ = Never THEN Never ELSE 0, !.stalled = Never,
              !.forced = FALSE, !.errAge = Never, !.errCount = 0]

-----------------------------------------------------------------------------
NetInit ==
    /\ StationInit /\ PoolInit
    /\ pc = "startup" /\ inTick = FALSE
    /\ dog = NewDog /\ recAge = Never /\ errors = << >>

Goto(label) == pc' = label
watchVars == <<dog, recAge, errors>>
loopVars == <<pc, inTick>>

\* Time passes while the loop waits or a response is sent.
Tick ==
    /\ pc \in {"startup", "top", "service", "tick"}
    /\ AgeStation /\ AgePool /\ AgeDog
    /\ UNCHANGED loopVars

\* The air.  The loop looks at the association once a pass.
Air ==
    /\ \/ Associate
       \/ AirFaults /\ (\/ \E a \in APs : ApChange(a)
                        \/ LinkLost \/ ConnectFails \/ LateEvent)
    /\ pc \in {"startup", "top"}
    /\ UNCHANGED <<poolVars, watchVars, loopVars>>

\* poll_network, at the places that call it.
Network ==
    /\ pc \in {"net", "service"} /\ phase # "read"
    /\ \/ NetMoves /\ assoc /\ endpoint # NoLease /\ UNCHANGED stationVars
       \/ \E l \in Addrs \cup {NoLease} : DhcpMoves(l) /\ UNCHANGED poolVars
    /\ UNCHANGED <<watchVars, loopVars>>

\* wait_for_wifi_recovering: a pass, and its end.
StartupPass ==
    /\ pc = "startup" /\ Reconnect
    /\ UNCHANGED <<link, lease, changed, endpoint, dhcpPolls, poolVars, watchVars, loopVars>>

EnterServing ==
    /\ pc = "startup" /\ EnterLoop /\ Goto("top")
    /\ UNCHANGED <<poolVars, watchVars, inTick>>

DownPass ==
    /\ pc = "top" /\ ReconnectPass
    /\ IF link THEN ResetSockets ELSE UNCHANGED poolVars
    /\ UNCHANGED <<watchVars, loopVars>>

UpPass ==
    /\ pc = "top" /\ assoc /\ Goto("net")
    /\ IF link THEN UNCHANGED <<stationVars, poolVars>> ELSE Relink /\ ResetSockets
    /\ UNCHANGED <<watchVars, inTick>>

\* poll_dhcp and what follows from a change of the endpoint.
AfterDhcp ==
    /\ TakeDhcpEvent
    /\ IF endpoint' # endpoint THEN ResetSockets ELSE UNCHANGED poolVars
    /\ dog' = IF endpoint' \notin {endpoint, NoLease} THEN MarkEndpointReady(dog) ELSE dog

\* HttpSend; any other error of a request leaves the watchdog alone.
SendFails ==
    /\ AbortResponse
    /\ dog' = RecordSendError(dog)
    /\ errors' = SubSeq(<<0>> \o errors, 1, Least(Len(errors) + 1, ErrorThreshold))
    /\ UNCHANGED pc

HaveLease ==
    /\ pc = "net" /\ AfterDhcp
    /\ endpoint' # NoLease
    /\ dhcpPolls' = PollsAfterEvent
    /\ Goto("service")
    /\ UNCHANGED <<started, pending, link, rec, reqAge, recAge, errors, inTick>>

AwaitLease ==
    /\ pc = "net" /\ AfterDhcp
    /\ endpoint' = NoLease
    /\ PollsAfterEvent < DhcpAttempts
    /\ dhcpPolls' = PollsAfterEvent + 1
    /\ Goto("top")
    /\ UNCHANGED <<started, pending, link, rec, reqAge, recAge, errors, inTick>>

\* No lease after DHCP_ATTEMPTS polls: the association is given up.
DhcpTimeout(left) ==
    /\ pc = "net" /\ endpoint = NoLease /\ ~changed
    /\ dhcpPolls = DhcpAttempts
    /\ GiveUpLink(left) /\ ResetSockets /\ Goto("top")
    /\ UNCHANGED <<watchVars, inTick>>

\* service_http_once: what each of its steps means to the watchdog.
Service ==
    /\ pc = "service"
    /\ \/ /\ BeginService
          /\ LET full == Listening' = {} /\ ActiveSockets' = Sockets
             IN dog' = RecordSocketState(dog, full)
          /\ UNCHANGED <<errors, pc>>
       \/ (ReadOn \/ FinishResponse) /\ UNCHANGED <<dog, errors, pc>>
       \/ BeginResponse /\ dog' = RecordActivity(dog) /\ UNCHANGED <<errors, pc>>
       \/ ResponseDone /\ dog' = RecordSuccess(dog) /\ errors' = << >> /\ UNCHANGED pc
       \/ SendFails
       \/ AbortResponse /\ UNCHANGED <<dog, errors, pc>>
       \/ /\ ServiceDone
          /\ Goto(IF inTick THEN "tick" ELSE "decide")
          /\ UNCHANGED <<dog, errors>>
    /\ UNCHANGED <<stationVars, recAge, inTick>>

\* A watchdog has a reason: sockets, lease and association are dropped.
ForceRecovery(left) ==
    /\ pc = "decide" /\ RecoveryDue(dog)
    /\ GiveUpLink(left) /\ ResetSockets
    /\ dog' = MarkRecovery(dog) /\ recAge' = 0 /\ errors' = << >>
    /\ Goto("top")
    /\ UNCHANGED inTick

\* A client is being served: the scheduler has to wait for the next pass.
DeferTick ==
    /\ pc = "decide" /\ ~RecoveryDue(dog) /\ ActiveSockets # {}
    /\ Goto("top")
    /\ UNCHANGED <<stationVars, poolVars, watchVars, inTick>>

BeginTick ==
    /\ pc = "decide" /\ ~RecoveryDue(dog) /\ ActiveSockets = {}
    /\ inTick' = TRUE /\ Goto("tick")
    /\ UNCHANGED <<stationVars, poolVars, watchVars>>

\* The maintenance callback, called while a poll waits.
Maintain ==
    /\ pc = "tick" /\ Goto("service")
    /\ UNCHANGED <<stationVars, poolVars, watchVars, inTick>>

EndTick ==
    /\ pc = "tick" /\ inTick' = FALSE /\ Goto("top")
    /\ UNCHANGED <<stationVars, poolVars, watchVars>>

Step ==
    \/ StartupPass \/ EnterServing \/ DownPass \/ UpPass
    \/ HaveLease \/ AwaitLease
    \/ \E left \in BOOLEAN : DhcpTimeout(left) \/ ForceRecovery(left)
    \/ Service \/ DeferTick \/ BeginTick \/ Maintain \/ EndTick

NetNext == Step \/ Tick \/ Air \/ Network

NetSpec == NetInit /\ [][NetNext]_vars

-----------------------------------------------------------------------------
(* Properties                                                              *)

\* HTTP is served only on a lease of the link the loop believes in, and no
\* connection is left where there is no lease: every branch of the loop that
\* drops one drops the other (clear_network_config, poll_dhcp).
ServedOnLease ==
    /\ endpoint # NoLease => link
    /\ endpoint = NoLease => \A s \in Sockets : tcp[s] = "closed"

\* Connect requests are paced, over retries, disconnect events and deep
\* recoveries alike, unless the link came up in between.
ConnectPaced == [][reqAge' = 0 /\ reqAge # 0 => reqAge = Pace]_vars

\* Forced recoveries keep their distance.
RecoveriesSpaced == [][recAge' = 0 => recAge \in {Never, 0, Cooldown}]_vars

\* Send errors force a recovery only when the threshold is met within the window.
ErrorsJustifyRecovery ==
    [][~dog.forced /\ dog'.forced =>
          Len(errors') = ErrorThreshold /\ errors'[ErrorThreshold] <= ErrorWindow]_vars

-----------------------------------------------------------------------------
(* Fairness: the loop runs, time passes, waits end, and what is possible   *)
(* again and again - an association, a lease - happens at last.            *)

Lease == \E l \in Addrs : DhcpMoves(l) /\ UNCHANGED <<poolVars, watchVars, loopVars>>
NetFairness ==
    /\ WF_vars(Step)
    /\ SF_vars(Tick)
    /\ SF_vars(Air /\ Associate)
    /\ SF_vars((StartupPass \/ DownPass) /\ pending')
    /\ SF_vars((StartupPass \/ DownPass) /\ started' /\ ~started)
    /\ SF_vars(pc = "net" /\ lease = NoLease /\ Lease)

NetFairSpec == NetSpec /\ NetFairness

Reachable == \E a \in APs : Acceptable(a)

\* While an access point stays reachable, the station is associated again and
\* again, whatever requests, deep recoveries and late events were on the way.
LinkComesBack == <>[]Reachable => []<>assoc

\* While the link holds, HTTP is served again and again.
ServingComesBack == <>[]assoc => []<>(endpoint # NoLease)

=============================================================================
