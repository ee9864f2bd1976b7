------------------------------ MODULE WifiStation ------------------------------
(***************************************************************************)
(* The Wi-Fi station of the HTTP firmware: association with an access      *)
(* point, its retries, and the DHCP client (wifi.rs).  Time is relative:   *)
(* rec.unconn is the age of first_unconnected_ms, rec.next what is left to *)
(* next_connect_ms; the unit is one pass of the reconnect loop.            *)
(***************************************************************************)
EXTENDS Integers, FiniteSets

CONSTANTS
    APs,          \* access points that serve the configured SSID
    Addrs,        \* addresses the DHCP server may lease
    Backoff,      \* pause after the n-th connect request; the last one repeats
    Deep,         \* WIFI_CONNECT_DEEP_RECOVERY_MS
    DeepPause,    \* the pause mark_deep_recovery makes
    DhcpAttempts  \* DHCP_ATTEMPTS

Attempts == DOMAIN Backoff
LastBackoff == Cardinality(Attempts)

ASSUME StationAssumption ==
    /\ IsFiniteSet(Attempts) /\ LastBackoff \in Nat \ {0} /\ Attempts = 1..LastBackoff
    /\ Backoff \in [Attempts -> Nat \ {0}]
    /\ \A n \in Attempts : Backoff[1] <= Backoff[n]  \* next_backoff_ms grows
    /\ {Deep, DeepPause, DhcpAttempts} \subseteq Nat \ {0}

NoAP == "no AP"
NoLease == "no lease"
Absent == -1

VARIABLES
    up,        \* the access points on the air
    pin,       \* the BSSID the configuration is pinned to, or NoAP
    started,   \* controller.is_started
    assoc,     \* controller.is_connected returns Ok(true)
    pending,   \* the driver works on a connect request
    link,      \* wifi_connected, what the loop last saw
    rec,       \* WifiConnectRecovery
    lease,     \* the configuration the DHCP socket holds
    changed,   \* ... and whether its next poll reports an event
    endpoint,  \* what HTTP is served on
    dhcpPolls, \* dhcp_polls
    reqAge     \* history: time since the last connect request or link

stationVars == <<up, pin, started, assoc, pending, link, rec,
                 lease, changed, endpoint, dhcpPolls, reqAge>>

Pace == IF Backoff[1] < DeepPause THEN Backoff[1] ELSE DeepPause
Least(a, b) == IF a < b THEN a ELSE b

StationTypeOK ==
    /\ up \subseteq APs /\ pin \in APs \cup {NoAP}
    /\ started \in BOOLEAN /\ assoc \in BOOLEAN /\ pending \in BOOLEAN
    /\ link \in BOOLEAN /\ changed \in BOOLEAN
    /\ rec \in [unconn : {Absent} \cup 0..Deep, next : Nat,
                attempts : 0..LastBackoff, inFlight : BOOLEAN, event : BOOLEAN]
    /\ lease \in Addrs \cup {NoLease} /\ endpoint \in Addrs \cup {NoLease}
    /\ dhcpPolls \in 0..DhcpAttempts
    /\ reqAge \in 0..Pace

-----------------------------------------------------------------------------
(* WifiConnectRecovery.  rec.event says that the disconnect counter differs *)
(* from last_disconnect_seq.                                                *)

NewRecovery == [unconn |-> 0, next |-> 0, attempts |-> 0,
                inFlight |-> FALSE, event |-> FALSE]

ResetUnconnected == NewRecovery

MarkConnected(r) == [r EXCEPT !.unconn = Absent, !.next = 0,
                              !.inFlight = FALSE, !.attempts = 0]

\* Changed: the pause between two requests is not looked at.
ShouldConnectAtOnce(r) == ~r.inFlight \/ r.event

ShouldConnect(r) == r.next = 0 /\ (~r.inFlight \/ r.event)

MarkConnectRequest(r) ==
    LET n == Least(r.attempts + 1, LastBackoff)
    IN [r EXCEPT !.attempts = n, !.event = FALSE, !.inFlight = TRUE,
                 !.next = Backoff[n]]

\* Changed: a request that is not answered is never given up.
ShouldDeepRecoverNever(r) == r.unconn >= Deep /\ ~r.inFlight

ShouldDeepRecover(r) == r.unconn >= Deep

MarkDeepRecovery == [unconn |-> 0, next |-> DeepPause, attempts |-> 0,
                        inFlight |-> FALSE, event |-> FALSE]

AgeRecovery(r) ==
    [r EXCEPT !.unconn = IF @ = Absent THEN Absent ELSE Least(@ + 1, Deep),
              !.next = IF @ > 0 THEN @ - 1 ELSE 0]

\* One unit of time passes.
AgeStation ==
    /\ rec' = AgeRecovery(rec)
    /\ reqAge' = Least(reqAge + 1, Pace)
    /\ UNCHANGED <<up, pin, started, assoc, pending, link, lease, changed, endpoint, dhcpPolls>>

-----------------------------------------------------------------------------
(* The access points, the driver and the DHCP server.                      *)

\* What an access point must be for the pinned configuration to accept it.
Acceptable(a) == a \in up /\ (pin = NoAP \/ pin = a)

\* An access point appears or disappears; with the one in use the link goes.
ApChange(a) ==
    /\ up' = IF a \in up THEN up \ {a} ELSE up \cup {a}
    /\ LET lost == assoc /\ a \in up /\ (pin = a \/ up = {a})
       IN /\ assoc' = (assoc /\ ~lost)
          /\ rec' = [rec EXCEPT !.event = @ \/ lost]
    /\ UNCHANGED <<pin, started, pending, link, lease, changed, endpoint, dhcpPolls, reqAge>>

\* The driver loses the association on its own, and reports it.
LinkLost ==
    /\ assoc
    /\ assoc' = FALSE
    /\ rec' = [rec EXCEPT !.event = TRUE]
    /\ UNCHANGED <<up, pin, started, pending, link, lease, changed, endpoint, dhcpPolls, reqAge>>

\* A connect request succeeds.
Associate ==
    /\ pending /\ started /\ \E a \in APs : Acceptable(a)
    /\ assoc' = TRUE /\ pending' = FALSE
    /\ UNCHANGED <<up, pin, started, link, rec, lease, changed, endpoint, dhcpPolls, reqAge>>

\* A connect request fails, and the driver reports a disconnect.
ConnectFails ==
    /\ pending /\ pending' = FALSE
    /\ rec' = [rec EXCEPT !.event = TRUE]
    /\ UNCHANGED <<up, pin, started, assoc, link, lease, changed, endpoint, dhcpPolls, reqAge>>

\* The event of an earlier disconnect arrives late.
LateEvent ==
    /\ ~assoc
    /\ rec' = [rec EXCEPT !.event = TRUE]
    /\ UNCHANGED <<up, pin, started, assoc, pending, link, lease, changed, endpoint,
                   dhcpPolls, reqAge>>

\* poll_network moves the DHCP socket: bound, bound otherwise, or expired.
\* Its next poll reports a change of configuration.  A lease lasts longer than
\* one pass of the loop.
DhcpMoves(l) ==
    /\ assoc /\ lease # l
    /\ l = NoLease => ~changed
    /\ lease' = l /\ changed' = TRUE
    /\ UNCHANGED <<up, pin, started, assoc, pending, link, rec, endpoint, dhcpPolls, reqAge>>

\* dhcpv4::Socket::reset: a bound client will report the loss.
ResetDhcp ==
    /\ lease' = NoLease
    /\ changed' = (changed \/ lease # NoLease)

-----------------------------------------------------------------------------
(* serve_http up to its loop; the driver may refuse the pinned settings,    *)
(* and the unpinned ones are used.                                          *)

\* station_config_pinned_to_best_ap: any of the access points on the air may be the
\* strongest the scan finds, and the scan may fail or find none.
PinChoices == up \cup {NoAP}

StationInit ==
    /\ up \in SUBSET APs
    /\ pin \in PinChoices
    /\ started = TRUE /\ assoc = FALSE /\ pending = FALSE /\ link = FALSE
    /\ rec = NewRecovery
    /\ lease = NoLease /\ changed = FALSE /\ endpoint = NoLease /\ dhcpPolls = 0
    /\ reqAge = Pace

\* What the reconnect branch makes of the recovery state when it is entered.
OnEntry == IF link THEN ResetUnconnected ELSE rec

\* deep_recover_wifi: disconnect and stop, then configure and start again, each
\* of which may fail and leave the controller stopped.  now_ms was read before,
\* so no request follows in the same pass.
DeepRecover(ok) ==
    /\ ShouldDeepRecover(OnEntry)
    /\ started' = ok /\ pending' = FALSE
    /\ rec' = MarkDeepRecovery
    /\ UNCHANGED reqAge

\* request_wifi_connect: the driver takes the request or returns an error.
\* Both count as a request in flight.
RequestConnect(taken) ==
    /\ ~ShouldDeepRecover(OnEntry) /\ ShouldConnect(OnEntry)
    /\ taken => started
    /\ pending' = (taken \/ pending)
    /\ rec' = MarkConnectRequest(OnEntry)
    /\ reqAge' = 0
    /\ UNCHANGED started

AwaitConnect ==
    /\ ~ShouldDeepRecover(OnEntry) /\ ~ShouldConnect(OnEntry)
    /\ rec' = OnEntry
    /\ UNCHANGED <<started, pending, reqAge>>

\* The branch of a pass that finds the controller not connected.
Reconnect ==
    /\ ~assoc
    /\ \/ \E ok \in BOOLEAN : DeepRecover(ok)
       \/ \E taken \in BOOLEAN : RequestConnect(taken)
       \/ AwaitConnect
    /\ UNCHANGED <<up, pin, assoc>>

\* Changed: the DHCP socket is not reset, and has nothing new to report.
ClearLeaseKeeping == UNCHANGED <<lease, changed>> /\ endpoint' = NoLease /\ dhcpPolls' = 0

\* clear_network_config, reached with the link lost or given up.
ClearLease == ResetDhcp /\ endpoint' = NoLease /\ dhcpPolls' = 0

\* Changed: the address is kept for when the link comes back.
ReconnectPassKeeping ==
    /\ Reconnect
    /\ link' = FALSE
    /\ UNCHANGED <<lease, changed, endpoint, dhcpPolls>>

\* A pass without the link; the first one clears the network configuration.
\* The display and the progress log are left out.
ReconnectPass ==
    /\ Reconnect
    /\ link' = FALSE
    /\ IF link THEN ClearLease ELSE UNCHANGED <<lease, changed, endpoint, dhcpPolls>>

\* The first pass that finds the link again.
Relink ==
    /\ assoc /\ ~link
    /\ link' = TRUE
    /\ rec' = MarkConnected(rec)
    /\ reqAge' = Pace
    /\ ClearLease
    /\ UNCHANGED <<up, pin, started, assoc, pending>>

\* wait_for_wifi_recovering found the link, and serve_http begins its loop
\* with a fresh WifiConnectRecovery.
EnterLoop ==
    /\ assoc /\ ~link
    /\ link' = TRUE
    /\ rec' = [NewRecovery EXCEPT !.event = rec.event]
    /\ reqAge' = Pace
    /\ UNCHANGED <<up, pin, started, assoc, pending, lease, changed, endpoint, dhcpPolls>>

\* poll_dhcp: an event is the lease the socket holds now.
TakeDhcpEvent ==
    /\ endpoint' = IF changed THEN lease ELSE endpoint
    /\ changed' = FALSE
    /\ UNCHANGED <<up, pin, assoc, lease>>

PollsAfterEvent == IF changed THEN 0 ELSE dhcpPolls

\* controller.disconnect after a DHCP timeout or a network recovery: it may
\* fail and leave the station associated.
GiveUpLink(left) ==
    /\ assoc' = ~left
    /\ link' = FALSE
    /\ ClearLease
    /\ rec' = ResetUnconnected
    /\ UNCHANGED <<up, pin, started, pending, reqAge>>

=============================================================================
