----------------------------- MODULE NetworkGauges -----------------------------
(***************************************************************************)
(* What the network loop publishes about itself through telemetry_state.rs *)
(* while it works: whether the station is associated, whether a lease is   *)
(* installed, its address, and whether HTTP has been served since the last *)
(* start of the network.  The event hook counts disconnects; a pass        *)
(* publishes what was counted since the last one, before it looks at the   *)
(* association itself.  Counters and timestamps are left out.              *)
(***************************************************************************)
EXTENDS NetworkLoop

VARIABLES
    gauge,  \* GatewayMetrics: the fields about the network
    unseen  \* the disconnect counter differs from observed_disconnect_events

gaugeVars == <<vars, gauge, unseen>>

-----------------------------------------------------------------------------
(* The recorders of telemetry_state.rs, from one state of the gauges to the *)
(* next.                                                                    *)

NetworkStarted(g) == [g EXCEPT !.serving = FALSE]
WifiConnectedAt(g) == [g EXCEPT !.wifi = TRUE]
WifiApInfo(g) == [g EXCEPT !.wifi = TRUE]
WifiDisconnects(g, any) == [g EXCEPT !.wifi = @ /\ ~any]
DhcpReset(g) == [g EXCEPT !.dhcp = FALSE]
DhcpStarted(g) == [g EXCEPT !.dhcp = FALSE]
DhcpConfigured(g, ip) == [g EXCEPT !.dhcp = TRUE, !.ip = ip]
DhcpDeconfigured(g) == [g EXCEPT !.dhcp = FALSE, !.ip = NoLease]
DhcpTimedOut(g) == [g EXCEPT !.dhcp = FALSE]
ServingStarted(g) == [g EXCEPT !.serving = TRUE]

\* clear_network_config, and the restart of the network that follows it.
NetworkCleared(g) == NetworkStarted(DhcpReset(DhcpDeconfigured(g)))

-----------------------------------------------------------------------------
GaugeInit ==
    /\ NetInit
    /\ gauge = [wifi |-> FALSE, dhcp |-> FALSE, ip |-> NoLease, serving |-> FALSE]
    /\ unseen = FALSE

\* The event hook counts the disconnects the driver reports.
Observed ==
    /\ Air
    /\ unseen' = (unseen \/ LinkLost \/ ConnectFails \/ LateEvent \/ (assoc /\ ~assoc'))
    /\ UNCHANGED gauge

EntryPublishes ==
    /\ EnterServing
    /\ gauge' = WifiConnectedAt(WifiApInfo(WifiDisconnects(DhcpStarted(gauge), unseen)))
    /\ unseen' = FALSE

DownPublishes ==
    /\ DownPass
    /\ LET seen == WifiDisconnects(gauge, unseen)
       IN gauge' = IF link THEN NetworkCleared(seen) ELSE seen
    /\ unseen' = FALSE

\* Changed: what was counted while the link was down is published after it.
UpPublishesLate ==
    /\ UpPass
    /\ gauge' = IF link THEN gauge
                ELSE WifiDisconnects(DhcpStarted(DhcpReset(WifiConnectedAt(gauge))), unseen)
    /\ unseen' = FALSE

UpPublishes ==
    /\ UpPass
    /\ LET seen == WifiDisconnects(gauge, unseen)
       IN gauge' = IF link THEN seen
                   ELSE DhcpStarted(DhcpReset(WifiApInfo(WifiConnectedAt(seen))))
    /\ unseen' = FALSE

\* poll_dhcp publishes the event, the loop a change of its endpoint.
AfterPollDhcp ==
    LET polled == IF ~changed THEN gauge
                  ELSE IF lease = NoLease THEN DhcpDeconfigured(gauge)
                  ELSE DhcpConfigured(gauge, lease)
    IN IF endpoint' = endpoint THEN polled
       ELSE IF endpoint' = NoLease THEN DhcpDeconfigured(polled)
       ELSE ServingStarted(polled)

LeasePublishes ==
    /\ HaveLease \/ AwaitLease
    /\ gauge' = AfterPollDhcp
    /\ UNCHANGED unseen

GiveUpPublishes ==
    /\ \/ \E left \in BOOLEAN : /\ DhcpTimeout(left)
                                /\ gauge' = DhcpStarted(NetworkCleared(DhcpTimedOut(gauge)))
       \/ \E left \in BOOLEAN : /\ ForceRecovery(left)
                                /\ gauge' = DhcpStarted(NetworkCleared(gauge))
    /\ UNCHANGED unseen

Unpublished ==
    /\ StartupPass \/ Service \/ DeferTick \/ BeginTick \/ Maintain \/ EndTick \/ Tick \/ Network
    /\ UNCHANGED <<gauge, unseen>>

GaugeNext ==
    \/ Observed \/ EntryPublishes \/ DownPublishes \/ UpPublishes
    \/ LeasePublishes \/ GiveUpPublishes \/ Unpublished

GaugeSpec == GaugeInit /\ [][GaugeNext]_gaugeVars
GaugeFairSpec == GaugeSpec /\ NetFairness

-----------------------------------------------------------------------------
(* Properties                                                              *)

\* What is published agrees with what is served: the published lease is the one
\* HTTP is served on, and a client that reads the metrics over Wi-Fi never reads
\* that Wi-Fi is down or that HTTP has not been served since the network started,
\* in whatever order disconnects, late events, leases and recoveries came.
GaugesTruthful ==
    /\ gauge.dhcp <=> endpoint # NoLease
    /\ gauge.ip = endpoint
    /\ pc \in {"service", "decide", "tick"} => gauge.wifi /\ gauge.serving

=============================================================================
