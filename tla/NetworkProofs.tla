---------------------------- MODULE NetworkProofs -----------------------------
(***************************************************************************)
(* Proofs about the network loop, the station, the watchdog and what the   *)
(* loop publishes, for any number of access points, addresses and sockets, *)
(* any pauses and limits, and an air that may fail or not.  A connection   *)
(* that has got its response is on its way out, whatever its client and    *)
(* the link do while it drains.                                            *)
(***************************************************************************)
EXTENDS NetworkGauges, SequenceTheorems, TLAPS

-----------------------------------------------------------------------------
(* The socket pool                                                         *)

\* Something is read or answered on a socket of the pool.
CursorInv ==
    /\ phase \in {"send", "drain"} => cur \in Sockets
    /\ phase = "read" => cur >= 1

\* A connection that got its response can only be closed; the socket forgets it
\* before it listens again.
ServedInv == \A s \in Sockets :
    served[s] => tcp[s] \in {"fin wait", "closing", "time wait", "closed"}

PoolInv == PoolTypeOK /\ CursorInv /\ ServedInv

LEMMA PoolConstants == N \in Nat \ {0} /\ Stall \in Nat \ {0} /\ Clients \subseteq Sockets
BY PoolAssumption DEF Sockets

LEMMA SocketNumbers ==
    /\ 0 \in {Never} \cup 0..Stall /\ 0 \in 0..N + 1 /\ 1 \in 0..N + 1
    /\ \A s \in Sockets : s \in 0..N + 1 /\ s + 1 \in 0..N + 1 /\ s >= 1
    /\ \A age \in {Never} \cup 0..Stall : age = Never \/ age \in 0..Stall
BY PoolConstants DEF Sockets, Never

\* The cursor moves to the next socket, or to the first.
Cursor ==
    /\ cur \in 0..N + 1 /\ phase \in {"idle", "read", "send", "drain"}
    /\ phase = "idle" <=> cur = 0
    /\ CursorInv

LEMMA CursorMoves ==
    ASSUME phase' = "read", cur' = 1 \/ (cur \in Sockets /\ cur' = cur + 1)
    PROVE  Cursor'
<1>1. cur' \in 0..N + 1 /\ cur' >= 1 /\ cur' # 0
  BY PoolConstants DEF Sockets
<1> QED
  BY <1>1 DEF Cursor, CursorInv

LEMMA Aging ==
    ASSUME NEW age \in {Never} \cup 0..Stall
    PROVE  Older(age) \in {Never} \cup 0..Stall
BY PoolConstants DEF Older, Never

\* What the network does to one socket leaves the connections that got their
\* response on their way out.
LEMMA NetMovesKeep == PoolInv /\ NetMoves => PoolInv'
<1> SUFFICES ASSUME PoolInv, NetMoves PROVE PoolInv'
  OBVIOUS
<1> USE DEF PoolInv, PoolTypeOK, CursorInv, ServedInv
<1>1. PICK s \in Sockets :
         \/ Connection(s) \/ Handshake(s) \/ PeerMoves(s) \/ Lost(s)
         \/ \E bytes \in {"part", "full"} : Data(s, bytes)
  BY DEF NetMoves
<1>2. CASE Connection(s)
  BY <1>2, SocketNumbers DEF Connection, TcpStates
<1>3. CASE Handshake(s)
  BY <1>3 DEF Handshake, TcpStates
<1>4. CASE PeerMoves(s)
  BY <1>4, ZenonT(60) DEF PeerMoves, TcpStates
<1>5. CASE Lost(s)
  BY <1>5 DEF Lost, TcpStates
<1>6. ASSUME NEW bytes \in {"part", "full"}, Data(s, bytes) PROVE PoolInv'
  BY <1>6 DEF Data
<1> QED
  BY <1>1, <1>2, <1>3, <1>4, <1>5, <1>6

LEMMA BeginServiceKeeps == PoolInv /\ BeginService => PoolInv'
<1> SUFFICES ASSUME PoolInv, BeginService PROVE PoolInv'
  OBVIOUS
<1> USE DEF PoolInv, PoolTypeOK, CursorInv, ServedInv
<1> DEFINE idle(s) == tcp[s] \in {"closed", "listen"} \/ TooOld(s)
           reopened(s) == tcp[s] \notin Open \/ TooOld(s)
<1>1. /\ phase' = "read" /\ cur' = 1
      /\ partial' = [s \in Sockets |-> StillPartial(s) /\ ~idle(s)]
      /\ since' = [s \in Sockets |-> IF idle(s) THEN Never ELSE Since(s)]
      /\ tcp' = [s \in Sockets |-> IF reopened(s) THEN "listen" ELSE tcp[s]]
      /\ rx' = [s \in Sockets |-> IF reopened(s) THEN "none" ELSE rx[s]]
      /\ connAge' = [s \in Sockets |-> IF reopened(s) THEN Never ELSE connAge[s]]
      /\ served' = [s \in Sockets |-> served[s] /\ ~reopened(s)]
  BY Zenon DEF BeginService
<1> HIDE DEF idle, reopened
<1>2. \A s \in Sockets : Since(s) \in {Never} \cup 0..Stall
  BY SocketNumbers DEF Since, Never
<1>3. partial' \in [Sockets -> BOOLEAN] /\ served' \in [Sockets -> BOOLEAN]
  BY <1>1
<1>4. /\ since' \in [Sockets -> {Never} \cup 0..Stall]
      /\ connAge' \in [Sockets -> {Never} \cup 0..Stall]
  BY <1>1, <1>2
<1>5. tcp' \in [Sockets -> TcpStates] /\ rx' \in [Sockets -> {"none", "part", "full"}]
  BY <1>1 DEF TcpStates
<1>6. ServedInv'
  BY <1>1
<1> QED
  BY <1>1, <1>3, <1>4, <1>5, <1>6, CursorMoves DEF Cursor

\* Reading a request, answering it and what follows.
LEMMA ServiceKeeps ==
    ASSUME PoolInv, ReadOn \/ BeginResponse \/ FinishResponse \/ ResponseDone
                    \/ AbortResponse \/ ServiceDone
    PROVE  PoolInv'
<1> USE DEF PoolInv, PoolTypeOK, CursorInv, ServedInv
<1>0. ASSUME NextSocket, cur \in Sockets PROVE Cursor'
  BY <1>0, CursorMoves DEF NextSocket
<1>1. CASE ReadNothing
  BY <1>0, <1>1 DEF ReadNothing, Reading, Cursor
<1>2. CASE ReadPart
  BY <1>0, <1>2 DEF ReadPart, Reading, Cursor
<1>3. CASE BeginResponse
  BY <1>3, SocketNumbers DEF BeginResponse, Reading
<1>4. CASE FinishResponse
  BY <1>4 DEF FinishResponse, TcpStates
<1>5. CASE ResponseDone
  BY <1>0, <1>5, SocketNumbers DEF ResponseDone, Cursor
<1>6. CASE AbortResponse
  <2>1. tcp' \in [Sockets -> TcpStates] /\ since' \in [Sockets -> {Never} \cup 0..Stall]
    BY <1>6, SocketNumbers DEF AbortResponse, TcpStates
  <2>2. ServedInv'
    BY <1>6 DEF AbortResponse
  <2> QED
    BY <1>0, <1>6, <2>1, <2>2 DEF AbortResponse, Cursor
<1>7. CASE ServiceDone
  BY <1>7, SocketNumbers DEF ServiceDone
<1> QED
  BY <1>1, <1>2, <1>3, <1>4, <1>5, <1>6, <1>7 DEF ReadOn

LEMMA ResetKeeps == PoolInv /\ ResetSockets => PoolInv'
<1> SUFFICES ASSUME PoolInv, ResetSockets PROVE PoolInv'
  OBVIOUS
<1>1. /\ tcp' \in [Sockets -> TcpStates] /\ rx' \in [Sockets -> {"none", "part", "full"}]
      /\ partial' \in [Sockets -> BOOLEAN] /\ served' \in [Sockets -> BOOLEAN]
      /\ since' \in [Sockets -> {Never} \cup 0..Stall]
      /\ connAge' \in [Sockets -> {Never} \cup 0..Stall]
  BY DEF ResetSockets, TcpStates
<1>2. ServedInv'
  BY DEF ResetSockets, ServedInv
<1>3. cur' = cur /\ phase' = phase
  BY DEF ResetSockets
<1> QED
  BY <1>1, <1>2, <1>3 DEF PoolInv, PoolTypeOK, CursorInv

LEMMA AgePoolKeeps == PoolInv /\ AgePool => PoolInv'
BY Aging DEF AgePool, PoolInv, PoolTypeOK, CursorInv, ServedInv

LEMMA PoolInitially == PoolInit => PoolInv
BY SocketNumbers DEF PoolInit, PoolInv, PoolTypeOK, CursorInv, ServedInv, TcpStates

LEMMA PoolUnchanged == PoolInv /\ UNCHANGED poolVars => PoolInv'
BY DEF poolVars, PoolInv, PoolTypeOK, CursorInv, ServedInv

LEMMA ResponseOnce == PoolInv => OneResponse
BY DEF PoolInv, PoolTypeOK, CursorInv, ServedInv, OneResponse, MaySend

-----------------------------------------------------------------------------
(* The station                                                             *)

Recovery == [unconn : {Absent} \cup 0..Deep, next : Nat, attempts : 0..LastBackoff,
             inFlight : BOOLEAN, event : BOOLEAN]

\* The time since the last connect request and what is left of the pause after it
\* make up the shortest pause.  A link makes up for it.
PaceInv ==
    /\ reqAge + rec.next >= Pace
    /\ link => reqAge = Pace

\* A request under way excludes a link.
RequestInv ==
    /\ pending => ~assoc
    /\ link => ~pending

StationInv == StationTypeOK /\ PaceInv /\ RequestInv

\* Where the loop stands tells whether it believes in a link and has a lease.
PlaceInv ==
    /\ pc \in {"startup", "top", "net", "service", "decide", "tick"}
    /\ pc = "startup" => ~link
    /\ pc \in {"net", "service", "decide", "tick"} => link
    /\ pc \in {"service", "decide", "tick"} => endpoint # NoLease

LEMMA StationConstants ==
    /\ LastBackoff \in Nat /\ LastBackoff >= 1 /\ Attempts = 1..LastBackoff
    /\ \A n \in Attempts : Backoff[n] \in Nat /\ Backoff[n] >= 1 /\ Backoff[n] >= Backoff[1]
    /\ Deep \in Nat /\ Deep >= 1 /\ DeepPause \in Nat /\ DeepPause >= 1
    /\ DhcpAttempts \in Nat /\ DhcpAttempts >= 1
<1>1. /\ LastBackoff \in Nat \ {0} /\ Attempts = 1..LastBackoff
      /\ Backoff \in [Attempts -> Nat \ {0}]
      /\ \A n \in Attempts : Backoff[1] <= Backoff[n]
      /\ Deep \in Nat \ {0} /\ DeepPause \in Nat \ {0} /\ DhcpAttempts \in Nat \ {0}
  BY StationAssumption
<1>2. 1 \in Attempts
  BY <1>1
<1>3. \A n \in Attempts : Backoff[n] \in Nat \ {0}
  BY <1>1
<1> QED
  BY <1>1, <1>2, <1>3

LEMMA ShortestPause ==
    /\ Pace \in Nat /\ Pace >= 1 /\ Pace <= DeepPause
    /\ \A n \in Attempts : Backoff[n] >= Pace
<1>1. 1 \in Attempts
  BY StationConstants
<1>2. Backoff[1] \in Nat /\ Backoff[1] >= 1
  BY <1>1, StationConstants
<1>3. Pace \in Nat /\ Pace >= 1 /\ Pace <= DeepPause /\ Pace <= Backoff[1]
  BY <1>2, StationConstants DEF Pace
<1>4. ASSUME NEW n \in Attempts PROVE Backoff[n] >= Pace
  BY <1>2, <1>3, <1>4, StationConstants
<1> QED
  BY <1>3, <1>4

LEMMA AttemptCount ==
    ASSUME NEW k \in 0..LastBackoff
    PROVE  Least(k + 1, LastBackoff) \in Attempts /\ Least(k + 1, LastBackoff) \in 0..LastBackoff
BY StationConstants DEF Least

\* What becomes of the recovery state, and of the pause it still asks for.
LEMMA RecoveryStates ==
    /\ NewRecovery \in Recovery /\ NewRecovery.next = 0
    /\ MarkDeepRecovery \in Recovery /\ MarkDeepRecovery.next >= Pace
    /\ \A b \in BOOLEAN : /\ [NewRecovery EXCEPT !.event = b] \in Recovery
                          /\ [NewRecovery EXCEPT !.event = b].next = 0
<1>1. NewRecovery \in Recovery /\ NewRecovery.next = 0
  BY StationConstants DEF NewRecovery, Recovery
<1>2. MarkDeepRecovery \in Recovery /\ MarkDeepRecovery.next = DeepPause
  BY StationConstants DEF MarkDeepRecovery, Recovery
<1>3. \A b \in BOOLEAN : /\ [NewRecovery EXCEPT !.event = b] \in Recovery
                         /\ [NewRecovery EXCEPT !.event = b].next = 0
  BY <1>1 DEF Recovery
<1> QED
  BY <1>1, <1>2, <1>3, ShortestPause, StationConstants

LEMMA RecoverySteps ==
    ASSUME NEW r \in Recovery
    PROVE  /\ MarkConnected(r) \in Recovery /\ MarkConnected(r).next = 0
           /\ MarkConnectRequest(r) \in Recovery /\ MarkConnectRequest(r).next >= Pace
           /\ AgeRecovery(r) \in Recovery
           /\ AgeRecovery(r).next = IF r.next > 0 THEN r.next - 1 ELSE 0
           /\ \A b \in BOOLEAN : /\ [r EXCEPT !.event = b] \in Recovery
                                 /\ [r EXCEPT !.event = b].next = r.next
<1>1. MarkConnected(r) \in Recovery /\ MarkConnected(r).next = 0
  <2>1. 0 \in 0..LastBackoff /\ 0 \in Nat
    BY StationConstants
  <2>2. MarkConnected(r) = [r EXCEPT !.unconn = Absent, !.next = 0,
                                     !.inFlight = FALSE, !.attempts = 0]
    BY Zenon DEF MarkConnected
  <2> QED
    BY <2>1, <2>2 DEF Recovery
<1>2. MarkConnectRequest(r) \in Recovery /\ MarkConnectRequest(r).next >= Pace
  <2> DEFINE n == Least(r.attempts + 1, LastBackoff)
  <2>1. n \in Attempts /\ n \in 0..LastBackoff
    BY AttemptCount DEF Recovery
  <2>2. Backoff[n] \in Nat /\ Backoff[n] >= Pace
    BY <2>1, StationConstants, ShortestPause
  <2>3. MarkConnectRequest(r) = [r EXCEPT !.attempts = n, !.event = FALSE,
                                          !.inFlight = TRUE, !.next = Backoff[n]]
    BY Zenon DEF MarkConnectRequest
  <2> HIDE DEF n
  <2> QED
    BY <2>1, <2>2, <2>3 DEF Recovery
<1>3. /\ AgeRecovery(r) \in Recovery
      /\ AgeRecovery(r).next = IF r.next > 0 THEN r.next - 1 ELSE 0
  <2> DEFINE u == IF r.unconn = Absent THEN Absent ELSE Least(r.unconn + 1, Deep)
             x == IF r.next > 0 THEN r.next - 1 ELSE 0
  <2>1. u \in {Absent} \cup 0..Deep
    BY StationConstants DEF Recovery, Least, Absent
  <2>2. x \in Nat
    BY DEF Recovery
  <2>3. AgeRecovery(r) = [r EXCEPT !.unconn = u, !.next = x]
    BY DEF AgeRecovery, Recovery
  <2> HIDE DEF u, x
  <2>4. AgeRecovery(r) \in Recovery /\ AgeRecovery(r).next = x
    BY <2>1, <2>2, <2>3 DEF Recovery
  <2> QED
    BY <2>4 DEF x
<1>4. \A b \in BOOLEAN : /\ [r EXCEPT !.event = b] \in Recovery
                         /\ [r EXCEPT !.event = b].next = r.next
  BY DEF Recovery
<1> QED
  BY <1>1, <1>2, <1>3, <1>4

\* A step that leaves what the loop and the driver remember of the station alone.
LEMMA StationSame ==
    ASSUME StationInv, UNCHANGED stationVars
    PROVE  StationInv'
BY DEF StationInv, StationTypeOK, PaceInv, RequestInv, stationVars

LEMMA StationTypes ==
    ASSUME StationInv
    PROVE  /\ up \subseteq APs /\ pin \in APs \cup {NoAP}
           /\ started \in BOOLEAN /\ assoc \in BOOLEAN /\ pending \in BOOLEAN
           /\ link \in BOOLEAN /\ changed \in BOOLEAN
           /\ rec \in Recovery /\ rec.next \in Nat
           /\ lease \in Addrs \cup {NoLease} /\ endpoint \in Addrs \cup {NoLease}
           /\ dhcpPolls \in 0..DhcpAttempts
           /\ reqAge \in 0..Pace /\ Pace \in Nat /\ Pace >= 1
           /\ reqAge + rec.next >= Pace
           /\ link => reqAge = Pace
           /\ pending => ~assoc
           /\ link => ~pending
<1>1. rec \in Recovery
  BY DEF StationInv, StationTypeOK, Recovery
<1>2. rec.next \in Nat
  BY <1>1 DEF Recovery
<1> QED
  BY <1>1, <1>2, ShortestPause DEF StationInv, StationTypeOK, PaceInv, RequestInv

LEMMA StationFrom ==
    ASSUME up' \subseteq APs, pin' \in APs \cup {NoAP},
           started' \in BOOLEAN, assoc' \in BOOLEAN, pending' \in BOOLEAN,
           link' \in BOOLEAN, changed' \in BOOLEAN, rec' \in Recovery,
           lease' \in Addrs \cup {NoLease}, endpoint' \in Addrs \cup {NoLease},
           dhcpPolls' \in 0..DhcpAttempts, reqAge' \in 0..Pace,
           reqAge' + rec'.next >= Pace, link' => reqAge' = Pace,
           pending' => ~assoc', link' => ~pending'
    PROVE  StationInv'
BY DEF StationInv, StationTypeOK, PaceInv, RequestInv, Recovery

LEMMA AgeStationKeeps == StationInv /\ AgeStation => StationInv'
<1> SUFFICES ASSUME StationInv, AgeStation PROVE StationInv'
  OBVIOUS
<1>1. /\ rec' = AgeRecovery(rec) /\ reqAge' = Least(reqAge + 1, Pace)
      /\ up' = up /\ pin' = pin /\ started' = started /\ assoc' = assoc
      /\ pending' = pending /\ link' = link /\ lease' = lease /\ changed' = changed
      /\ endpoint' = endpoint /\ dhcpPolls' = dhcpPolls
  BY DEF AgeStation
<1>2. rec' \in Recovery /\ rec'.next = IF rec.next > 0 THEN rec.next - 1 ELSE 0
  BY <1>1, StationTypes, RecoverySteps
<1>3. /\ reqAge' \in 0..Pace /\ reqAge' + rec'.next >= Pace
      /\ reqAge = Pace => reqAge' = Pace
  BY <1>1, <1>2, StationTypes DEF Least
<1>4. (link' => reqAge' = Pace) /\ (pending' => ~assoc') /\ (link' => ~pending')
  <2>1. (link' <=> link) /\ (pending' <=> pending) /\ (assoc' <=> assoc)
    BY <1>1, Zenon
  <2> QED
    BY <1>3, <2>1, StationTypes
<1> QED
  BY <1>1, <1>2, <1>3, <1>4, StationTypes, StationFrom, Zenon

\* The access points and the driver.
LEMMA AirKeeps ==
    ASSUME StationInv,
           Associate \/ LinkLost \/ ConnectFails \/ LateEvent \/ \E a \in APs : ApChange(a)
    PROVE  StationInv'
<1> DEFINE same ==
        /\ pin' = pin /\ started' = started /\ link' = link
        /\ lease' = lease /\ changed' = changed /\ endpoint' = endpoint
        /\ dhcpPolls' = dhcpPolls /\ reqAge' = reqAge
        /\ up' \subseteq APs
        /\ assoc' \in BOOLEAN /\ pending' \in BOOLEAN
        /\ rec' = rec \/ \E b \in BOOLEAN : rec' = [rec EXCEPT !.event = b]
        /\ pending' => pending
        /\ assoc' => assoc \/ (pending /\ ~pending')
<1>1. same
  <2>1. CASE Associate
    BY <2>1, StationTypes, Zenon DEF Associate
  <2>2. CASE LinkLost
    BY <2>2, StationTypes, Zenon DEF LinkLost
  <2>3. CASE ConnectFails
    BY <2>3, StationTypes, Zenon DEF ConnectFails
  <2>4. CASE LateEvent
    BY <2>4, StationTypes, Zenon DEF LateEvent
  <2>5. ASSUME NEW a \in APs, ApChange(a) PROVE same
    BY <2>5, StationTypes, Zenon DEF ApChange
  <2> QED
    BY <2>1, <2>2, <2>3, <2>4, <2>5
<1>2. rec' \in Recovery /\ rec'.next = rec.next
  BY <1>1, StationTypes, RecoverySteps
<1>3. (link' => reqAge' = Pace) /\ (pending' => ~assoc') /\ (link' => ~pending')
  <2>1. link' <=> link
    BY <1>1, Zenon
  <2> QED
    BY <1>1, <2>1, StationTypes, Zenon
<1>4. reqAge' \in 0..Pace /\ reqAge' + rec'.next >= Pace
  BY <1>1, <1>2, StationTypes
<1> QED
  BY <1>1, <1>2, <1>3, <1>4, StationTypes, StationFrom, Zenon

\* A connect request is made only when the pause after the last one is over.
Paced == reqAge' = 0 /\ reqAge # 0 => reqAge = Pace

\* The branch of a pass without a link: a deep recovery, a request or nothing.
LEMMA ReconnectKeeps ==
    ASSUME StationInv, Reconnect, link' = FALSE, changed' \in BOOLEAN,
           lease' \in Addrs \cup {NoLease}, endpoint' \in Addrs \cup {NoLease},
           dhcpPolls' \in 0..DhcpAttempts
    PROVE  StationInv' /\ Paced
<1>1. /\ ~assoc /\ up' = up /\ pin' = pin /\ assoc' = assoc
      /\ \/ \E ok \in BOOLEAN : DeepRecover(ok)
         \/ \E taken \in BOOLEAN : RequestConnect(taken)
         \/ AwaitConnect
  BY DEF Reconnect
<1>2. ~assoc' /\ assoc' \in BOOLEAN
  BY <1>1, StationTypes, Zenon
<1>3. OnEntry \in Recovery /\ OnEntry.next \in Nat /\ reqAge + OnEntry.next >= Pace
  <2>1. CASE link
    BY <2>1, StationTypes, RecoveryStates DEF OnEntry, ResetUnconnected
  <2>2. CASE ~link
    BY <2>2, StationTypes DEF OnEntry
  <2> QED
    BY <2>1, <2>2
<1>4. ~link' /\ link' \in BOOLEAN
  BY Zenon
<1>5. ASSUME rec' \in Recovery, started' \in BOOLEAN, pending' \in BOOLEAN,
             reqAge' \in 0..Pace, reqAge' + rec'.next >= Pace
      PROVE  StationInv'
  BY <1>1, <1>2, <1>4, <1>5, StationTypes, StationFrom, Zenon
<1>6. ASSUME NEW ok \in BOOLEAN, DeepRecover(ok) PROVE StationInv' /\ Paced
  <2>1. rec' = MarkDeepRecovery /\ reqAge' = reqAge
    BY <1>6 DEF DeepRecover
  <2>2. started' \in BOOLEAN /\ pending' \in BOOLEAN
    BY <1>6, Zenon DEF DeepRecover
  <2>3. rec' \in Recovery /\ rec'.next >= Pace /\ rec'.next \in Nat
    BY <2>1, RecoveryStates DEF Recovery
  <2>4. reqAge' \in 0..Pace /\ reqAge' + rec'.next >= Pace /\ Paced
    BY <2>1, <2>3, StationTypes DEF Paced
  <2> QED
    BY <1>5, <2>2, <2>3, <2>4
<1>7. ASSUME NEW taken \in BOOLEAN, RequestConnect(taken) PROVE StationInv' /\ Paced
  <2>1. rec' = MarkConnectRequest(OnEntry) /\ reqAge' = 0 /\ OnEntry.next = 0
    BY <1>7 DEF RequestConnect, ShouldConnect
  <2>2. started' \in BOOLEAN /\ pending' \in BOOLEAN
    BY <1>7, StationTypes, Zenon DEF RequestConnect
  <2>3. rec' \in Recovery /\ rec'.next >= Pace /\ rec'.next \in Nat
    BY <1>3, <2>1, RecoverySteps DEF Recovery
  <2>4. reqAge' \in 0..Pace /\ reqAge' + rec'.next >= Pace /\ Paced
    BY <1>3, <2>1, <2>3, StationTypes DEF Paced
  <2> QED
    BY <1>5, <2>2, <2>3, <2>4
<1>8. CASE AwaitConnect
  <2>1. rec' = OnEntry /\ reqAge' = reqAge /\ started' = started /\ pending' = pending
    BY <1>8 DEF AwaitConnect
  <2>2. reqAge' \in 0..Pace /\ reqAge' + rec'.next >= Pace /\ Paced
    BY <1>3, <2>1, StationTypes DEF Paced
  <2>3. rec' \in Recovery /\ started' \in BOOLEAN /\ pending' \in BOOLEAN
    BY <1>3, <2>1, StationTypes, Zenon
  <2> QED
    BY <1>5, <2>2, <2>3
<1> QED
  BY <1>1, <1>6, <1>7, <1>8

\* clear_network_config
LEMMA Cleared ==
    ASSUME StationInv, ClearLease
    PROVE  /\ changed' \in BOOLEAN /\ lease' = NoLease /\ endpoint' = NoLease
           /\ dhcpPolls' = 0 /\ dhcpPolls' \in 0..DhcpAttempts
<1>1. changed' \in BOOLEAN
  BY StationTypes, Zenon DEF ClearLease, ResetDhcp
<1>2. lease' = NoLease /\ endpoint' = NoLease /\ dhcpPolls' = 0
  BY DEF ClearLease, ResetDhcp
<1>3. 0 \in 0..DhcpAttempts
  BY StationConstants
<1> QED
  BY <1>1, <1>2, <1>3

\* The link is found, by the loop or before it.
LEMMA RelinkKeeps == StationInv /\ (Relink \/ EnterLoop) => StationInv' /\ Paced
<1> SUFFICES ASSUME StationInv, Relink \/ EnterLoop PROVE StationInv' /\ Paced
  OBVIOUS
<1>1. /\ assoc /\ reqAge' = Pace /\ up' = up /\ pin' = pin /\ started' = started
      /\ assoc' = assoc /\ pending' = pending /\ link' = TRUE
  BY DEF Relink, EnterLoop
<1>2. rec' \in Recovery /\ rec'.next = 0
  <2>1. CASE Relink
    <3>1. rec' = MarkConnected(rec)
      BY <2>1 DEF Relink
    <3> QED
      BY <3>1, StationTypes, RecoverySteps
  <2>2. CASE EnterLoop
    <3>1. rec' = [NewRecovery EXCEPT !.event = rec.event]
      BY <2>2 DEF EnterLoop
    <3>2. rec.event \in BOOLEAN
      BY StationTypes DEF Recovery
    <3> QED
      BY <3>1, <3>2, RecoveryStates
  <2> QED
    BY <2>1, <2>2
<1>3. /\ changed' \in BOOLEAN /\ lease' \in Addrs \cup {NoLease}
      /\ endpoint' \in Addrs \cup {NoLease} /\ dhcpPolls' \in 0..DhcpAttempts
  <2>1. CASE Relink
    BY <2>1, Cleared DEF Relink
  <2>2. CASE EnterLoop
    <3>1. changed' = changed /\ lease' = lease /\ endpoint' = endpoint /\ dhcpPolls' = dhcpPolls
      BY <2>2 DEF EnterLoop
    <3> QED
      BY <3>1, StationTypes, Zenon
  <2> QED
    BY <2>1, <2>2
<1>4. /\ assoc' \in BOOLEAN /\ pending' \in BOOLEAN /\ link' \in BOOLEAN
      /\ started' \in BOOLEAN /\ ~pending'
  BY <1>1, StationTypes, Zenon
<1>5. reqAge' \in 0..Pace /\ reqAge' + rec'.next >= Pace /\ Paced
  BY <1>1, <1>2, StationTypes DEF Paced
<1> QED
  BY <1>1, <1>2, <1>3, <1>4, <1>5, StationTypes, StationFrom, Zenon

\* A link the loop believed in is given up.
LEMMA GiveUpKeeps ==
    ASSUME StationInv, NEW left \in BOOLEAN, GiveUpLink(left), link
    PROVE  StationInv'
<1>1. /\ link' = FALSE /\ rec' = NewRecovery /\ reqAge' = reqAge /\ up' = up /\ pin' = pin
      /\ started' = started /\ pending' = pending /\ ClearLease
  BY DEF GiveUpLink, ResetUnconnected
<1>2. /\ assoc' \in BOOLEAN /\ pending' \in BOOLEAN /\ link' \in BOOLEAN
      /\ started' \in BOOLEAN /\ ~pending' /\ ~link'
  <2>1. assoc' \in BOOLEAN
    BY Zenon DEF GiveUpLink
  <2>2. ~pending
    BY StationTypes
  <2> QED
    BY <1>1, <2>1, <2>2, StationTypes, Zenon
<1>3. rec' \in Recovery /\ rec'.next = 0
  BY <1>1, RecoveryStates
<1>4. reqAge' \in 0..Pace /\ reqAge' + rec'.next >= Pace
  BY <1>1, <1>3, StationTypes
<1>5. /\ changed' \in BOOLEAN /\ lease' \in Addrs \cup {NoLease}
      /\ endpoint' \in Addrs \cup {NoLease} /\ dhcpPolls' \in 0..DhcpAttempts
  BY <1>1, Cleared
<1> QED
  BY <1>1, <1>2, <1>3, <1>4, <1>5, StationTypes, StationFrom, Zenon

\* The DHCP client, and what the loop takes from it.
LEMMA LeaseKeeps ==
    ASSUME StationInv,
           up' = up, pin' = pin, started' = started, assoc' = assoc,
           pending' = pending, link' = link, rec' = rec, reqAge' = reqAge,
           changed' \in BOOLEAN, lease' \in Addrs \cup {NoLease},
           endpoint' \in Addrs \cup {NoLease}, dhcpPolls' \in 0..DhcpAttempts
    PROVE  StationInv'
<1>1. (link' <=> link) /\ (pending' <=> pending) /\ (assoc' <=> assoc)
  BY Zenon
<1>2. reqAge' \in 0..Pace /\ reqAge' + rec'.next >= Pace
  BY StationTypes
<1> QED
  BY <1>1, <1>2, StationTypes, StationFrom, Zenon

-----------------------------------------------------------------------------
(* The loop, its lease and its sockets                                     *)

LoopInv == StationInv /\ PoolInv /\ PlaceInv /\ ServedOnLease

LEMMA LoopTypes ==
    ASSUME LoopInv
    PROVE  /\ StationInv /\ PoolInv /\ PlaceInv /\ ServedOnLease
           /\ endpoint # NoLease => link
           /\ endpoint = NoLease => \A s \in Sockets : tcp[s] = "closed"
BY DEF LoopInv, ServedOnLease

\* Steps that neither request a connection nor touch its history are paced.
LEMMA PacedSame ==
    ASSUME StationInv, reqAge' = reqAge
    PROVE  Paced
BY StationTypes DEF Paced

LEMMA SocketsClosed ==
    ASSUME ResetSockets
    PROVE  \A s \in Sockets : tcp'[s] = "closed"
BY DEF ResetSockets

\* A pass without the link, before the loop or in it.
LEMMA DownKeeps == LoopInv /\ (StartupPass \/ DownPass) => LoopInv' /\ Paced
<1> SUFFICES ASSUME LoopInv, StartupPass \/ DownPass PROVE LoopInv' /\ Paced
  OBVIOUS
<1>1. CASE StartupPass
  <2>1. /\ pc = "startup" /\ Reconnect /\ link' = link /\ lease' = lease
        /\ changed' = changed /\ endpoint' = endpoint /\ dhcpPolls' = dhcpPolls
        /\ UNCHANGED poolVars /\ pc' = pc
    BY <1>1 DEF StartupPass, loopVars
  <2>2. ~link /\ link = FALSE /\ endpoint = NoLease
    <3>1. ~link
      BY <2>1, LoopTypes DEF PlaceInv
    <3>2. link = FALSE
      BY <3>1, LoopTypes, StationTypes, Zenon
    <3> QED
      BY <3>1, <3>2, LoopTypes
  <2>3. link' = FALSE /\ changed' \in BOOLEAN
    BY <2>1, <2>2, LoopTypes, StationTypes, Zenon
  <2>4. StationInv' /\ Paced
    BY <2>1, <2>3, LoopTypes, StationTypes, ReconnectKeeps
  <2>5. PoolInv' /\ tcp' = tcp
    BY <2>1, LoopTypes, PoolUnchanged DEF poolVars
  <2>6. ~link'
    BY <2>3, Zenon
  <2>7. PlaceInv' /\ ServedOnLease'
    BY <2>1, <2>2, <2>5, <2>6, LoopTypes DEF PlaceInv, ServedOnLease
  <2> QED
    BY <2>4, <2>5, <2>7 DEF LoopInv
<1>2. CASE DownPass
  <2>1. /\ pc = "top" /\ Reconnect /\ link' = FALSE /\ pc' = pc
        /\ \/ link /\ ClearLease /\ ResetSockets
           \/ /\ ~link /\ lease' = lease /\ changed' = changed /\ endpoint' = endpoint
              /\ dhcpPolls' = dhcpPolls /\ UNCHANGED poolVars
    BY <1>2 DEF DownPass, ReconnectPass, loopVars
  <2>2. /\ changed' \in BOOLEAN /\ lease' \in Addrs \cup {NoLease}
        /\ endpoint' \in Addrs \cup {NoLease} /\ dhcpPolls' \in 0..DhcpAttempts
        /\ endpoint' = NoLease
    <3>1. CASE ClearLease
      BY <3>1, Cleared, LoopTypes
    <3>2. CASE /\ ~link /\ lease' = lease /\ changed' = changed /\ endpoint' = endpoint
               /\ dhcpPolls' = dhcpPolls
      <4>1. changed' \in BOOLEAN
        BY <3>2, LoopTypes, StationTypes, Zenon
      <4> QED
        BY <3>2, <4>1, LoopTypes, StationTypes
    <3> QED
      BY <2>1, <3>1, <3>2
  <2>3. StationInv' /\ Paced
    BY <2>1, <2>2, LoopTypes, ReconnectKeeps
  <2>4. PoolInv' /\ \A s \in Sockets : tcp'[s] = "closed"
    <3>1. CASE ResetSockets
      BY <3>1, LoopTypes, ResetKeeps, SocketsClosed
    <3>2. CASE ~link /\ UNCHANGED poolVars
      BY <3>2, LoopTypes, PoolUnchanged DEF poolVars
    <3> QED
      BY <2>1, <3>1, <3>2
  <2>5. ~link'
    BY <2>1, Zenon
  <2>6. PlaceInv' /\ ServedOnLease'
    BY <2>1, <2>2, <2>4, <2>5 DEF PlaceInv, ServedOnLease
  <2> QED
    BY <2>3, <2>4, <2>6 DEF LoopInv
<1> QED
  BY <1>1, <1>2

\* The loop is entered, and the top of a pass with the link.
LEMMA UpKeeps == LoopInv /\ (EnterServing \/ UpPass) => LoopInv' /\ Paced
<1> SUFFICES ASSUME LoopInv, EnterServing \/ UpPass PROVE LoopInv' /\ Paced
  OBVIOUS
<1>1. CASE EnterServing
  <2>1. EnterLoop /\ pc' = "top" /\ UNCHANGED poolVars /\ ~link
    BY <1>1 DEF EnterServing, Goto, EnterLoop
  <2>2. endpoint' = endpoint /\ endpoint = NoLease
    BY <2>1, LoopTypes DEF EnterLoop
  <2>3. StationInv' /\ Paced
    BY <2>1, LoopTypes, RelinkKeeps
  <2>4. PoolInv' /\ tcp' = tcp
    BY <2>1, LoopTypes, PoolUnchanged DEF poolVars
  <2>5. PlaceInv' /\ ServedOnLease'
    BY <2>1, <2>2, <2>4, LoopTypes DEF PlaceInv, ServedOnLease
  <2> QED
    BY <2>3, <2>4, <2>5 DEF LoopInv
<1>2. CASE UpPass /\ link
  <2>1. pc' = "net" /\ UNCHANGED stationVars /\ UNCHANGED poolVars
    BY <1>2 DEF UpPass, Goto
  <2>2. reqAge' = reqAge /\ endpoint' = endpoint /\ link' = link /\ tcp' = tcp
    BY <2>1 DEF stationVars, poolVars
  <2>3. StationInv' /\ PoolInv' /\ Paced
    BY <2>1, <2>2, LoopTypes, StationSame, PoolUnchanged, PacedSame
  <2>4. link'
    BY <1>2, <2>2, Zenon
  <2>5. PlaceInv' /\ ServedOnLease'
    BY <2>1, <2>2, <2>4, LoopTypes DEF PlaceInv, ServedOnLease
  <2> QED
    BY <2>3, <2>5 DEF LoopInv
<1>3. CASE UpPass /\ ~link
  <2>1. pc' = "net" /\ Relink /\ ResetSockets
    BY <1>3 DEF UpPass, Goto
  <2>2. link' /\ endpoint' = NoLease
    <3>1. link' = TRUE /\ endpoint' = NoLease
      BY <2>1 DEF Relink, ClearLease
    <3> QED
      BY <3>1, Zenon
  <2>3. StationInv' /\ PoolInv' /\ Paced
    BY <2>1, LoopTypes, RelinkKeeps, ResetKeeps
  <2>4. PlaceInv' /\ ServedOnLease'
    BY <2>1, <2>2, SocketsClosed DEF PlaceInv, ServedOnLease
  <2> QED
    BY <2>3, <2>4 DEF LoopInv
<1> QED
  BY <1>1, <1>2, <1>3

\* poll_dhcp: a change of the endpoint resets the sockets.
LEMMA DhcpKeeps == LoopInv /\ (HaveLease \/ AwaitLease) => LoopInv' /\ Paced
<1> SUFFICES ASSUME LoopInv, HaveLease \/ AwaitLease PROVE LoopInv' /\ Paced
  OBVIOUS
<1>1. /\ pc = "net" /\ up' = up /\ pin' = pin /\ started' = started /\ assoc' = assoc
      /\ pending' = pending /\ link' = link /\ rec' = rec /\ reqAge' = reqAge
      /\ lease' = lease /\ endpoint' = IF changed THEN lease ELSE endpoint
      /\ \/ endpoint' # endpoint /\ ResetSockets
         \/ endpoint' = endpoint /\ UNCHANGED poolVars
      /\ \/ endpoint' # NoLease /\ dhcpPolls' = PollsAfterEvent /\ pc' = "service"
         \/ /\ endpoint' = NoLease /\ PollsAfterEvent < DhcpAttempts
            /\ dhcpPolls' = PollsAfterEvent + 1 /\ pc' = "top"
  BY DEF HaveLease, AwaitLease, AfterDhcp, TakeDhcpEvent, Goto
<1>2. changed' \in BOOLEAN
  BY Zenon DEF HaveLease, AwaitLease, AfterDhcp, TakeDhcpEvent
<1>3. endpoint' \in Addrs \cup {NoLease} /\ lease' \in Addrs \cup {NoLease}
  BY <1>1, LoopTypes, StationTypes
<1>4. dhcpPolls' \in 0..DhcpAttempts
  <2>1. PollsAfterEvent \in 0..DhcpAttempts
    BY LoopTypes, StationTypes, StationConstants DEF PollsAfterEvent
  <2> QED
    BY <1>1, <2>1, StationConstants
<1>5. StationInv' /\ Paced
  BY <1>1, <1>2, <1>3, <1>4, LoopTypes, LeaseKeeps, PacedSame
<1>6. link'
  <2>1. link
    BY <1>1, LoopTypes DEF PlaceInv
  <2> QED
    BY <1>1, <2>1, Zenon
<1>7. PoolInv' /\ (endpoint' = NoLease => \A s \in Sockets : tcp'[s] = "closed")
  <2>1. CASE endpoint' # endpoint /\ ResetSockets
    BY <2>1, LoopTypes, ResetKeeps, SocketsClosed
  <2>2. CASE endpoint' = endpoint /\ UNCHANGED poolVars
    BY <2>2, LoopTypes, PoolUnchanged DEF poolVars
  <2> QED
    BY <1>1, <2>1, <2>2
<1>8. PlaceInv' /\ ServedOnLease'
  BY <1>1, <1>6, <1>7 DEF PlaceInv, ServedOnLease
<1> QED
  BY <1>5, <1>7, <1>8 DEF LoopInv

\* A link is given up: no lease in time, or a watchdog has a reason.
LEMMA GivenUpKeeps ==
    ASSUME LoopInv, NEW left \in BOOLEAN, DhcpTimeout(left) \/ ForceRecovery(left)
    PROVE  LoopInv' /\ Paced
<1>1. pc \in {"net", "decide"} /\ GiveUpLink(left) /\ ResetSockets /\ pc' = "top"
  BY DEF DhcpTimeout, ForceRecovery, Goto
<1>2. link
  BY <1>1, LoopTypes DEF PlaceInv
<1>3. StationInv' /\ PoolInv'
  BY <1>1, <1>2, LoopTypes, GiveUpKeeps, ResetKeeps
<1>4. link' = FALSE /\ endpoint' = NoLease /\ reqAge' = reqAge
  BY <1>1 DEF GiveUpLink, ClearLease
<1>5. Paced
  BY <1>4, LoopTypes, PacedSame
<1>6. PlaceInv' /\ ServedOnLease'
  BY <1>1, <1>4, SocketsClosed DEF PlaceInv, ServedOnLease
<1> QED
  BY <1>3, <1>5, <1>6 DEF LoopInv

\* service_http_once, with a lease.
LEMMA ServingKeeps == LoopInv /\ Service => LoopInv' /\ Paced
<1> SUFFICES ASSUME LoopInv, Service PROVE LoopInv' /\ Paced
  OBVIOUS
<1>1. /\ pc = "service" /\ UNCHANGED stationVars
      /\ pc' \in {"service", "tick", "decide"}
      /\ \/ BeginService \/ ReadOn \/ BeginResponse \/ FinishResponse \/ ResponseDone
         \/ AbortResponse \/ ServiceDone
  BY DEF Service, SendFails, Goto
<1>2. PoolInv'
  BY <1>1, LoopTypes, BeginServiceKeeps, ServiceKeeps
<1>3. endpoint' = endpoint /\ link' = link /\ reqAge' = reqAge
  BY <1>1 DEF stationVars
<1>4. StationInv' /\ Paced
  BY <1>1, <1>3, LoopTypes, StationSame, PacedSame
<1>5. endpoint # NoLease /\ link
  BY <1>1, LoopTypes DEF PlaceInv
<1>6. link'
  BY <1>3, <1>5, Zenon
<1>7. PlaceInv' /\ ServedOnLease'
  BY <1>1, <1>3, <1>5, <1>6 DEF PlaceInv, ServedOnLease
<1> QED
  BY <1>2, <1>4, <1>7 DEF LoopInv

\* The scheduler's turn, which begins with a lease and ends anywhere.
LEMMA TurnKeeps ==
    ASSUME LoopInv, DeferTick \/ BeginTick \/ Maintain \/ EndTick \/ UNCHANGED vars
    PROVE  LoopInv' /\ Paced
<1>1. /\ UNCHANGED stationVars /\ UNCHANGED poolVars
      /\ \/ pc' = "top" \/ pc' = pc
         \/ pc \in {"decide", "tick"} /\ pc' \in {"service", "tick"}
  BY DEF DeferTick, BeginTick, Maintain, EndTick, Goto, vars
<1>2. endpoint' = endpoint /\ link' = link /\ reqAge' = reqAge /\ tcp' = tcp
  BY <1>1 DEF stationVars, poolVars
<1>3. StationInv' /\ PoolInv' /\ Paced
  BY <1>1, <1>2, LoopTypes, StationSame, PoolUnchanged, PacedSame
<1>4. link' <=> link
  BY <1>2, Zenon
<1>5. PlaceInv'
  BY <1>1, <1>2, <1>4, LoopTypes DEF PlaceInv
<1>6. ServedOnLease'
  BY <1>2, <1>4, LoopTypes DEF ServedOnLease
<1> QED
  BY <1>3, <1>5, <1>6 DEF LoopInv

\* Time, the air and the network.
LEMMA AroundKeeps == LoopInv /\ (Tick \/ Air \/ Network) => LoopInv' /\ Paced
<1> SUFFICES ASSUME LoopInv, Tick \/ Air \/ Network PROVE LoopInv' /\ Paced
  OBVIOUS
<1>1. CASE Tick
  <2>1. AgeStation /\ AgePool /\ pc' = pc /\ link' = link /\ endpoint' = endpoint /\ tcp' = tcp
    BY <1>1 DEF Tick, loopVars, AgeStation, AgePool
  <2>2. StationInv' /\ PoolInv'
    BY <2>1, LoopTypes, AgeStationKeeps, AgePoolKeeps
  <2>3. Paced
    BY <2>1, LoopTypes, StationTypes DEF Paced, AgeStation, Least
  <2>4. link' <=> link
    BY <2>1, Zenon
  <2>5. PlaceInv' /\ ServedOnLease'
    BY <2>1, <2>4, LoopTypes DEF PlaceInv, ServedOnLease
  <2> QED
    BY <2>2, <2>3, <2>5 DEF LoopInv
<1>2. CASE Air
  <2>1. /\ Associate \/ LinkLost \/ ConnectFails \/ LateEvent \/ \E a \in APs : ApChange(a)
        /\ UNCHANGED poolVars /\ pc' = pc
    BY <1>2 DEF Air, loopVars
  <2>2. link' = link /\ endpoint' = endpoint /\ reqAge' = reqAge
    BY <2>1 DEF Associate, LinkLost, ConnectFails, LateEvent, ApChange
  <2>3. StationInv' /\ Paced /\ PoolInv' /\ tcp' = tcp
    BY <2>1, <2>2, LoopTypes, AirKeeps, PacedSame, PoolUnchanged DEF poolVars
  <2>4. link' <=> link
    BY <2>2, Zenon
  <2>5. PlaceInv' /\ ServedOnLease'
    BY <2>1, <2>2, <2>3, <2>4, LoopTypes DEF PlaceInv, ServedOnLease
  <2> QED
    BY <2>3, <2>5 DEF LoopInv
<1>3. CASE Network
  <2>1. /\ pc' = pc
        /\ \/ NetMoves /\ endpoint # NoLease /\ UNCHANGED stationVars
           \/ \E l \in Addrs \cup {NoLease} : DhcpMoves(l) /\ UNCHANGED poolVars
    BY <1>3 DEF Network, loopVars
  <2>2. CASE NetMoves /\ endpoint # NoLease /\ UNCHANGED stationVars
    <3>1. endpoint' = endpoint /\ link' = link /\ reqAge' = reqAge
      BY <2>2 DEF stationVars
    <3>2. StationInv' /\ Paced /\ PoolInv'
      BY <2>2, <3>1, LoopTypes, StationSame, PacedSame, NetMovesKeep
    <3>3. link' <=> link
      BY <3>1, Zenon
    <3>4. PlaceInv' /\ ServedOnLease'
      BY <2>1, <2>2, <3>1, <3>3, LoopTypes DEF PlaceInv, ServedOnLease
    <3> QED
      BY <3>2, <3>4 DEF LoopInv
  <2>3. ASSUME NEW l \in Addrs \cup {NoLease}, DhcpMoves(l), UNCHANGED poolVars
        PROVE  LoopInv' /\ Paced
    <3>1. /\ up' = up /\ pin' = pin /\ started' = started /\ assoc' = assoc
          /\ pending' = pending /\ link' = link /\ rec' = rec /\ reqAge' = reqAge
          /\ endpoint' = endpoint /\ dhcpPolls' = dhcpPolls /\ lease' = l
      BY <2>3 DEF DhcpMoves
    <3>2. changed' \in BOOLEAN
      BY <2>3, Zenon DEF DhcpMoves
    <3>3. StationInv' /\ Paced
      BY <3>1, <3>2, LoopTypes, StationTypes, LeaseKeeps, PacedSame
    <3>4. PoolInv' /\ tcp' = tcp
      BY <2>3, LoopTypes, PoolUnchanged DEF poolVars
    <3>5. link' <=> link
      BY <3>1, Zenon
    <3>6. PlaceInv' /\ ServedOnLease'
      BY <2>1, <3>1, <3>4, <3>5, LoopTypes DEF PlaceInv, ServedOnLease
    <3> QED
      BY <3>3, <3>4, <3>6 DEF LoopInv
  <2> QED
    BY <2>1, <2>2, <2>3
<1> QED
  BY <1>1, <1>2, <1>3

LEMMA LoopStep == LoopInv /\ [NetNext]_vars => LoopInv' /\ Paced
BY DownKeeps, UpKeeps, DhcpKeeps, GivenUpKeeps, ServingKeeps, TurnKeeps, AroundKeeps, Zenon
   DEF NetNext, Step

LEMMA LoopInit == NetInit => LoopInv
<1> SUFFICES ASSUME NetInit PROVE LoopInv
  OBVIOUS
<1>1. StationInit /\ PoolInit /\ pc = "startup"
  BY DEF NetInit
<1>2. PoolInv /\ \A s \in Sockets : tcp[s] = "closed"
  BY <1>1, PoolInitially DEF PoolInit
<1>3. /\ started \in BOOLEAN /\ assoc \in BOOLEAN /\ pending \in BOOLEAN
      /\ link \in BOOLEAN /\ changed \in BOOLEAN /\ ~link /\ ~pending
  BY <1>1, Zenon DEF StationInit
<1>4. /\ up \subseteq APs /\ pin \in APs \cup {NoAP} /\ rec = NewRecovery
      /\ lease = NoLease /\ endpoint = NoLease /\ dhcpPolls = 0 /\ reqAge = Pace
  BY <1>1 DEF StationInit, PinChoices
<1>5. rec \in Recovery /\ rec.next = 0
  BY <1>4, RecoveryStates
<1>6. StationInv
  <2>1. StationTypeOK
    BY <1>3, <1>4, <1>5, ShortestPause, StationConstants DEF StationTypeOK, Recovery
  <2>2. PaceInv /\ RequestInv
    BY <1>3, <1>4, <1>5, ShortestPause DEF PaceInv, RequestInv
  <2> QED
    BY <2>1, <2>2 DEF StationInv
<1>7. PlaceInv /\ ServedOnLease
  BY <1>1, <1>2, <1>3, <1>4 DEF PlaceInv, ServedOnLease
<1> QED
  BY <1>2, <1>6, <1>7 DEF LoopInv

-----------------------------------------------------------------------------
(* The watchdog                                                            *)

Watchdog == [cool : {Never} \cup 0..Cooldown, forced : BOOLEAN,
             stalled : {Never} \cup 0..PoolStalled, idle : {Never} \cup 0..IdleRecovery,
             errAge : {Never} \cup 0..ErrorWindow + 1,
             errCount : 0..ErrorThreshold, sampled : BOOLEAN]

\* The errors a watchdog has counted are among those since the last success, and
\* none of them is older than the first it counted.
Counted(w, es) ==
    /\ es \in Seq(0..ErrorWindow + 1)
    /\ w.errCount <= Len(es) /\ Len(es) <= ErrorThreshold
    /\ \A i \in 1..w.errCount : es[i] <= w.errAge

WatchInv ==
    /\ dog \in Watchdog /\ inTick \in BOOLEAN
    /\ recAge = dog.cool
    /\ Counted(dog, errors)

LEMMA WatchConstants ==
    /\ Cooldown \in Nat /\ Cooldown >= 1 /\ PoolStalled \in Nat /\ PoolStalled >= 1
    /\ IdleRecovery \in Nat /\ IdleRecovery >= 1 /\ ErrorWindow \in Nat /\ ErrorWindow >= 1
    /\ ErrorThreshold \in Nat /\ ErrorThreshold >= 1
<1>1. /\ Cooldown \in Nat \ {0} /\ PoolStalled \in Nat \ {0} /\ IdleRecovery \in Nat \ {0}
      /\ ErrorWindow \in Nat \ {0} /\ ErrorThreshold \in Nat \ {0}
  BY WatchdogAssumption
<1> QED
  BY <1>1

LEMMA AgesBounded ==
    ASSUME NEW cap \in Nat, NEW age \in {Never} \cup 0..cap
    PROVE  /\ Ages(age, cap) \in {Never} \cup 0..cap
           /\ age \in 0..cap => Ages(age, cap) \in 0..cap
           /\ Ages(age, cap) = 0 => age = cap
           /\ \A other \in 0..cap : other <= age => Ages(other, cap) <= Ages(age, cap)
BY DEF Ages, Never

LEMMA AgedErrors ==
    ASSUME NEW es \in Seq(0..ErrorWindow + 1)
    PROVE  LET aged == [i \in DOMAIN es |-> Ages(es[i], ErrorWindow + 1)]
           IN  /\ aged \in Seq(0..ErrorWindow + 1) /\ Len(aged) = Len(es)
               /\ \A i \in 1..Len(es) : aged[i] = Ages(es[i], ErrorWindow + 1)
<1> DEFINE aged == [i \in DOMAIN es |-> Ages(es[i], ErrorWindow + 1)]
<1>1. \A i \in 1..Len(es) : Ages(es[i], ErrorWindow + 1) \in 0..ErrorWindow + 1
  BY AgesBounded, WatchConstants
<1>2. /\ aged \in [1..Len(es) -> 0..ErrorWindow + 1] /\ Len(es) \in Nat
      /\ \A i \in 1..Len(es) : aged[i] = Ages(es[i], ErrorWindow + 1)
  BY <1>1
<1>3. aged \in Seq(0..ErrorWindow + 1) /\ Len(aged) = Len(es)
  BY <1>2
<1> QED
  BY <1>2, <1>3, Zenon

\* Another error comes before those of the list, which keeps as many as count.
LEMMA NewError ==
    ASSUME NEW es \in Seq(0..ErrorWindow + 1), Len(es) <= ErrorThreshold
    PROVE  LET now == SubSeq(<<0>> \o es, 1, Least(Len(es) + 1, ErrorThreshold))
           IN  /\ now \in Seq(0..ErrorWindow + 1)
               /\ Len(now) = Least(Len(es) + 1, ErrorThreshold)
               /\ now[1] = 0
               /\ \A i \in 2..Len(now) : now[i] = es[i - 1]
<1> DEFINE m == Least(Len(es) + 1, ErrorThreshold)
           c == <<0>> \o es
           now == SubSeq(c, 1, m)
<1>1. m \in 1..Len(es) + 1 /\ Len(es) \in Nat
  BY WatchConstants DEF Least
<1>2. /\ <<0>> \in Seq(0..ErrorWindow + 1) /\ Len(<<0>>) = 1 /\ <<0>>[1] = 0
  BY WatchConstants
<1>3. /\ c \in Seq(0..ErrorWindow + 1) /\ Len(c) = Len(es) + 1 /\ c[1] = 0
      /\ \A i \in 2..Len(es) + 1 : c[i] = es[i - 1]
  BY <1>2
<1> HIDE DEF m, c
<1>4. /\ now \in Seq(0..ErrorWindow + 1) /\ Len(now) = m
      /\ \A i \in 1..m : now[i] = c[i]
  <2> DEFINE S == 0..ErrorWindow + 1
  <2>0. m \in Int /\ 1 <= m /\ m <= Len(c) /\ c \in Seq(S)
    BY <1>1, <1>3
  <2> HIDE DEF S
  <2>1. 1 \in Int /\ m \in Int /\ \A i \in 1..m : c[i] \in S
    BY <2>0
  <2>2. /\ now \in Seq(S)
        /\ Len(now) = IF 1 <= m THEN m - 1 + 1 ELSE 0
        /\ \A i \in 1..m - 1 + 1 : now[i] = c[1 + i - 1]
    BY <2>1, SubSeqProperties
  <2> HIDE DEF now
  <2> QED
    BY <2>0, <2>2 DEF S
<1>5. now[1] = 0 /\ \A i \in 2..m : now[i] = es[i - 1]
  BY <1>1, <1>3, <1>4
<1> QED
  BY <1>4, <1>5 DEF m, c

\* A recovery keeps its distance from the last, and one that errors force is due
\* to as many of them within the window.
Spaced == recAge' = 0 => recAge \in {Never, 0, Cooldown}
Justified ==
    ~dog.forced /\ dog'.forced =>
        Len(errors') = ErrorThreshold /\ errors'[ErrorThreshold] <= ErrorWindow

LEMMA WatchdogRecords ==
    ASSUME NEW w \in Watchdog
    PROVE  /\ RecordActivity(w) \in Watchdog
           /\ RecordSuccess(w) \in Watchdog
           /\ MarkEndpointReady(w) \in Watchdog
           /\ \A full \in BOOLEAN : RecordSocketState(w, full) \in Watchdog
           /\ MarkRecovery(w) \in Watchdog
<1> DEFINE ready == IF w.idle = Never THEN Never ELSE 0
           stalled(full) == IF ~full THEN Never ELSE IF w.stalled = Never THEN 0 ELSE w.stalled
<1>1. /\ 0 \in 0..Cooldown /\ 0 \in 0..IdleRecovery /\ 0 \in 0..ErrorThreshold
      /\ 0 \in 0..PoolStalled
  BY WatchConstants
<1>2. ready \in {Never} \cup 0..IdleRecovery
  BY <1>1
<1>3. \A full \in BOOLEAN : stalled(full) \in {Never} \cup 0..PoolStalled
  BY <1>1 DEF Watchdog
<1>4. /\ RecordActivity(w) = [w EXCEPT !.idle = 0]
      /\ RecordSuccess(w) = [w EXCEPT !.idle = 0, !.errAge = Never, !.errCount = 0]
      /\ MarkEndpointReady(w) = [w EXCEPT !.idle = ready, !.stalled = Never]
      /\ MarkRecovery(w) = [w EXCEPT !.cool = 0, !.idle = ready, !.stalled = Never,
                                     !.forced = FALSE, !.errAge = Never, !.errCount = 0]
  BY DEF RecordActivity, RecordSuccess, MarkEndpointReady, MarkRecovery, Watchdog
<1>5. \A full \in BOOLEAN :
         \/ RecordSocketState(w, full) = w
         \/ RecordSocketState(w, full) = [w EXCEPT !.sampled = TRUE, !.stalled = stalled(full)]
  BY DEF RecordSocketState, Watchdog
<1> HIDE DEF ready, stalled
<1>6. RecordActivity(w) \in Watchdog /\ RecordSuccess(w) \in Watchdog
  BY <1>1, <1>4, ZenonT(60) DEF Watchdog
<1>7. MarkEndpointReady(w) \in Watchdog /\ MarkRecovery(w) \in Watchdog
  BY <1>1, <1>2, <1>4 DEF Watchdog
<1>8. ASSUME NEW full \in BOOLEAN PROVE RecordSocketState(w, full) \in Watchdog
  <2>1. CASE RecordSocketState(w, full) = w
    BY <2>1
  <2>2. CASE RecordSocketState(w, full) = [w EXCEPT !.sampled = TRUE, !.stalled = stalled(full)]
    BY <1>3, <2>2 DEF Watchdog
  <2> QED
    BY <1>5, <2>1, <2>2
<1> QED
  BY <1>6, <1>7, <1>8

\* Steps that leave the errors and the recoveries of the watchdog alone.
LEMMA WatchSame ==
    ASSUME WatchInv, dog' \in Watchdog, inTick' \in BOOLEAN,
           recAge' = recAge, errors' = errors,
           dog'.cool = dog.cool, dog'.forced = dog.forced,
           dog'.errCount = dog.errCount, dog'.errAge = dog.errAge
    PROVE  WatchInv' /\ Spaced /\ Justified
<1>1. dog'.forced <=> dog.forced
  BY Zenon
<1>2. Counted(dog', errors')
  BY DEF WatchInv, Counted
<1>3. Spaced /\ Justified
  BY <1>1 DEF Spaced, Justified
<1> QED
  BY <1>2, <1>3 DEF WatchInv

LEMMA AgeDogKeeps == WatchInv /\ AgeDog /\ inTick' = inTick => WatchInv' /\ Spaced /\ Justified
<1> SUFFICES ASSUME WatchInv, AgeDog, inTick' = inTick PROVE WatchInv' /\ Spaced /\ Justified
  OBVIOUS
<1> DEFINE cool == Ages(dog.cool, Cooldown)
           stalled == Ages(dog.stalled, PoolStalled)
           idle == Ages(dog.idle, IdleRecovery)
           errAge == Ages(dog.errAge, ErrorWindow + 1)
<1>1. /\ dog' = [dog EXCEPT !.cool = cool, !.stalled = stalled, !.idle = idle,
                            !.errAge = errAge, !.sampled = FALSE]
      /\ recAge' = Ages(recAge, Cooldown)
      /\ errors' = [i \in DOMAIN errors |-> Ages(errors[i], ErrorWindow + 1)]
  BY DEF AgeDog, WatchInv, Watchdog
<1>2. dog \in Watchdog /\ recAge = dog.cool /\ Counted(dog, errors)
  BY DEF WatchInv
<1>3. /\ cool \in {Never} \cup 0..Cooldown /\ (cool = 0 => dog.cool = Cooldown)
      /\ stalled \in {Never} \cup 0..PoolStalled /\ idle \in {Never} \cup 0..IdleRecovery
      /\ errAge \in {Never} \cup 0..ErrorWindow + 1
  BY <1>2, AgesBounded, WatchConstants DEF Watchdog
<1>4. \A other \in 0..ErrorWindow + 1 :
         other <= dog.errAge => Ages(other, ErrorWindow + 1) <= errAge
  BY <1>2, AgesBounded, WatchConstants DEF Watchdog
<1> HIDE DEF cool, stalled, idle, errAge
<1>5. /\ dog' \in Watchdog /\ dog'.cool = cool /\ dog'.errAge = errAge
      /\ dog'.errCount = dog.errCount /\ dog'.forced = dog.forced
  BY <1>1, <1>2, <1>3 DEF Watchdog
<1>6. errors \in Seq(0..ErrorWindow + 1) /\ dog.errCount \in 0..ErrorThreshold
  BY <1>2 DEF Counted, Watchdog
<1>7. /\ errors' \in Seq(0..ErrorWindow + 1) /\ Len(errors') = Len(errors)
      /\ \A i \in 1..Len(errors) : errors'[i] = Ages(errors[i], ErrorWindow + 1)
  BY <1>1, <1>6, AgedErrors
<1>8. Counted(dog', errors')
  <2> DEFINE k == dog.errCount
             n == Len(errors)
  <2>0. k \in Nat /\ n \in Nat /\ k <= n /\ \A i \in 1..k : errors[i] <= dog.errAge
    BY <1>2, <1>6, WatchConstants DEF Counted
  <2> HIDE DEF k
  <2>1. \A i \in 1..k : /\ i \in 1..n /\ errors[i] <= dog.errAge
                       /\ errors[i] \in 0..ErrorWindow + 1
    <3>1. \A i \in 1..n : errors[i] \in 0..ErrorWindow + 1
      BY <1>6, ElementOfSeq, Zenon
    <3> HIDE DEF n
    <3> QED
      BY <2>0, <3>1
  <2>2. \A i \in 1..k : errors'[i] <= errAge
    BY <1>4, <1>7, <2>1
  <2> QED
    BY <1>2, <1>5, <1>7, <2>2 DEF Counted, k
<1>9. recAge' = dog'.cool /\ Spaced
  BY <1>1, <1>2, <1>3, <1>5 DEF cool, Spaced
<1>10. Justified
  <2>1. dog'.forced <=> dog.forced
    BY <1>5, Zenon
  <2> QED
    BY <2>1 DEF Justified
<1>11. inTick' \in BOOLEAN
  BY Zenon DEF WatchInv
<1> QED
  BY <1>5, <1>8, <1>9, <1>10, <1>11 DEF WatchInv

LEMMA SendFailsKeeps ==
    WatchInv /\ SendFails /\ UNCHANGED <<recAge, inTick>> => WatchInv' /\ Spaced /\ Justified
<1> SUFFICES ASSUME WatchInv, SendFails, recAge' = recAge, inTick' = inTick
             PROVE  WatchInv' /\ Spaced /\ Justified
  OBVIOUS
<1> DEFINE fresh == dog.errAge = Never \/ dog.errAge > ErrorWindow
           n == IF fresh THEN 1 ELSE Least(dog.errCount + 1, ErrorThreshold)
           age == IF fresh THEN 0 ELSE dog.errAge
           due == dog.forced \/ n = ErrorThreshold
<1>1. dog \in Watchdog /\ recAge = dog.cool /\ Counted(dog, errors)
  BY DEF WatchInv
<1>2. dog' = [dog EXCEPT !.errAge = age, !.errCount = n, !.forced = due]
  BY <1>1 DEF SendFails, RecordSendError, Watchdog
<1>3. /\ errors \in Seq(0..ErrorWindow + 1) /\ Len(errors) \in Nat
      /\ Len(errors) <= ErrorThreshold
      /\ dog.errCount \in 0..ErrorThreshold /\ dog.errCount <= Len(errors)
      /\ dog.errAge \in {Never} \cup 0..ErrorWindow + 1
      /\ \A i \in 1..dog.errCount : errors[i] <= dog.errAge
  BY <1>1 DEF Counted, Watchdog
<1>4. /\ errors' \in Seq(0..ErrorWindow + 1)
      /\ Len(errors') = Least(Len(errors) + 1, ErrorThreshold)
      /\ errors'[1] = 0
      /\ \A i \in 2..Len(errors') : errors'[i] = errors[i - 1]
  BY <1>3, NewError DEF SendFails
<1>5. /\ age \in 0..ErrorWindow /\ n \in 1..ErrorThreshold
      /\ n <= Len(errors') /\ Len(errors') <= ErrorThreshold
      /\ n = ErrorThreshold => Len(errors') = ErrorThreshold
  <2> DEFINE k == Len(errors)
             c == dog.errCount
             a == dog.errAge
  <2>1. /\ k \in Nat /\ k <= ErrorThreshold /\ c \in Nat /\ c <= k
        /\ a \in {Never} \cup 0..ErrorWindow + 1
        /\ Len(errors') = Least(k + 1, ErrorThreshold)
    BY <1>3, <1>4, WatchConstants
  <2> HIDE DEF k, c, a
  <2>2. age \in 0..ErrorWindow
    BY <2>1, WatchConstants DEF a, Never
  <2>3. n \in 1..ErrorThreshold /\ n <= k + 1
    <3>1. n = 1 \/ n = Least(c + 1, ErrorThreshold)
      BY DEF c
    <3> HIDE DEF n
    <3> QED
      BY <2>1, <3>1, WatchConstants DEF Least
  <2> HIDE DEF n
  <2> QED
    BY <2>1, <2>2, <2>3, WatchConstants DEF Least
<1>6. \A i \in 1..n : errors'[i] <= age
  <2> SUFFICES ASSUME NEW i \in 1..n PROVE errors'[i] <= age
    OBVIOUS
  <2>1. CASE i = 1
    BY <1>4, <1>5, <2>1
  <2>2. CASE i # 1
    <3>1. ~fresh /\ i \in 2..Len(errors') /\ i - 1 \in 1..dog.errCount
      BY <1>3, <1>5, <2>2, WatchConstants, SMTT(30) DEF Least
    <3> QED
      BY <1>3, <1>4, <3>1
  <2> QED
    BY <2>1, <2>2
<1>7. due \in BOOLEAN
  BY <1>1 DEF Watchdog
<1> HIDE DEF fresh, n, age, due
<1>8. /\ dog' \in Watchdog /\ dog'.cool = dog.cool /\ dog'.errAge = age
      /\ dog'.errCount = n /\ dog'.forced = due
  <2>1. age \in 0..ErrorWindow + 1 /\ n \in 0..ErrorThreshold
    BY <1>5, WatchConstants
  <2> QED
    BY <1>1, <1>2, <1>7, <2>1 DEF Watchdog
<1>9. Counted(dog', errors')
  BY <1>4, <1>5, <1>6, <1>8 DEF Counted
<1>10. Spaced
  BY DEF Spaced
<1>11. Justified
  <2> SUFFICES ASSUME ~dog.forced, dog'.forced
               PROVE  Len(errors') = ErrorThreshold /\ errors'[ErrorThreshold] <= ErrorWindow
    BY DEF Justified
  <2>1. due
    BY <1>8, Zenon
  <2>2. n = ErrorThreshold
    BY <2>1, Zenon DEF due
  <2>3. ErrorThreshold \in 1..n /\ errors'[ErrorThreshold] <= age
    BY <1>6, <2>2, WatchConstants
  <2>4. errors'[ErrorThreshold] \in Int
    <3>1. ErrorThreshold \in 1..Len(errors')
      BY <1>5, <2>2, WatchConstants
    <3>2. errors'[ErrorThreshold] \in 0..ErrorWindow + 1
      BY <1>4, <3>1, ElementOfSeq, Zenon
    <3> QED
      BY <3>2, WatchConstants
  <2> QED
    BY <1>5, <2>2, <2>3, <2>4, WatchConstants
<1>12. inTick' \in BOOLEAN
  BY Zenon DEF WatchInv
<1> QED
  BY <1>1, <1>8, <1>9, <1>10, <1>11, <1>12 DEF WatchInv

\* A response sent, or a recovery, forgets the errors.
LEMMA ForgetErrors ==
    ASSUME WatchInv, dog' \in Watchdog, inTick' \in BOOLEAN, recAge' = dog'.cool,
           dog'.errCount = 0, errors' = << >>, ~dog'.forced \/ dog'.forced = dog.forced
    PROVE  WatchInv' /\ Justified
<1>1. Counted(dog', errors')
  <2>1. errors' \in Seq(0..ErrorWindow + 1) /\ Len(errors') = 0
    OBVIOUS
  <2> QED
    BY <2>1, WatchConstants DEF Counted
<1>2. dog'.forced => dog.forced
  BY Zenon
<1> QED
  BY <1>1, <1>2 DEF WatchInv, Justified

LEMMA RecoveryKeeps ==
    ASSUME WatchInv, NEW left \in BOOLEAN, ForceRecovery(left)
    PROVE  WatchInv' /\ Spaced /\ Justified
<1>1. /\ RecoveryDue(dog) /\ dog' = MarkRecovery(dog) /\ recAge' = 0 /\ errors' = << >>
      /\ inTick' = inTick
  BY DEF ForceRecovery
<1>2. dog \in Watchdog /\ recAge = dog.cool
  BY DEF WatchInv
<1>3. dog' \in Watchdog
  BY <1>1, <1>2, WatchdogRecords
<1>4. dog'.cool = 0 /\ dog'.errCount = 0 /\ dog'.forced = FALSE
  BY <1>1, <1>2 DEF MarkRecovery, Watchdog
<1>5. ~dog'.forced
  BY <1>4, Zenon
<1>6. inTick' \in BOOLEAN
  BY <1>1, Zenon DEF WatchInv
<1>7. Spaced
  BY <1>1, <1>2 DEF Spaced, RecoveryDue
<1> QED
  BY <1>1, <1>3, <1>4, <1>5, <1>6, <1>7, ForgetErrors

\* What service_http_once tells the watchdog.
LEMMA ServiceWatched == WatchInv /\ Service => WatchInv' /\ Spaced /\ Justified
<1> SUFFICES ASSUME WatchInv, Service PROVE WatchInv' /\ Spaced /\ Justified
  OBVIOUS
<1>1. recAge' = recAge /\ inTick' = inTick
  BY DEF Service
<1>2. inTick' \in BOOLEAN /\ dog \in Watchdog /\ recAge = dog.cool
  BY <1>1, Zenon DEF WatchInv
<1>3. \/ \E full \in BOOLEAN : dog' = RecordSocketState(dog, full) /\ errors' = errors
      \/ dog' = dog /\ errors' = errors
      \/ dog' = RecordActivity(dog) /\ errors' = errors
      \/ dog' = RecordSuccess(dog) /\ errors' = << >>
      \/ SendFails
  BY DEF Service
<1>4. ASSUME NEW full \in BOOLEAN, dog' = RecordSocketState(dog, full), errors' = errors
      PROVE  WatchInv' /\ Spaced /\ Justified
  <2>1. dog' \in Watchdog
    BY <1>2, <1>4, WatchdogRecords
  <2>2. /\ dog'.cool = dog.cool /\ dog'.forced = dog.forced
        /\ dog'.errCount = dog.errCount /\ dog'.errAge = dog.errAge
    BY <1>2, <1>4 DEF RecordSocketState, Watchdog
  <2> QED
    BY <1>1, <1>2, <1>4, <2>1, <2>2, WatchSame
<1>5. CASE dog' = dog /\ errors' = errors
  BY <1>1, <1>2, <1>5, WatchSame
<1>6. CASE dog' = RecordActivity(dog) /\ errors' = errors
  <2>1. dog' \in Watchdog
    BY <1>2, <1>6, WatchdogRecords
  <2>2. /\ dog'.cool = dog.cool /\ dog'.forced = dog.forced
        /\ dog'.errCount = dog.errCount /\ dog'.errAge = dog.errAge
    BY <1>2, <1>6 DEF RecordActivity, Watchdog
  <2> QED
    BY <1>1, <1>2, <1>6, <2>1, <2>2, WatchSame
<1>7. CASE dog' = RecordSuccess(dog) /\ errors' = << >>
  <2>1. dog' \in Watchdog
    BY <1>2, <1>7, WatchdogRecords
  <2>2. dog'.cool = dog.cool /\ dog'.forced = dog.forced /\ dog'.errCount = 0
    BY <1>2, <1>7 DEF RecordSuccess, Watchdog
  <2>3. WatchInv' /\ Justified
    BY <1>1, <1>2, <1>7, <2>1, <2>2, ForgetErrors
  <2> QED
    BY <1>1, <2>3 DEF Spaced
<1> QED
  BY <1>1, <1>3, <1>4, <1>5, <1>6, <1>7, SendFailsKeeps

\* poll_dhcp, and the steps the watchdog knows nothing of.
LEMMA RestWatched ==
    ASSUME WatchInv,
           \/ HaveLease \/ AwaitLease \/ StartupPass \/ EnterServing \/ DownPass \/ UpPass
           \/ DeferTick \/ BeginTick \/ Maintain \/ EndTick \/ Air \/ Network
           \/ UNCHANGED vars \/ \E left \in BOOLEAN : DhcpTimeout(left)
    PROVE  WatchInv' /\ Spaced /\ Justified
<1>1. recAge' = recAge /\ errors' = errors /\ (dog' = dog \/ dog' = MarkEndpointReady(dog))
  BY DEF HaveLease, AwaitLease, AfterDhcp, StartupPass, EnterServing, DownPass, UpPass,
         DeferTick, BeginTick, Maintain, EndTick, Air, Network, DhcpTimeout, vars, watchVars
<1>2. inTick' \in BOOLEAN
  <2>1. inTick' = inTick \/ inTick' = TRUE \/ inTick' = FALSE
    BY DEF HaveLease, AwaitLease, StartupPass, EnterServing, DownPass, UpPass,
           DeferTick, BeginTick, Maintain, EndTick, Air, Network, DhcpTimeout, vars, loopVars
  <2> QED
    BY <2>1, Zenon DEF WatchInv
<1>3. dog \in Watchdog
  BY DEF WatchInv
<1>4. CASE dog' = dog
  BY <1>1, <1>2, <1>3, <1>4, WatchSame
<1>5. CASE dog' = MarkEndpointReady(dog)
  <2>1. dog' \in Watchdog
    BY <1>3, <1>5, WatchdogRecords
  <2>2. /\ dog'.cool = dog.cool /\ dog'.forced = dog.forced
        /\ dog'.errCount = dog.errCount /\ dog'.errAge = dog.errAge
    BY <1>3, <1>5 DEF MarkEndpointReady, Watchdog
  <2> QED
    BY <1>1, <1>2, <2>1, <2>2, WatchSame
<1> QED
  BY <1>1, <1>4, <1>5

LEMMA WatchStep == WatchInv /\ [NetNext]_vars => WatchInv' /\ Spaced /\ Justified
<1> SUFFICES ASSUME WatchInv, [NetNext]_vars PROVE WatchInv' /\ Spaced /\ Justified
  OBVIOUS
<1>1. CASE Tick
  <2>1. AgeDog /\ inTick' = inTick
    BY <1>1 DEF Tick, loopVars
  <2> QED
    BY <2>1, AgeDogKeeps
<1>2. CASE Service
  BY <1>2, ServiceWatched
<1>3. ASSUME NEW left \in BOOLEAN, ForceRecovery(left)
      PROVE  WatchInv' /\ Spaced /\ Justified
  BY <1>3, RecoveryKeeps
<1> QED
  BY <1>1, <1>2, <1>3, RestWatched, Zenon DEF NetNext, Step

LEMMA WatchInit == NetInit => WatchInv
<1> SUFFICES ASSUME NetInit PROVE WatchInv
  OBVIOUS
<1>1. dog = NewDog /\ recAge = Never /\ errors = << >> /\ inTick = FALSE
  BY DEF NetInit
<1>2. dog \in Watchdog /\ dog.cool = Never /\ dog.errCount = 0
  BY <1>1, WatchConstants DEF NewDog, Watchdog
<1>3. errors \in Seq(0..ErrorWindow + 1) /\ Len(errors) = 0
  BY <1>1
<1>4. Counted(dog, errors)
  BY <1>2, <1>3, WatchConstants DEF Counted
<1>5. inTick \in BOOLEAN
  BY <1>1, Zenon
<1> QED
  BY <1>1, <1>2, <1>4, <1>5 DEF WatchInv

-----------------------------------------------------------------------------
(* What the loop publishes                                                 *)

Gauges == [wifi : BOOLEAN, dhcp : BOOLEAN, ip : Addrs \cup {NoLease}, serving : BOOLEAN]

\* A published lease is the one installed, and HTTP has been served on it.  A link
\* the loop believes in is published; with the association in place nothing
\* counted is left to withdraw it.
Published(g) ==
    /\ g.dhcp <=> endpoint # NoLease
    /\ g.ip = endpoint
    /\ endpoint # NoLease => g.serving
    /\ link => g.wifi

GaugeInv ==
    /\ gauge \in Gauges /\ unseen \in BOOLEAN
    /\ Published(gauge)
    /\ link /\ assoc => ~unseen

GaugesInv == LoopInv /\ GaugeInv

\* What the recorders of a loss and of a restart leave of the gauges.
LEMMA Recorded ==
    ASSUME NEW g \in Gauges
    PROVE  /\ LET r == NetworkStarted(g)
              IN r \in Gauges /\ r.dhcp = g.dhcp /\ r.ip = g.ip /\ r.wifi = g.wifi
           /\ LET r == DhcpDeconfigured(g)
              IN r \in Gauges /\ r.dhcp = FALSE /\ r.ip = NoLease /\ r.wifi = g.wifi
                 /\ r.serving = g.serving
BY DEF Gauges, NetworkStarted, DhcpDeconfigured

\* Disconnects withdraw the association, if any were counted.
LEMMA Withdrawn ==
    ASSUME NEW g \in Gauges, NEW any \in BOOLEAN
    PROVE  LET r == WifiDisconnects(g, any)
           IN  /\ r \in Gauges /\ r.dhcp = g.dhcp /\ r.ip = g.ip /\ r.serving = g.serving
               /\ ~any => r = g
<1> DEFINE w == g.wifi /\ ~any
           r == WifiDisconnects(g, any)
<1>1. r = [g EXCEPT !.wifi = w] /\ w \in BOOLEAN
  BY DEF WifiDisconnects, Gauges
<1>2. ~any => w = g.wifi
  <2>1. g.wifi \in BOOLEAN
    BY DEF Gauges
  <2> QED
    BY <2>1
<1> HIDE DEF w
<1>3. r \in Gauges /\ r.dhcp = g.dhcp /\ r.ip = g.ip /\ r.serving = g.serving
  BY <1>1 DEF Gauges
<1>4. ~any => r = g
  BY <1>1, <1>2 DEF Gauges
<1> QED
  BY <1>3, <1>4

LEMMA ClearedGauges ==
    ASSUME NEW g \in Gauges
    PROVE  LET r == NetworkCleared(g)
           IN  r \in Gauges /\ r.dhcp = FALSE /\ r.ip = NoLease
<1> DEFINE r1 == DhcpDeconfigured(g)
           r2 == DhcpReset(r1)
<1>1. r1 \in Gauges /\ r1.dhcp = FALSE /\ r1.ip = NoLease
  BY Recorded
<1> HIDE DEF r1
<1>2. r2 \in Gauges /\ r2.dhcp = FALSE /\ r2.ip = NoLease
  BY <1>1 DEF Gauges, DhcpReset
<1> HIDE DEF r2
<1>3. NetworkStarted(r2) \in Gauges /\ NetworkStarted(r2).dhcp = FALSE
      /\ NetworkStarted(r2).ip = NoLease
  BY <1>2, Recorded
<1> QED
  BY <1>3 DEF r1, r2, NetworkCleared

\* Each pass publishes what it finds, before it acts on it.
LEMMA ObservedPublished == GaugesInv /\ Observed => GaugeInv'
<1> SUFFICES ASSUME GaugesInv, Observed PROVE GaugeInv'
  OBVIOUS
<1>1. /\ Air /\ gauge' = gauge
      /\ unseen' = (unseen \/ LinkLost \/ ConnectFails \/ LateEvent \/ (assoc /\ ~assoc'))
  BY DEF Observed
<1>2. /\ Associate \/ LinkLost \/ ConnectFails \/ LateEvent \/ \E a \in APs : ApChange(a)
      /\ link' = link /\ endpoint' = endpoint
  <2>1. Associate \/ LinkLost \/ ConnectFails \/ LateEvent \/ \E a \in APs : ApChange(a)
    BY <1>1 DEF Air
  <2> QED
    BY <2>1 DEF Associate, LinkLost, ConnectFails, LateEvent, ApChange
<1>3. GaugeInv /\ RequestInv
  BY DEF GaugesInv, LoopInv, StationInv
<1>4. gauge' \in Gauges /\ Published(gauge)' /\ unseen' \in BOOLEAN
  <2>1. link' <=> link
    BY <1>2, Zenon
  <2>2. Published(gauge)'
    BY <1>1, <1>2, <1>3, <2>1 DEF Published, GaugeInv
  <2>3. unseen' \in BOOLEAN
    BY <1>1, Zenon
  <2> QED
    BY <1>1, <1>3, <2>2, <2>3 DEF GaugeInv
<1>5. link' /\ assoc' => ~unseen'
  <2> SUFFICES ASSUME link', assoc' PROVE ~unseen'
    OBVIOUS
  <2>1. link
    BY <1>2, Zenon
  <2>2. ~pending
    BY <1>3, <2>1 DEF RequestInv
  <2>3. ~Associate /\ ~ConnectFails
    BY <2>2, Zenon DEF Associate, ConnectFails
  <2>4. ~LinkLost
    BY Zenon DEF LinkLost
  <2>5. assoc
    BY <1>2, <2>3, Zenon DEF LinkLost, LateEvent, ApChange
  <2>6. ~LateEvent
    BY <2>5, Zenon DEF LateEvent
  <2>7. ~unseen
    BY <1>3, <2>1, <2>5, Zenon DEF GaugeInv
  <2> QED
    BY <1>1, <2>3, <2>4, <2>6, <2>7, Zenon
<1> QED
  BY <1>4, <1>5 DEF GaugeInv

\* A pass with the link, new or as before, and the entry into the loop.
LEMMA UpPublished == GaugesInv /\ (EntryPublishes \/ UpPublishes) => GaugeInv'
<1> SUFFICES ASSUME GaugesInv, EntryPublishes \/ UpPublishes PROVE GaugeInv'
  OBVIOUS
<1> DEFINE seen == WifiDisconnects(gauge, unseen)
<1>1. /\ gauge \in Gauges /\ unseen \in BOOLEAN /\ Published(gauge)
      /\ link /\ assoc => ~unseen
      /\ endpoint # NoLease => link
  BY DEF GaugesInv, GaugeInv, LoopInv, ServedOnLease
<1>2. /\ unseen' = FALSE /\ assoc
      /\ \/ ~link /\ endpoint' = endpoint /\ gauge' = WifiConnectedAt(WifiApInfo(
                                         WifiDisconnects(DhcpStarted(gauge), unseen)))
         \/ link /\ link' = link /\ endpoint' = endpoint /\ gauge' = seen
         \/ /\ ~link /\ endpoint' = NoLease
            /\ gauge' = DhcpStarted(DhcpReset(WifiApInfo(WifiConnectedAt(seen))))
  BY DEF EntryPublishes, UpPublishes, EnterServing, EnterLoop, UpPass, stationVars, Relink,
         ClearLease
<1>3. unseen' \in BOOLEAN /\ ~unseen'
  BY <1>2, Zenon
<1>4. CASE link /\ link' = link /\ endpoint' = endpoint /\ gauge' = seen
  <2>1. gauge' = gauge
    BY <1>1, <1>2, <1>4, Withdrawn
  <2>2. link' <=> link
    BY <1>4, Zenon
  <2>3. Published(gauge)'
    BY <1>1, <1>4, <2>1, <2>2 DEF Published
  <2> QED
    BY <1>1, <1>3, <2>1, <2>3 DEF GaugeInv
<1>5. ASSUME ~link, endpoint' = NoLease, NEW g \in Gauges, gauge' = g,
             g.dhcp = FALSE, g.ip = NoLease, g.wifi = TRUE
      PROVE  GaugeInv'
  <2>1. ~g.dhcp /\ g.wifi
    BY <1>5, Zenon
  <2>2. Published(gauge)'
    BY <1>5, <2>1 DEF Published
  <2> QED
    BY <1>3, <1>5, <2>2 DEF GaugeInv
<1>6. CASE ~link /\ endpoint' = endpoint /\ gauge' = WifiConnectedAt(WifiApInfo(
                                         WifiDisconnects(DhcpStarted(gauge), unseen)))
  <2> DEFINE r1 == DhcpStarted(gauge)
             r2 == WifiDisconnects(r1, unseen)
             r3 == WifiApInfo(r2)
             r4 == WifiConnectedAt(r3)
  <2>0. endpoint' = NoLease /\ gauge.ip = NoLease
    BY <1>1, <1>6 DEF Published
  <2>1. r1 \in Gauges /\ r1.dhcp = FALSE /\ r1.ip = NoLease
    BY <1>1, <2>0 DEF DhcpStarted, Gauges
  <2> HIDE DEF r1
  <2>2. r2 \in Gauges /\ r2.dhcp = FALSE /\ r2.ip = NoLease
    BY <1>1, <2>1, Withdrawn
  <2> HIDE DEF r2
  <2>3. r3 \in Gauges /\ r3.dhcp = FALSE /\ r3.ip = NoLease
    BY <2>2 DEF WifiApInfo, Gauges
  <2> HIDE DEF r3
  <2>4. r4 \in Gauges /\ r4.dhcp = FALSE /\ r4.ip = NoLease /\ r4.wifi = TRUE
    BY <2>3 DEF WifiConnectedAt, Gauges
  <2>5. gauge' = r4
    BY <1>6 DEF r1, r2, r3
  <2> HIDE DEF r4
  <2> QED
    BY <1>5, <1>6, <2>0, <2>4, <2>5
<1>7. CASE /\ ~link /\ endpoint' = NoLease
           /\ gauge' = DhcpStarted(DhcpReset(WifiApInfo(WifiConnectedAt(seen))))
  <2> DEFINE r1 == WifiConnectedAt(seen)
             r2 == WifiApInfo(r1)
             r3 == DhcpReset(r2)
             r4 == DhcpStarted(r3)
  <2>0. gauge.ip = NoLease
    BY <1>1, <1>7 DEF Published
  <2>1. seen \in Gauges /\ seen.ip = NoLease
    BY <1>1, <2>0, Withdrawn
  <2> HIDE DEF seen
  <2>2. r1 \in Gauges /\ r1.ip = NoLease /\ r1.wifi = TRUE
    BY <2>1 DEF WifiConnectedAt, Gauges
  <2> HIDE DEF r1
  <2>3. r2 \in Gauges /\ r2.ip = NoLease /\ r2.wifi = TRUE
    BY <2>2 DEF WifiApInfo, Gauges
  <2> HIDE DEF r2
  <2>4. r3 \in Gauges /\ r3.ip = NoLease /\ r3.wifi = TRUE
    BY <2>3 DEF DhcpReset, Gauges
  <2> HIDE DEF r3
  <2>5. r4 \in Gauges /\ r4.dhcp = FALSE /\ r4.ip = NoLease /\ r4.wifi = TRUE
    BY <2>4 DEF DhcpStarted, Gauges
  <2>6. gauge' = r4
    BY <1>7 DEF r1, r2, r3, seen
  <2> HIDE DEF r4
  <2> QED
    BY <1>5, <1>7, <2>5, <2>6
<1> QED
  BY <1>2, <1>4, <1>6, <1>7

\* A pass without the link, and a link that is given up.
LEMMA DownPublished == GaugesInv /\ (DownPublishes \/ GiveUpPublishes) => GaugeInv'
<1> SUFFICES ASSUME GaugesInv, DownPublishes \/ GiveUpPublishes PROVE GaugeInv'
  OBVIOUS
<1> DEFINE seen == WifiDisconnects(gauge, unseen)
<1>1. /\ gauge \in Gauges /\ unseen \in BOOLEAN /\ Published(gauge)
      /\ endpoint # NoLease => link
  BY DEF GaugesInv, GaugeInv, LoopInv, ServedOnLease
<1>2. /\ unseen' = FALSE \/ unseen' = unseen
      /\ link' = FALSE
      /\ \/ link /\ endpoint' = NoLease /\ gauge' = NetworkCleared(seen)
         \/ ~link /\ endpoint' = endpoint /\ gauge' = seen
         \/ endpoint' = NoLease /\ gauge' = DhcpStarted(NetworkCleared(DhcpTimedOut(gauge)))
         \/ endpoint' = NoLease /\ gauge' = DhcpStarted(NetworkCleared(gauge))
  BY DEF DownPublishes, DownPass, ReconnectPass, ClearLease, GiveUpPublishes, DhcpTimeout,
         ForceRecovery, GiveUpLink
<1>3. unseen' \in BOOLEAN /\ ~link'
  BY <1>1, <1>2, Zenon
<1>4. seen \in Gauges /\ seen.dhcp = gauge.dhcp /\ seen.ip = gauge.ip
  BY <1>1, Withdrawn
<1> HIDE DEF seen
<1>5. ASSUME endpoint' = NoLease, gauge' \in Gauges, gauge'.dhcp = FALSE, gauge'.ip = NoLease
      PROVE  GaugeInv'
  <2>1. ~gauge'.dhcp
    BY <1>5, Zenon
  <2>2. Published(gauge)'
    BY <1>3, <1>5, <2>1 DEF Published
  <2> QED
    BY <1>3, <1>5, <2>2 DEF GaugeInv
<1>6. CASE link /\ endpoint' = NoLease /\ gauge' = NetworkCleared(seen)
  BY <1>4, <1>5, <1>6, ClearedGauges
<1>7. CASE ~link /\ endpoint' = endpoint /\ gauge' = seen
  <2>1. endpoint' = NoLease /\ gauge'.ip = NoLease
    BY <1>1, <1>4, <1>7 DEF Published
  <2>2. gauge.dhcp = FALSE
    <3>1. gauge.dhcp \in BOOLEAN /\ ~gauge.dhcp
      BY <1>1, <1>7 DEF Published, Gauges
    <3> QED
      BY <3>1
  <2>3. gauge'.dhcp = FALSE
    BY <1>4, <1>7, <2>2
  <2> QED
    BY <1>4, <1>5, <1>7, <2>1, <2>3
<1>8. CASE \/ endpoint' = NoLease /\ gauge' = DhcpStarted(NetworkCleared(DhcpTimedOut(gauge)))
           \/ endpoint' = NoLease /\ gauge' = DhcpStarted(NetworkCleared(gauge))
  <2>1. PICK g \in Gauges : gauge' = DhcpStarted(NetworkCleared(g)) /\ endpoint' = NoLease
    <3>1. DhcpTimedOut(gauge) \in Gauges
      BY <1>1 DEF DhcpTimedOut, Gauges
    <3> QED
      BY <1>1, <1>8, <3>1
  <2> DEFINE r == NetworkCleared(g)
  <2>2. r \in Gauges /\ r.dhcp = FALSE /\ r.ip = NoLease
    BY ClearedGauges
  <2>3. gauge' = DhcpStarted(r)
    BY <2>1
  <2> HIDE DEF r
  <2>4. gauge' \in Gauges /\ gauge'.dhcp = FALSE /\ gauge'.ip = NoLease
    BY <2>2, <2>3 DEF DhcpStarted, Gauges
  <2> QED
    BY <1>5, <2>1, <2>4
<1> QED
  BY <1>2, <1>6, <1>7, <1>8

\* poll_dhcp, and the loop's own account of a changed endpoint.
LEMMA LeasePublished == GaugesInv /\ LeasePublishes => GaugeInv'
<1> SUFFICES ASSUME GaugesInv, LeasePublishes PROVE GaugeInv'
  OBVIOUS
<1>1. /\ gauge \in Gauges /\ unseen \in BOOLEAN /\ Published(gauge)
      /\ link /\ assoc => ~unseen
      /\ lease \in Addrs \cup {NoLease}
  <2>1. StationInv
    BY DEF GaugesInv, LoopInv
  <2> QED
    BY <2>1, StationTypes DEF GaugesInv, GaugeInv
<1>2. /\ unseen' = unseen /\ assoc' = assoc /\ link' = link
      /\ endpoint' = IF changed THEN lease ELSE endpoint
      /\ gauge' = AfterPollDhcp
  BY DEF LeasePublishes, HaveLease, AwaitLease, AfterDhcp, TakeDhcpEvent
<1>3. unseen' \in BOOLEAN /\ (link' /\ assoc' => ~unseen') /\ (link' <=> link)
  BY <1>1, <1>2, Zenon
<1>4. ASSUME gauge' \in Gauges, gauge'.ip = endpoint', gauge'.wifi = gauge.wifi,
             gauge'.dhcp <=> endpoint' # NoLease, endpoint' # NoLease => gauge'.serving
      PROVE  GaugeInv'
  <2>1. gauge'.wifi <=> gauge.wifi
    BY <1>4, Zenon
  <2>2. Published(gauge)'
    BY <1>1, <1>3, <1>4, <2>1 DEF Published
  <2> QED
    BY <1>3, <1>4, <2>2 DEF GaugeInv
<1>5. CASE ~changed
  <2>1. endpoint' = endpoint /\ gauge' = gauge
    BY <1>2, <1>5 DEF AfterPollDhcp
  <2> QED
    BY <1>1, <1>4, <2>1 DEF Published
<1>6. CASE changed /\ lease = NoLease
  <2> DEFINE r == DhcpDeconfigured(gauge)
  <2>1. /\ r \in Gauges /\ r.dhcp = FALSE /\ r.ip = NoLease /\ r.wifi = gauge.wifi
    BY <1>1, Recorded
  <2>2. endpoint' = NoLease /\ (gauge' = r \/ gauge' = DhcpDeconfigured(r))
    BY <1>2, <1>6 DEF AfterPollDhcp
  <2> HIDE DEF r
  <2>3. /\ gauge' \in Gauges /\ gauge'.dhcp = FALSE /\ gauge'.ip = NoLease
        /\ gauge'.wifi = gauge.wifi
    BY <2>1, <2>2 DEF DhcpDeconfigured, Gauges
  <2>4. ~gauge'.dhcp
    BY <2>3, Zenon
  <2> QED
    BY <1>4, <2>2, <2>3, <2>4
<1>7. CASE changed /\ lease # NoLease
  <2> DEFINE r == DhcpConfigured(gauge, lease)
  <2>1. /\ r \in Gauges /\ r.dhcp = TRUE /\ r.ip = lease /\ r.wifi = gauge.wifi
        /\ r.serving = gauge.serving
    BY <1>1 DEF DhcpConfigured, Gauges
  <2>2. /\ endpoint' = lease
        /\ gauge' = IF endpoint' = endpoint THEN r ELSE ServingStarted(r)
    BY <1>2, <1>7 DEF AfterPollDhcp
  <2> HIDE DEF r
  <2>3. CASE endpoint' = endpoint
    <3>1. r.dhcp /\ r.serving
      <4>1. gauge.serving
        BY <1>1, <1>7, <2>2, <2>3 DEF Published
      <4> QED
        BY <2>1, <4>1, Zenon
    <3> QED
      BY <1>4, <1>7, <2>1, <2>2, <2>3, <3>1
  <2>4. CASE endpoint' # endpoint
    <3>1. gauge' = ServingStarted(r)
      BY <2>2, <2>4
    <3>2. /\ gauge' \in Gauges /\ gauge'.dhcp = TRUE /\ gauge'.ip = lease
          /\ gauge'.wifi = gauge.wifi /\ gauge'.serving = TRUE
      BY <2>1, <3>1 DEF ServingStarted, Gauges
    <3>3. gauge'.dhcp /\ gauge'.serving
      BY <3>2, Zenon
    <3> QED
      BY <1>4, <1>7, <2>2, <3>2, <3>3
  <2> QED
    BY <2>3, <2>4
<1> QED
  BY <1>5, <1>6, <1>7

\* Everything else leaves the link, the lease and the gauges as they are.
LEMMA RestPublished == GaugesInv /\ (Unpublished \/ UNCHANGED gaugeVars) => GaugeInv'
<1> SUFFICES ASSUME GaugesInv, Unpublished \/ UNCHANGED gaugeVars PROVE GaugeInv'
  OBVIOUS
<1>1. gauge' = gauge /\ unseen' = unseen
  BY DEF Unpublished, gaugeVars
<1>2. assoc' = assoc /\ link' = link /\ endpoint' = endpoint
  BY DEF Unpublished, gaugeVars, vars, StartupPass, Reconnect, Service, DeferTick, BeginTick,
         Maintain, EndTick, Tick, AgeStation, Network, DhcpMoves, stationVars
<1>3. /\ link' <=> link
      /\ unseen' \in BOOLEAN /\ (link' /\ assoc' => ~unseen')
  BY <1>1, <1>2, Zenon DEF GaugesInv, GaugeInv
<1>4. Published(gauge)'
  BY <1>1, <1>2, <1>3 DEF GaugesInv, GaugeInv, Published
<1> QED
  BY <1>1, <1>3, <1>4 DEF GaugesInv, GaugeInv

\* What publishes is a step of the loop.
LEMMA GaugeStepOfLoop == [GaugeNext]_gaugeVars => [NetNext]_vars
<1> SUFFICES ASSUME [GaugeNext]_gaugeVars PROVE [NetNext]_vars
  OBVIOUS
<1>1. CASE GaugeNext
  BY <1>1, Zenon DEF GaugeNext, Observed, EntryPublishes, DownPublishes, UpPublishes,
         LeasePublishes, GiveUpPublishes, Unpublished, NetNext, Step
<1>2. CASE UNCHANGED gaugeVars
  BY <1>2 DEF gaugeVars
<1> QED
  BY <1>1, <1>2

LEMMA GaugesStep == GaugesInv /\ [GaugeNext]_gaugeVars => GaugesInv'
<1> SUFFICES ASSUME GaugesInv, [GaugeNext]_gaugeVars PROVE GaugesInv'
  OBVIOUS
<1>1. LoopInv'
  BY GaugeStepOfLoop, LoopStep DEF GaugesInv
<1>2. GaugeInv'
  BY ObservedPublished, UpPublished, DownPublished, LeasePublished, RestPublished, Zenon
     DEF GaugeNext
<1> QED
  BY <1>1, <1>2 DEF GaugesInv

LEMMA GaugesInitially == GaugeInit => GaugesInv
<1> SUFFICES ASSUME GaugeInit PROVE GaugesInv
  OBVIOUS
<1>1. NetInit /\ LoopInv
  BY LoopInit DEF GaugeInit
<1>2. endpoint = NoLease /\ link = FALSE /\ unseen = FALSE
  BY <1>1 DEF NetInit, StationInit, GaugeInit
<1>3. ~link /\ ~unseen /\ unseen \in BOOLEAN
  BY <1>2, Zenon
<1>4. /\ gauge \in Gauges /\ gauge.dhcp = FALSE /\ gauge.ip = NoLease
  BY DEF GaugeInit, Gauges
<1>5. ~gauge.dhcp
  BY <1>4, Zenon
<1>6. Published(gauge)
  BY <1>2, <1>3, <1>4, <1>5 DEF Published
<1> QED
  BY <1>1, <1>3, <1>4, <1>6 DEF GaugesInv, GaugeInv

-----------------------------------------------------------------------------
(* Theorems                                                                *)

\* The invariant of the socket pool, for any number of sockets.
THEOREM PoolInvariance == PoolSpec => []PoolInv
<1>1. PoolInv /\ [PoolNext]_poolVars => PoolInv'
  BY NetMovesKeep, BeginServiceKeeps, ServiceKeeps, ResetKeeps, AgePoolKeeps, PoolUnchanged
     DEF PoolNext, ServiceStep
<1> QED
  BY PoolInitially, <1>1, PTL DEF PoolSpec

\* A connection gets at most one response, also when its client sends another
\* request while the first response drains (handle_http_request).
THEOREM OneResponseEach == PoolSpec => []OneResponse
BY PoolInvariance, ResponseOnce, PTL

\* The station, the pool, the place of the loop, its lease and its watchdog agree in
\* every reachable state.
THEOREM LoopInvariance == NetSpec => [](LoopInv /\ WatchInv)
<1>1. NetInit => LoopInv /\ WatchInv
  BY LoopInit, WatchInit
<1>2. (LoopInv /\ WatchInv) /\ [NetNext]_vars => (LoopInv /\ WatchInv)'
  BY LoopStep, WatchStep
<1> QED
  BY <1>1, <1>2, PTL DEF NetSpec

\* Every variable of the loop keeps its type.
THEOREM LoopTypeCorrect == NetSpec => []NetTypeOK
<1>1. LoopInv /\ WatchInv => NetTypeOK
  <2> SUFFICES ASSUME LoopInv, WatchInv PROVE NetTypeOK
    OBVIOUS
  <2>1. dog.cool \in {Never} \cup 0..Cooldown
    BY DEF WatchInv, Watchdog
  <2>2. recAge \in {Never} \cup 0..Cooldown /\ errors \in Seq(0..ErrorWindow + 1)
    BY <2>1 DEF WatchInv, Counted
  <2>3. inTick \in BOOLEAN
    BY Zenon DEF WatchInv
  <2>4. dog \in [cool : {Never} \cup 0..Cooldown, forced : BOOLEAN,
                 stalled : {Never} \cup 0..PoolStalled,
                 idle : {Never} \cup 0..IdleRecovery,
                 errAge : {Never} \cup 0..ErrorWindow + 1,
                 errCount : 0..ErrorThreshold, sampled : BOOLEAN]
    BY Zenon DEF WatchInv, Watchdog
  <2>5. StationTypeOK /\ PoolTypeOK
    BY DEF LoopInv, StationInv, PoolInv
  <2>6. pc \in {"startup", "top", "net", "service", "decide", "tick"}
    BY DEF LoopInv, PlaceInv
  <2> QED
    BY <2>2, <2>3, <2>4, <2>5, <2>6, Zenon DEF NetTypeOK
<1> QED
  BY <1>1, LoopInvariance, PTL

\* HTTP is served only on a lease of the link the loop believes in, and no connection
\* is left where there is no lease.
THEOREM LeaseServed == NetSpec => []ServedOnLease
<1>1. LoopInv => ServedOnLease
  BY DEF LoopInv
<1> QED
  BY <1>1, LoopInvariance, PTL

\* Connect requests keep the shortest pause, over retries, disconnect events and deep
\* recoveries alike, unless the link came up in between.
THEOREM RequestsPaced == NetSpec => ConnectPaced
<1>1. LoopInv /\ [NetNext]_vars => [reqAge' = 0 /\ reqAge # 0 => reqAge = Pace]_vars
  BY LoopStep DEF Paced
<1> QED
  BY <1>1, LoopInvariance, PTL DEF NetSpec, ConnectPaced

\* Forced recoveries keep their distance.
THEOREM RecoveriesApart == NetSpec => RecoveriesSpaced
<1>1. WatchInv /\ [NetNext]_vars => [recAge' = 0 => recAge \in {Never, 0, Cooldown}]_vars
  BY WatchStep DEF Spaced
<1> QED
  BY <1>1, LoopInvariance, PTL DEF NetSpec, RecoveriesSpaced

\* Send errors force a recovery only when the threshold is met within the window.
THEOREM ErrorsJustified == NetSpec => ErrorsJustifyRecovery
<1>1. WatchInv /\ [NetNext]_vars =>
         [~dog.forced /\ dog'.forced =>
              Len(errors') = ErrorThreshold /\ errors'[ErrorThreshold] <= ErrorWindow]_vars
  BY WatchStep DEF Justified
<1> QED
  BY <1>1, LoopInvariance, PTL DEF NetSpec, ErrorsJustifyRecovery

\* Publishing changes nothing about the loop: all of the above holds with the gauges too.
THEOREM GaugesOfLoop == GaugeSpec => NetSpec
<1>1. GaugeInit => NetInit
  BY DEF GaugeInit
<1> QED
  BY <1>1, GaugeStepOfLoop, PTL DEF GaugeSpec, NetSpec

\* What the loop publishes agrees with what it serves.
THEOREM GaugesCorrect == GaugeSpec => []GaugesTruthful
<1>1. GaugesInv => GaugesTruthful
  BY DEF GaugesInv, LoopInv, PlaceInv, GaugeInv, Published, GaugesTruthful
<1> QED
  BY <1>1, GaugesInitially, GaugesStep, PTL DEF GaugeSpec

=============================================================================
