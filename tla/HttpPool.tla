-------------------------------- MODULE HttpPool -------------------------------
(***************************************************************************)
(* The fixed pool of HTTP sockets (service_http_once of wifi.rs) over TCP  *)
(* sockets that only move while poll_network runs.  Requests are read in   *)
(* the order of the pool; while one response is sent, every socket of the  *)
(* pool goes on moving.                                                    *)
(***************************************************************************)
EXTENDS Integers, FiniteSets

CONSTANTS
    N,       \* HTTP_SOCKET_COUNT
    Clients, \* the sockets on which clients connect
    Stall    \* HTTP_SOCKET_STALL_MS and HTTP_SOCKET_CLOSE_GRACE_MS

ASSUME PoolAssumption == {N, Stall} \subseteq Nat \ {0} /\ Clients \subseteq 1..N

Sockets == 1..N
Never == -1

TcpStates == {"closed", "listen", "syn", "established", "close wait",
              "fin wait", "closing", "time wait"}
Active == TcpStates \ {"closed", "listen", "time wait"}
Open == Active \cup {"listen"}
MaySend == {"established", "close wait"}
MayReceive == {"established", "fin wait"}

VARIABLES
    tcp,      \* state of each socket
    rx,       \* unread bytes: none, a part of a request, or up to its end
    partial,  \* request_lens # 0
    since,    \* socket_active_since_ms, as an age
    connAge,  \* history: age of the connection a socket holds
    served,   \* history: the connection got its response
    cur,      \* socket whose request is read or answered, 0 outside
    phase     \* what service_http_once is at

poolVars == <<tcp, rx, partial, since, connAge, served, cur, phase>>

Older(age) == IF age = Never \/ age = Stall THEN age ELSE age + 1

PoolTypeOK ==
    /\ tcp \in [Sockets -> TcpStates]
    /\ rx \in [Sockets -> {"none", "part", "full"}]
    /\ partial \in [Sockets -> BOOLEAN]
    /\ served \in [Sockets -> BOOLEAN]
    /\ since \in [Sockets -> {Never} \cup 0..Stall]
    /\ connAge \in [Sockets -> {Never} \cup 0..Stall]
    /\ cur \in 0..N + 1
    /\ phase \in {"idle", "read", "send", "drain"}
    /\ phase = "idle" <=> cur = 0

PoolInit ==
    /\ tcp = [s \in Sockets |-> "closed"]
    /\ rx = [s \in Sockets |-> "none"]
    /\ partial = [s \in Sockets |-> FALSE]
    /\ served = [s \in Sockets |-> FALSE]
    /\ since = [s \in Sockets |-> Never]
    /\ connAge = [s \in Sockets |-> Never]
    /\ cur = 0 /\ phase = "idle"

\* Time passes between two services and while a response is sent.
AgePool ==
    /\ phase # "read"
    /\ since' = [s \in Sockets |-> Older(since[s])]
    /\ connAge' = [s \in Sockets |-> Older(connAge[s])]
    /\ UNCHANGED <<tcp, rx, partial, served, cur, phase>>

-----------------------------------------------------------------------------
(* What clients and the TCP stack do in poll_network.                      *)

Connection(s) ==
    /\ s \in Clients /\ tcp[s] = "listen"
    /\ tcp' = [tcp EXCEPT ![s] = "syn"]
    /\ connAge' = [connAge EXCEPT ![s] = 0]
    /\ served' = [served EXCEPT ![s] = FALSE]
    /\ UNCHANGED <<rx, partial, since, cur, phase>>

\* The three-way handshake ends, or the client takes its SYN back.
Handshake(s) ==
    /\ tcp[s] = "syn"
    /\ \E next \in {"established", "listen"} : tcp' = [tcp EXCEPT ![s] = next]
    /\ UNCHANGED <<rx, partial, since, connAge, served, cur, phase>>

Data(s, bytes) ==
    /\ tcp[s] \in MayReceive /\ rx[s] # "full"
    /\ rx' = [rx EXCEPT ![s] = bytes]
    /\ UNCHANGED <<tcp, partial, since, connAge, served, cur, phase>>

\* The client closes its side, or acknowledges that ours is closed.
PeerMoves(s) ==
    /\ \E next \in CASE tcp[s] = "established" -> {"close wait"}
                     [] tcp[s] = "fin wait" -> {"closing", "time wait"}
                     [] tcp[s] = "closing" -> {"time wait", "closed"}
                     [] tcp[s] = "time wait" -> {"closed"}
                     [] OTHER -> {} :
          tcp' = [tcp EXCEPT ![s] = next]
    /\ UNCHANGED <<rx, partial, since, connAge, served, cur, phase>>

\* A reset by the client, or the five-second TCP timeout.
Lost(s) ==
    /\ tcp[s] \in Active \ {"syn"}
    /\ tcp' = [tcp EXCEPT ![s] = "closed"]
    /\ UNCHANGED <<rx, partial, since, connAge, served, cur, phase>>

\* poll_network runs before a service and while a response is sent.
NetMoves ==
    /\ phase # "read"
    /\ \E s \in Sockets :
          \/ Connection(s) \/ Handshake(s) \/ PeerMoves(s) \/ Lost(s)
          \/ \E bytes \in {"part", "full"} : Data(s, bytes)

-----------------------------------------------------------------------------
(* service_http_once                                                       *)

StillPartial(s) == partial[s] /\ tcp[s] \in Active

\* get_or_insert
Since(s) == IF since[s] = Never THEN 0 ELSE since[s]

\* Changed: a socket is never too old.
TooOldNever(s) == tcp[s] = "time wait" /\ Since(s) >= Stall

TooOld(s) == tcp[s] \notin {"closed", "listen"} /\ Since(s) >= Stall

\* clear_partial_requests_if_idle, recycle_stale_http_sockets and
\* ensure_listening.  A socket in time wait counts as not open: it listens
\* again and keeps its age.
BeginService ==
    LET idle(s) == tcp[s] \in {"closed", "listen"} \/ TooOld(s)
        reopened(s) == tcp[s] \notin Open \/ TooOld(s)
    IN /\ phase = "idle" /\ phase' = "read"
       /\ partial' = [s \in Sockets |-> StillPartial(s) /\ ~idle(s)]
       /\ since' = [s \in Sockets |-> IF idle(s) THEN Never ELSE Since(s)]
       /\ tcp' = [s \in Sockets |-> IF reopened(s) THEN "listen" ELSE tcp[s]]
       /\ rx' = [s \in Sockets |-> IF reopened(s) THEN "none" ELSE rx[s]]
       /\ connAge' = [s \in Sockets |-> IF reopened(s) THEN Never ELSE connAge[s]]
       /\ served' = [s \in Sockets |-> served[s] /\ ~reopened(s)]
       /\ cur' = 1

\* read_request: the headers are complete, or no more can come.
Complete(s) ==
    \/ rx[s] = "full"
    \/ rx[s] = "part" /\ tcp[s] \notin MayReceive

Reading == phase = "read" /\ cur \in Sockets
NextSocket == phase' = "read" /\ cur' = cur + 1

ReadNothing ==
    /\ Reading /\ rx[cur] = "none"
    /\ NextSocket
    /\ UNCHANGED <<tcp, rx, partial, since, connAge, served>>

\* Changed: every byte renews the age of its socket.
ReadPartRenewing ==
    /\ Reading /\ rx[cur] = "part" /\ ~Complete(cur)
    /\ partial' = [partial EXCEPT ![cur] = TRUE]
    /\ rx' = [rx EXCEPT ![cur] = "none"]
    /\ since' = [since EXCEPT ![cur] = 0]
    /\ NextSocket
    /\ UNCHANGED <<tcp, connAge, served>>

ReadPart ==
    /\ Reading /\ rx[cur] = "part" /\ ~Complete(cur)
    /\ partial' = [partial EXCEPT ![cur] = TRUE]
    /\ rx' = [rx EXCEPT ![cur] = "none"]
    /\ NextSocket
    /\ UNCHANGED <<tcp, since, connAge, served>>

\* A request is complete: routed, checked for its token, rendered, and for
\* /poll counted, all before the first byte of the response.
BeginResponse ==
    /\ Reading /\ Complete(cur)
    /\ partial' = [partial EXCEPT ![cur] = FALSE]
    /\ rx' = [rx EXCEPT ![cur] = "none"]
    /\ since' = [since EXCEPT ![cur] = 0]
    /\ phase' = "send"
    /\ UNCHANGED <<tcp, connAge, served, cur>>

\* Changed: the socket is left open for another request.
FinishResponseOpen ==
    /\ phase = "send" /\ tcp[cur] \in MaySend
    /\ served' = [served EXCEPT ![cur] = TRUE]
    /\ phase' = "drain"
    /\ UNCHANGED <<tcp, rx, partial, since, connAge, cur>>

\* send_all returned Ok for every piece, and finish_response closes.
FinishResponse ==
    /\ phase = "send" /\ tcp[cur] \in MaySend
    /\ tcp' = [tcp EXCEPT ![cur] = IF @ = "established" THEN "fin wait" ELSE "closing"]
    /\ served' = [served EXCEPT ![cur] = TRUE]
    /\ phase' = "drain"
    /\ UNCHANGED <<rx, partial, since, connAge, cur>>

\* handle_http_request returns Ok when the close is through or 500 polls went by.
ResponseDone ==
    /\ phase = "drain"
    /\ since' = [since EXCEPT ![cur] = IF tcp[cur] \in Open THEN 0 ELSE Never]
    /\ NextSocket
    /\ UNCHANGED <<tcp, rx, partial, connAge, served>>

\* It returns an error - the socket cannot send any more, takes no byte for
\* HTTP_SEND_IDLE_POLLS, or the response does not fit its buffer.
AbortResponse ==
    /\ phase = "send"
    /\ tcp' = [tcp EXCEPT ![cur] = "closed"]
    /\ since' = [since EXCEPT ![cur] = Never]
    /\ NextSocket
    /\ UNCHANGED <<rx, partial, connAge, served>>

ServiceDone ==
    /\ phase = "read" /\ cur = N + 1
    /\ phase' = "idle" /\ cur' = 0
    /\ UNCHANGED <<tcp, rx, partial, since, connAge, served>>

ReadOn == ReadNothing \/ ReadPart

\* reset_http_sockets.  What a socket has not read is dropped when it listens
\* again, before anybody reads it.
ResetSockets ==
    /\ phase = "idle"
    /\ tcp' = [s \in Sockets |-> "closed"]
    /\ partial' = [s \in Sockets |-> FALSE]
    /\ since' = [s \in Sockets |-> Never]
    /\ connAge' = [s \in Sockets |-> Never]
    /\ served' = [s \in Sockets |-> FALSE]
    /\ rx' = [s \in Sockets |-> "none"]
    /\ UNCHANGED <<cur, phase>>

ActiveSockets == {s \in Sockets : tcp[s] \in Active}
Listening == {s \in Sockets : tcp[s] = "listen"}

-----------------------------------------------------------------------------
(* The pool on its own: services follow each other, and the link may take  *)
(* everything away between two of them.                                    *)

ServiceStep ==
    BeginService \/ ReadOn \/ BeginResponse \/ FinishResponse \/ ResponseDone
    \/ AbortResponse \/ ServiceDone

PoolNext == ServiceStep \/ ResetSockets \/ NetMoves \/ AgePool

PoolSpec == PoolInit /\ [][PoolNext]_poolVars

\* The loop serves the pool and time passes; clients and the link owe nothing.
PoolFairSpec == PoolSpec /\ WF_poolVars(ServiceStep) /\ SF_poolVars(AgePool)

-----------------------------------------------------------------------------
(* Properties                                                              *)

\* A connection gets at most one response, also when its client sends more
\* requests while the first response drains (handle_http_request).
OneResponse == phase = "send" /\ tcp[cur] \in MaySend => ~served[cur]

\* Every socket listens again and again: no client can keep one for good,
\* whatever it sends or leaves unanswered (recycle_stale_http_sockets).
SocketsListenAgain == \A s \in Sockets : []<>(tcp[s] = "listen")

\* When clients stop opening connections, no socket stays active, and with it the
\* scheduler deferred: the loop runs it only while no client is being served.
PoolGoesIdle ==
    <>[](\A s \in Sockets : tcp[s] # "syn") => []<>(phase = "idle" /\ ActiveSockets = {})

=============================================================================
