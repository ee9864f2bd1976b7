---------------------------- MODULE PollExchange ----------------------------
(***************************************************************************)
(* What polling a producer promises (3_RADIO_MESHCORE.md): one exchange    *)
(* with one producer at a time; it ends with the producer's answer to a    *)
(* request of this very exchange, or with a failure; and it does end.      *)
(***************************************************************************)
EXTENDS Naturals

CONSTANTS Producers, Nobody

VARIABLES
    asked,  \* the producer whose exchange is under way, or Nobody
    turn,   \* number of exchanges begun
    known   \* known[p]: exchange that supplied p's active telemetry; 0: none

exchangeVars == <<asked, turn, known>>

ExchangeInit ==
    /\ asked = Nobody
    /\ turn = 0
    /\ known = [p \in Producers |-> 0]

Ask(p) ==
    /\ asked = Nobody
    /\ asked' = p
    /\ turn' = turn + 1
    /\ UNCHANGED known

\* An exchange that cannot even be begun fails at once.
Refused ==
    /\ asked = Nobody
    /\ turn' = turn + 1
    /\ UNCHANGED <<asked, known>>

Answered ==
    /\ asked # Nobody
    /\ known' = [known EXCEPT ![asked] = turn]
    /\ asked' = Nobody
    /\ UNCHANGED turn

GivenUp ==
    /\ asked # Nobody
    /\ asked' = Nobody
    /\ UNCHANGED <<turn, known>>

ExchangeNext ==
    \/ \E p \in Producers : Ask(p)
    \/ Refused
    \/ Answered
    \/ GivenUp

ExchangeSafety == ExchangeInit /\ [][ExchangeNext]_exchangeVars

ExchangeSpec == ExchangeSafety /\ WF_exchangeVars(Answered \/ GivenUp)
=============================================================================
