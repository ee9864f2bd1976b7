-------------------------- MODULE MCPollScheduler --------------------------
(***************************************************************************)
(* Small instances of PollScheduler for TLC.  One unit of time stands for  *)
(* five seconds: a poll blocks for 0 (error before the wait) or 3 units    *)
(* (the 15 s of a repeater that times out after its login).                *)
(***************************************************************************)
EXTENDS PollScheduler

MCShortInterval == [p \in Producer |-> 2]
=============================================================================
