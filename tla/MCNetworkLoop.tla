----------------------------- MODULE MCNetworkLoop -----------------------------
(* Small instances of NetworkLoop for TLC. *)
EXTENDS NetworkLoop

MCAtOnce == <<1>>
=============================================================================
