---------------------------- MODULE MCNetworkGauges ----------------------------
(* Small instances of NetworkGauges for TLC. *)
EXTENDS NetworkGauges

MCBackoff == <<2, 3>>
=============================================================================
