--------------------------- MODULE MCMeshcorePoll ---------------------------
(* Small instances of MeshcorePoll for TLC. *)
EXTENDS MeshcorePoll

CONSTANTS rep, comp, badkey, alien

\* The stranger's path hash is that of the repeater.
MCRoute ==
    [n \in {Gateway, rep, comp, badkey, alien} |->
        CASE n \in {rep, alien} -> 1 [] n \in {comp, badkey} -> 2 [] OTHER -> 3]

\* Keys of 32 bytes, but for the one that lost a digit.
MCPublicText ==
    [n \in {Gateway, rep, comp, badkey} |->
        [digits |-> IF n = badkey THEN 63 ELSE 64, hex |-> TRUE, owner |-> n]]
MCPrivateText == [digits |-> 128, hex |-> TRUE, owner |-> Gateway]
=============================================================================
