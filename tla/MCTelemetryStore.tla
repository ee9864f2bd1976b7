-------------------------- MODULE MCTelemetryStore --------------------------
(* Small instances of TelemetryStore for TLC. *)
EXTENDS TelemetryStore

CONSTANTS gate, sensor, relay, alien, mute

\* The sensor and the mute one have no name, both are known by their keys; the alien's
\* key begins as the relay's does.
MCProducers ==
    <<[node |-> sensor, name |-> "", enabled |-> TRUE],
      [node |-> relay, name |-> "relay", enabled |-> TRUE],
      [node |-> mute, name |-> "", enabled |-> TRUE]>>

MCKeyPrefix ==
    [n \in {sensor, relay, alien, mute} |->
        CASE n = sensor -> 1 [] n = mute -> 3 [] OTHER -> 2]
MCAdvertName == [n \in {sensor, relay, alien} |-> IF n = relay THEN "relay" ELSE None]
MCRoute == [n \in {gate, sensor, relay, alien, mute} |-> 1]
MCPublicText ==
    [n \in {gate, sensor, relay, mute} |-> [digits |-> 64, hex |-> TRUE, owner |-> n]]
MCPrivateText == [digits |-> 64, hex |-> TRUE, owner |-> gate]

Entry(channel, type, value) == [channel |-> channel, type |-> type, value |-> value]

\* A key's bytes are any bytes: one reads as more channels than a table has,
\* one as the start of nothing known, one as a temperature behind its fourth byte.
MCAdvertBytes ==
    [n \in {sensor, relay, alien} |->
        CASE n = sensor -> << <<Entry(2, "temperature", 7), Entry(3, "temperature", 7)>>,
                             <<Entry(1, "voltage", 7)>> >>
          [] n = relay  -> << <<Entry(9, "cut", 0)>>, <<Entry(9, "cut", 0)>> >>
          [] OTHER      -> << <<Entry(9, "cut", 0)>>, <<Entry(3, "temperature", 8)>> >>]

MCAnswers ==
    { <<Entry(1, "voltage", 1), Entry(1, "percentage", 1), Entry(2, "temperature", 1)>>,
      <<Entry(3, "temperature", 2), Entry(2, "percentage", 2), Entry(1, "temperature", 1),
        Entry(3, "temperature", 3)>>,
      <<Entry(1, "gps", 0), Entry(1, "temperature", 2), Entry(2, "temperature", 2),
        Entry(3, "temperature", 2), Entry(9, "cut", 0), Entry(2, "voltage", 2)>>,
      <<>> }

MCWireForms ==
    { [segment |-> 0, parts |-> 5, place |-> "none"],
      [segment |-> 1, parts |-> 5, place |-> "none"] }
=============================================================================
