-------------------------- MODULE MCRemoteCommands --------------------------
(* Instances of RemoteCommands for TLC. *)
EXTENDS RemoteCommands

CONSTANTS r1, p1, st1, k1, s1, s2

\* Every connector belongs to the one station.
OneStation == [k \in Connectors |-> st1]
\* Every session is created on the one connector.
OneConnector == [s \in Sessions |-> k1]
=============================================================================
