------------------------- MODULE MCChargingSessions -------------------------
(* Instances of ChargingSessions for TLC. *)
EXTENDS ChargingSessions, TLC

CONSTANTS k1, k2, s1, s2, s3, p1, p2

\* All sessions on one connector.
OneConnector == [s \in Sessions |-> k1]

\* Two sessions on the first connector, the third on the second.
TwoAndOne == [s \in Sessions |-> IF s = s3 THEN k2 ELSE k1]
SwapTwo == Permutations({s1, s2})

\* Sound on one connector.
Symmetry == Permutations(Slots) \union Permutations(Sessions)
=============================================================================
