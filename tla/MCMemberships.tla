--------------------------- MODULE MCMemberships ----------------------------
(* Instances of Memberships for TLC.                                        *)
EXTENDS Memberships, TLC

CONSTANTS a, b, c

TwoOwners == [p \in People |-> IF p = c THEN "NONE" ELSE "OWNER"]

\* The two owners and the slots are alike.
Alike == Permutations({a, b}) \union Permutations(Slots)
=============================================================================
