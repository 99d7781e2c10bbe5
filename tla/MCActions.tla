------------------------------ MODULE MCActions ------------------------------
(* Instances of Actions for TLC.                                            *)
EXTENDS Actions, TLC

\* Pages are alike, and so are stations.
Alike == Permutations(Pages) \union Permutations(Stations)
=============================================================================
