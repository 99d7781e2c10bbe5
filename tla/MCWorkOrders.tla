---------------------------- MODULE MCWorkOrders ----------------------------
(* Instances of WorkOrders for TLC.                                         *)
EXTENDS WorkOrders

CONSTANTS s1, s2, o1, o2, o3

OneStation  == [o \in Orders |-> s1]
TwoStations == [o \in Orders |-> IF o = o3 THEN s2 ELSE s1]
=============================================================================
