---------------------------- MODULE ConnectorLock ----------------------------
(***************************************************************************)
(* What the concurrency guard of RemoteCommandService promises: every      *)
(* connector is a lock, a request may take it only when nobody holds it,   *)
(* and only the holder gives it back.                                      *)
(***************************************************************************)
CONSTANTS Locks,   \* connectors
          Owners   \* requests

VARIABLE holders   \* lock -> the set of its holders

Init == holders = [k \in Locks |-> {}]

Acquire(k, o) ==
    /\ holders[k] = {}
    /\ holders' = [holders EXCEPT ![k] = {o}]

Release(k, o) ==
    /\ holders[k] = {o}
    /\ holders' = [holders EXCEPT ![k] = {}]

Next == \E k \in Locks, o \in Owners : Acquire(k, o) \/ Release(k, o)

Spec == Init /\ [][Next]_holders

TypeOK == holders \in [Locks -> SUBSET Owners]
=============================================================================
