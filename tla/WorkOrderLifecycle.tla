------------------------- MODULE WorkOrderLifecycle -------------------------
(***************************************************************************)
(* What a work order promises to the people who read it: the statuses it   *)
(* goes through, that a closed one stays closed, and that only an order    *)
(* that reports a lost connection is ever closed without a person.         *)
(***************************************************************************)
CONSTANT Orders

VARIABLES
    status,   \* order -> its status, "NONE" before it exists
    outage    \* order -> does it report a lost connection?

Open   == {"OPEN", "ASSIGNED", "IN_PROGRESS"}
Closed == {"RESOLVED", "CANCELLED"}

\* The statuses a person may move an order to.
Moves(s) ==
    IF s = "OPEN" THEN {"ASSIGNED", "CANCELLED"}
    ELSE IF s = "ASSIGNED" THEN {"IN_PROGRESS", "CANCELLED"}
    ELSE IF s = "IN_PROGRESS" THEN {"RESOLVED", "CANCELLED"}
    ELSE {}

Init ==
    /\ status = [o \in Orders |-> "NONE"]
    /\ outage = [o \in Orders |-> FALSE]

Create(o) ==
    /\ status[o] = "NONE"
    /\ status' = [status EXCEPT ![o] = "OPEN"]
    /\ \E b \in BOOLEAN : outage' = [outage EXCEPT ![o] = b]

Move(o) ==
    /\ \E s \in Moves(status[o]) : status' = [status EXCEPT ![o] = s]
    /\ UNCHANGED outage

\* The station of an order that reports an outage is back.
Recover(o) ==
    /\ outage[o] /\ status[o] \in Open
    /\ status' = [status EXCEPT ![o] = "RESOLVED"]
    /\ UNCHANGED outage

Next == \E o \in Orders : Create(o) \/ Move(o) \/ Recover(o)

Spec == Init /\ [][Next]_<<status, outage>>
=============================================================================
