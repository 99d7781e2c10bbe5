-------------------------- MODULE SessionLifecycle --------------------------
(***************************************************************************)
(* What SessionLifecycleService promises of the charging sessions of a     *)
(* station: statuses move along ALLOWED_TRANSITIONS, a walk of several     *)
(* hops in one write included, and a connector has at most one session     *)
(* that is not terminal.                                                   *)
(***************************************************************************)
CONSTANTS Sessions, Connectors, ConnectorOf

VARIABLE status   \* session -> its status, "NONE" before the row exists

\* The statuses the program writes.  PENDING, AUTHORIZED and STARTING are
\* collapsed into createSession's insert and STOPPING into stopSession's
\* update; nothing outside the tests calls cancelSession or suspends to
\* SUSPENDED.
Live     == {"ACTIVE", "OFFLINE"}
Terminal == {"COMPLETED", "FAILED"}
Status   == {"NONE"} \union Live \union Terminal

Allowed(from, to) ==
    \/ from = "ACTIVE"  /\ to \in {"OFFLINE", "COMPLETED", "FAILED"}
    \/ from = "OFFLINE" /\ to \in {"ACTIVE", "COMPLETED", "FAILED"}

Init == status = [s \in Sessions |-> "NONE"]

Others(s) == {t \in Sessions \ {s} : ConnectorOf[t] = ConnectorOf[s]}

\* A start on a connector without a live session.
Create(s) ==
    /\ status[s] = "NONE"
    /\ \A t \in Others(s) : status[t] \notin Live
    /\ status' = [status EXCEPT ![s] = "ACTIVE"]

\* A start that replaces the OFFLINE session of its connector.
Supersede(old, s) ==
    /\ old \in Others(s)
    /\ status[old] = "OFFLINE" /\ status[s] = "NONE"
    /\ \A t \in Others(s) \ {old} : status[t] \notin Live
    /\ status' = [status EXCEPT ![old] = "FAILED", ![s] = "ACTIVE"]

Transition(s, to) ==
    /\ Allowed(status[s], to)
    /\ status' = [status EXCEPT ![s] = to]

Next ==
    \/ \E s \in Sessions : Create(s) \/ \E to \in Status : Transition(s, to)
    \/ \E old, s \in Sessions : Supersede(old, s)

Spec == Init /\ [][Next]_status

TypeOK == status \in [Sessions -> Status]

\* A connector has at most one session that is not terminal.
OneLivePerConnector ==
    \A s \in Sessions : status[s] \in Live =>
        \A t \in Others(s) : status[t] \notin Live
=============================================================================
