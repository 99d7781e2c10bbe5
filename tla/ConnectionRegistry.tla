------------------------- MODULE ConnectionRegistry -------------------------
(***************************************************************************)
(* ConnectionRegistryService: which WebSocket of a charging station is on  *)
(* record, how it is replaced, closed, force-closed and swept when it has  *)
(* been silent too long, and which connectivity events are reported to     *)
(* ConnectivityCoordinator.                                                *)
(*                                                                         *)
(* Every method runs to its end without an await and is one action.  Time  *)
(* is counted in ticks; a station's record carries its age since the last  *)
(* message instead of a timestamp, so behaviours may be unbounded.  What   *)
(* the coordinator does with an event is taken as done at once here:       *)
(* ChargingSessions.tla takes its handlers apart.                          *)
(***************************************************************************)
EXTENDS Naturals

CONSTANTS
    Stations,       \* ocppIdentity
    Sockets,        \* a socket that is closed may be opened again: a new one
    NoSocket,
    Owner,          \* socket -> the station that authenticates on it
    StaleThreshold, \* STALE_THRESHOLD_MS, in ticks
    SweepInterval,  \* SWEEP_INTERVAL_MS, in ticks
    MaxSilence      \* a live peer says something at least this often, in ticks

ASSUME ConstantsAssumption ==
    /\ NoSocket \notin Sockets
    /\ Owner \in [Sockets -> Stations]
    /\ StaleThreshold \in Nat
    /\ SweepInterval \in Nat \ {0}
    /\ MaxSilence \in Nat \ {0}

VARIABLES
    socket,  \* socket -> readyState, "dead" when its peer is gone unnoticed
    record,  \* connections: station -> the socket on file
    age,     \* ticks since lastMessageAt of the record, 0 without one
    due,     \* ticks until sweepTimer fires
    status   \* ChargingStation.connectivityStatus, as last reported

vars == <<socket, record, age, due, status>>

Held == {"open", "dead"}

TypeOK ==
    /\ socket \in [Sockets -> Held \union {"closing", "closed"}]
    /\ record \in [Stations -> Sockets \union {NoSocket}]
    /\ age \in [Stations -> Nat]
    /\ due \in 0..SweepInterval
    /\ status \in [Stations -> {"UNKNOWN", "ONLINE", "OFFLINE"}]

Init ==
    /\ socket = [s \in Sockets |-> "closed"]
    /\ record = [st \in Stations |-> NoSocket]
    /\ age = [st \in Stations |-> 0]
    /\ due = SweepInterval
    /\ status = [st \in Stations |-> "UNKNOWN"]

-----------------------------------------------------------------------------
\* register: the connection on record, if any, is closed and replaced.
Register(s) ==
    /\ socket[s] = "closed"
    /\ socket' = [t \in Sockets |->
                    CASE t = s -> "open"
                      [] t = record[Owner[s]] -> "closing"
                      [] OTHER -> socket[t]]
    /\ record' = [record EXCEPT ![Owner[s]] = s]
    /\ age' = [age EXCEPT ![Owner[s]] = 0]
    /\ status' = [status EXCEPT ![Owner[s]] = "ONLINE"]
    /\ UNCHANGED due

\* An inbound frame: touch goes by identity, so a frame of a socket that is
\* being closed refreshes the record of the one that replaced it.
Touch(s) ==
    /\ socket[s] \in {"open", "closing"}
    /\ age' = [age EXCEPT ![Owner[s]] = 0]
    /\ UNCHANGED <<socket, record, due, status>>

\* Mutant: a close event always removes the station's record.
UnregisterAny(s) ==
    /\ socket[s] # "closed"
    /\ socket' = [socket EXCEPT ![s] = "closed"]
    /\ record' = [record EXCEPT ![Owner[s]] = NoSocket]
    /\ age' = [age EXCEPT ![Owner[s]] = 0]
    /\ status' = [status EXCEPT ![Owner[s]] = "OFFLINE"]
    /\ UNCHANGED due

\* Mutant: a close event is not reported.
UnregisterQuietly(s) ==
    /\ socket[s] # "closed"
    /\ socket' = [socket EXCEPT ![s] = "closed"]
    /\ IF record[Owner[s]] = s
       THEN /\ record' = [record EXCEPT ![Owner[s]] = NoSocket]
            /\ age' = [age EXCEPT ![Owner[s]] = 0]
       ELSE UNCHANGED <<record, age>>
    /\ UNCHANGED <<due, status>>

\* Mutant: the close event of a replaced socket is reported too.
UnregisterReportingAny(s) ==
    /\ socket[s] # "closed"
    /\ socket' = [socket EXCEPT ![s] = "closed"]
    /\ IF record[Owner[s]] = s
       THEN /\ record' = [record EXCEPT ![Owner[s]] = NoSocket]
            /\ age' = [age EXCEPT ![Owner[s]] = 0]
       ELSE UNCHANGED <<record, age>>
    /\ status' = [status EXCEPT ![Owner[s]] = "OFFLINE"]
    /\ UNCHANGED due

\* The close event of a socket, whoever began to close it: unregister.
Unregister(s) ==
    /\ socket[s] # "closed"
    /\ socket' = [socket EXCEPT ![s] = "closed"]
    /\ IF record[Owner[s]] = s
       THEN /\ record' = [record EXCEPT ![Owner[s]] = NoSocket]
            /\ age' = [age EXCEPT ![Owner[s]] = 0]
            /\ status' = [status EXCEPT ![Owner[s]] = "OFFLINE"]
       ELSE UNCHANGED <<record, age, status>>
    /\ UNCHANGED due

\* forceDisconnect, on credential revocation: nothing is reported.
ForceDisconnect(st) ==
    /\ record[st] # NoSocket
    /\ socket' = [socket EXCEPT ![record[st]] = "closing"]
    /\ record' = [record EXCEPT ![st] = NoSocket]
    /\ age' = [age EXCEPT ![st] = 0]
    /\ UNCHANGED <<due, status>>

\* Mutant: >= for >.
StaleTooEarly(st) == record[st] # NoSocket /\ age[st] >= StaleThreshold

Stale(st) == record[st] # NoSocket /\ age[st] > StaleThreshold

\* Mutant: the record is left for the close event to remove.
SweepLeavingRecord ==
    /\ due = 0
    /\ due' = SweepInterval
    /\ socket' = [s \in Sockets |->
                    IF record[Owner[s]] = s /\ Stale(Owner[s])
                    THEN "closing" ELSE socket[s]]
    /\ UNCHANGED <<record, age, status>>

\* Mutant: the record is removed and the socket not closed.
SweepLeavingSocket ==
    /\ due = 0
    /\ due' = SweepInterval
    /\ record' = [st \in Stations |-> IF Stale(st) THEN NoSocket ELSE record[st]]
    /\ age' = [st \in Stations |-> IF Stale(st) THEN 0 ELSE age[st]]
    /\ status' = [st \in Stations |-> IF Stale(st) THEN "OFFLINE" ELSE status[st]]
    /\ UNCHANGED socket

\* sweepStale.
SweepStale ==
    /\ due = 0
    /\ due' = SweepInterval
    /\ socket' = [s \in Sockets |->
                    IF record[Owner[s]] = s /\ Stale(Owner[s])
                    THEN "closing" ELSE socket[s]]
    /\ record' = [st \in Stations |-> IF Stale(st) THEN NoSocket ELSE record[st]]
    /\ age' = [st \in Stations |-> IF Stale(st) THEN 0 ELSE age[st]]
    /\ status' = [st \in Stations |-> IF Stale(st) THEN "OFFLINE" ELSE status[st]]

-----------------------------------------------------------------------------
(* The environment.                                                        *)

\* The peer is gone and TCP does not know.
PeerVanishes(s) ==
    /\ socket[s] = "open"
    /\ socket' = [socket EXCEPT ![s] = "dead"]
    /\ UNCHANGED <<record, age, due, status>>

\* A tick passes; the timer does not fire late, and a live peer on record has
\* kept its heartbeat.
Tick ==
    /\ due > 0
    /\ \A s \in Sockets : socket[s] = "open" => age[Owner[s]] < MaxSilence
    /\ due' = due - 1
    /\ age' = [st \in Stations |-> IF record[st] = NoSocket THEN 0 ELSE age[st] + 1]
    /\ UNCHANGED <<socket, record, status>>

\* Every socket goes with the process; onModuleInit turns ONLINE into UNKNOWN.
Restart ==
    /\ socket' = [s \in Sockets |-> "closed"]
    /\ record' = [st \in Stations |-> NoSocket]
    /\ age' = [st \in Stations |-> 0]
    /\ due' = SweepInterval
    /\ status' = [st \in Stations |->
                    IF status[st] = "ONLINE" THEN "UNKNOWN" ELSE status[st]]

Next ==
    \/ \E s \in Sockets : \/ Register(s) \/ Touch(s) \/ Unregister(s)
                          \/ PeerVanishes(s)
    \/ \E st \in Stations : ForceDisconnect(st)
    \/ SweepStale \/ Tick \/ Restart

Spec == Init /\ [][Next]_vars

\* Time passes, the sweep timer fires, a live peer sends its heartbeats, and
\* the WebSocket library completes a close (its close timeout).
Fairness ==
    /\ WF_vars(Tick) /\ WF_vars(SweepStale)
    /\ \A s \in Sockets : /\ WF_vars(socket[s] = "open" /\ Touch(s))
                          /\ WF_vars(socket[s] = "closing" /\ Unregister(s))

FairSpec == Spec /\ Fairness
-----------------------------------------------------------------------------
\* "Always correct about is a socket open right now": a socket is on file
\* exactly while nobody has begun to close it.  So a station never has two
\* sockets in use, and the late close event of a replaced or swept connection
\* never evicts the one that took its place.
RecordIsOpenSocket ==
    \A s \in Sockets : socket[s] \in Held <=> record[Owner[s]] = s

\* "Somewhere between 300s and 360s after the last inbound message": no record
\* is ever older than the threshold and one sweep interval.
SilenceBounded ==
    \A st \in Stations : age[st] <= StaleThreshold + SweepInterval

\* A station that keeps sending within the threshold -- at the very threshold,
\* the heartbeat interval BootNotification hands out -- is never swept: the
\* server closes its socket only for a new one of the station or at an
\* operator's order, whatever reconnections, restarts and late frames of older
\* sockets there are.
LivePeerKept ==
    [][\A s \in Sockets :
         socket[s] = "open" /\ socket'[s] = "closing" =>
             \/ record'[Owner[s]] \in Sockets \ {s}
             \/ ForceDisconnect(Owner[s])]_vars

\* The last event the coordinator gets of a station is never a loss while the
\* station has a connection: neither the sweep nor a late close event of an
\* older socket reports one after the new connection was.
ConnectedIsOnline ==
    \A st \in Stations : record[st] # NoSocket => status[st] = "ONLINE"

\* Whoever takes a connection off the record -- close event, sweep, restart --
\* leaves no ONLINE behind; only a revocation does.
LossIsReported ==
    [][\A st \in Stations :
         record[st] # NoSocket /\ record'[st] = NoSocket =>
             status'[st] # "ONLINE" \/ ForceDisconnect(st)]_vars

\* A connection whose peer vanished does not stay on file for ever.
DeadIsDetected == \A s \in Sockets : socket[s] = "dead" ~> socket[s] # "dead"

\* "They can lag the registry by up to one sweep interval (60s)": a station that
\* is ONLINE without a connection is so for a while only.
StatusCatchesUp ==
    \A st \in Stations :
        status[st] = "ONLINE" /\ record[st] = NoSocket
        ~> ~(status[st] = "ONLINE" /\ record[st] = NoSocket)
=============================================================================
