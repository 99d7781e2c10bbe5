------------------------------- MODULE Exchange -------------------------------
(***************************************************************************)
(* One station and the server exchange OCPP messages: the station's side   *)
(* is simulator/ocpp-simulator.ts, the server's the WebSocket transport,   *)
(* the router, the adapters of both protocol versions and the handlers.    *)
(*                                                                         *)
(* A call is known by its messageId.  Frames keep their order on a socket; *)
(* every frame starts a handler of its own, taken apart at its awaits, and *)
(* answers leave in the order in which handlers end.  A handler that       *)
(* throws rejects a promise nobody awaits (void this.handleMessage), which *)
(* ends the process; whoever runs it starts it again.  What the station's  *)
(* connector and a transaction look like is kept as far as answers depend  *)
(* on it: ChargingSessions has the sessions in full.  The status of a      *)
(* connector has two writers: StatusNotification and the operator who      *)
(* edits the connector (ConnectorsService.update).                         *)
(***************************************************************************)
EXTENDS Naturals, Sequences, FiniteSets

CONSTANTS
    Calls,           \* messageIds
    Connectors,
    Requests,        \* what the station may call
    Versions,        \* the protocols it may connect with
    Initial,         \* the status an operator has created a connector with
    Edits,           \* the statuses an operator may give it later
    None,
    MaxTx,           \* bound: transactionIds
    MaxMeter,        \* bound: meter readings
    MaxConnections,  \* bound: connections
    MaxRestarts,     \* bound: restarts of the process other than by a handler
    MaxTimeouts,     \* bound: calls that time out
    MaxJobs          \* bound: handlers at the same time

\* connectorId: a connector, 0 for the station itself, or one nobody knows.
Ports == Connectors \union {"station", "unknown"}

\* What a station reports, and what a connector's row holds.
ChargePointStatuses == {"Available", "Preparing", "Charging", "SuspendedEVSE", "SuspendedEV",
                        "Finishing", "Reserved", "Unavailable", "Faulted"}
Statuses == {"AVAILABLE", "OCCUPIED", "CHARGING", "RESERVED", "UNAVAILABLE", "FAULTED", "OFFLINE"}

\* BootNotification and Heartbeat are "boot"; "other" is an action or a shape that is
\* not implemented, "malformed" one whose payload lacks something.
Ops == {"boot", "authorize", "status", "start", "meter", "stop", "other", "malformed"}

Request == [op : Ops, port : Ports, tx : 0..MaxTx, reading : 0..MaxMeter,
            status : ChargePointStatuses]

ASSUME ExchangeAssumption ==
    /\ MaxTx \in Nat /\ MaxMeter \in Nat /\ MaxConnections \in Nat
    /\ MaxRestarts \in Nat /\ MaxTimeouts \in Nat /\ MaxJobs \in Nat
    /\ Requests \subseteq Request
    /\ Initial \in Statuses
    /\ Edits \subseteq Statuses
    /\ Versions \subseteq {"OCPP1_6J", "OCPP2_0_1"}
    /\ None \notin Calls
    /\ None \notin Ports
    /\ None \notin Statuses
    /\ Connectors \cap {"station", "unknown"} = {}

\* A ChargingSession by its protocolTransactionId (port None: there is none).
\* "expired" is OFFLINE beyond the recovery window, "live" any other status that is
\* not terminal; ended: endedAt is set.
Row == [port : Connectors \union {None}, status : {"live", "expired", "over"},
        start : 0..MaxMeter, energy : 0..MaxMeter, ended : BOOLEAN]
NoRow == [port |-> None, status |-> "over", start |-> 0, energy |-> 0, ended |-> FALSE]

\* What became of a call: the promise of OcppSimulator.call.
Outcome == [at : {"unsent", "waiting", "failed", "result", "error"}, tx : 0..MaxTx]

\* An answer of the server: a CALLRESULT or a CALLERROR.
Answered == [at : {"result", "error"}, tx : 0..MaxTx]

\* A handler, and the answer it has for socket.
Job == [at : {"idle", "authorize", "precheck", "create", "lookup", "record", "update",
              "energy", "check", "stop", "report", "answer"},
        socket : 0..MaxConnections, answer : Answered, raced : BOOLEAN]
Idle == [at |-> "idle", socket |-> 0, answer |-> [at |-> "error", tx |-> 0], raced |-> FALSE]

VARIABLES
    made,        \* call -> the request it makes
    outcome,     \* call -> its outcome at the station
    open,        \* the socket is open
    socket,      \* the number of the latest connection
    version,     \* the protocol its adapter speaks
    up, down,    \* frames under way: calls, and answers with their calls
    job,         \* call -> its handler
    rows,        \* transactionId -> its ChargingSession
    counter,     \* TransactionIdGeneratorService
    status,      \* connector -> Connector.status
    suspending,  \* sessions a reconciliation has read and not yet written
    restarts,    \* restarts so far (bounded)
    exits,       \* history: the process ended because a handler threw
    edited,      \* history: connector -> what an operator has set its status to since a
                 \* StatusNotification wrote it last, or None
    latest       \* history: connector -> its latest StatusNotification, and whether it
                 \* was sent while another one was under way

stationVars == <<made, outcome, latest>>
wireVars    == <<open, socket, version, up, down>>
statusVars  == <<status, edited>>
tableVars   == <<rows, counter, statusVars>>
faultVars   == <<suspending, restarts, exits>>
vars == <<stationVars, wireVars, job, tableVars, faultVars>>

Frame == [call : Calls, answer : Answered]

TypeOK ==
    /\ made \in [Calls -> Request]
    /\ outcome \in [Calls -> Outcome]
    /\ open \in BOOLEAN
    /\ socket \in 0..MaxConnections
    /\ version \in {"OCPP1_6J", "OCPP2_0_1"}
    /\ up \in Seq(Calls)
    /\ down \in Seq(Frame)
    /\ job \in [Calls -> Job]
    /\ rows \in [1..MaxTx -> Row]
    /\ counter \in 0..MaxTx
    /\ status \in [Connectors -> Statuses]
    /\ suspending \subseteq 1..MaxTx
    /\ restarts \in 0..MaxRestarts
    /\ exits \in BOOLEAN
    /\ edited \in [Connectors -> Statuses \union {None}]
    /\ latest \in [Connectors -> [call : Calls \union {None}, alone : BOOLEAN]]

----------------------------------------------------------------------------
(* The station. *)

\* TransactionIds the station has been told (0: that of a StartTransaction refused).
Told == {outcome[c].tx : c \in {d \in Calls : outcome[d].at = "result" /\ made[d].op = "start"}}

\* call c is still ahead of its end on the server.
UnderWay(c) == (\E i \in 1..Len(up) : up[i] = c) \/ job[c].at # "idle"

NoneUnderWay(k) ==
    ~ \E c \in Calls : UnderWay(c) /\ made[c].op = "status" /\ made[c].port = k

\* A socket is accepted: handleUpgrade and onConnectionEstablished.
Connect(v) ==
    /\ ~open
    /\ socket < MaxConnections
    /\ open' = TRUE
    /\ socket' = socket + 1
    /\ version' = v
    /\ UNCHANGED <<stationVars, up, down, job, tableVars, faultVars>>

\* The frames under way are lost with the socket.
LoseSocket == open' = FALSE /\ up' = <<>> /\ down' = <<>>

Live == {tx \in 1..MaxTx : rows[tx].port # None /\ rows[tx].status # "over"}

\* The socket closes; the coordinator reads the sessions it is about to suspend.
Disconnect ==
    /\ open
    /\ LoseSocket
    /\ suspending' = suspending \union Live
    /\ UNCHANGED <<stationVars, socket, version, job, tableVars, restarts, exits>>

\* OcppSimulator.call: refused unless the socket is open.
Send(c, r) ==
    /\ open
    /\ outcome[c].at = "unsent"
    /\ r.op \in {"meter", "stop"} => r.tx \in Told
    /\ made' = [made EXCEPT ![c] = r]
    /\ outcome' = [outcome EXCEPT ![c] = [at |-> "waiting", tx |-> 0]]
    /\ up' = Append(up, c)
    /\ IF r.op = "status" /\ r.port \in Connectors
          THEN latest' = [latest EXCEPT ![r.port] = [call |-> c, alone |-> NoneUnderWay(r.port)]]
          ELSE UNCHANGED latest
    /\ UNCHANGED <<open, socket, version, down, job, tableVars, faultVars>>

\* Its response timeout.
CallTimeout(c) ==
    /\ outcome[c].at = "waiting"
    /\ Cardinality({d \in Calls : outcome[d].at = "failed"}) < MaxTimeouts
    /\ outcome' = [outcome EXCEPT ![c] = [at |-> "failed", tx |-> 0]]
    /\ UNCHANGED <<made, latest, wireVars, job, tableVars, faultVars>>

\* Mutant of Pending: any answer settles whatever is pending.
PendingAny(call) == {c \in Calls : outcome[c].at = "waiting"}

\* The call an answer is for, if it is still pending.
Pending(call) == {c \in Calls : c = call /\ outcome[c].at = "waiting"}

\* handleMessage settles it.
ReceiveAnswer ==
    /\ down # <<>>
    /\ down' = Tail(down)
    /\ outcome' = [c \in Calls |-> IF c \in Pending(Head(down).call)
                                     THEN Head(down).answer ELSE outcome[c]]
    /\ UNCHANGED <<made, latest, open, socket, version, up, job, tableVars, faultVars>>

----------------------------------------------------------------------------
(* The server: what a handler does next. *)

Goto(c, at) == job' = [job EXCEPT ![c].at = at]

\* The handler has its answer; what is left is to log it and to send it.
Reply(c, kind, tx) ==
    job' = [job EXCEPT ![c].at = "answer", ![c].answer = [at |-> kind, tx |-> tx]]

\* Where parseInbound and routeByType send a call, and how it is answered if they send
\* it nowhere.
Route(op) == CASE op = "start" -> "authorize"
               [] op \in {"meter", "stop"} -> "lookup"
               [] op = "status" -> "report"
               [] OTHER -> "answer"

Kind(op) == IF op \in {"other", "malformed"} THEN "error" ELSE "result"

\* handleInboundFrame; the adapter of 2.0.1 implements nothing.
Receive ==
    /\ up # <<>>
    /\ Cardinality({c \in Calls : job[c].at # "idle"}) < MaxJobs
    /\ up' = Tail(up)
    /\ LET op == made[Head(up)].op
           known == version = "OCPP1_6J"
       IN job' = [job EXCEPT ![Head(up)] =
                    [at     |-> IF known THEN Route(op) ELSE "answer",
                     socket |-> socket,
                     answer |-> [at |-> IF known THEN Kind(op) ELSE "error", tx |-> 0],
                     raced  |-> FALSE]]
    /\ UNCHANGED <<stationVars, open, socket, version, down, tableVars, faultVars>>

\* The process is gone, with its sockets and everything it was doing.
Gone(n) ==
    /\ LoseSocket
    /\ job' = [c \in Calls |-> Idle]
    /\ suspending' = {}
    /\ counter' = n
    /\ UNCHANGED <<stationVars, socket, version, rows, statusVars>>

\* Where the counter may start: the time modulo 100000.
Starts == {n \in 0..MaxTx : n < MaxTx}

\* A handler throws.
Throw ==
    /\ \E n \in Starts : Gone(n)
    /\ exits' = TRUE
    /\ UNCHANGED restarts

\* A crash or a deployment.
Restart ==
    /\ restarts < MaxRestarts
    /\ restarts' = restarts + 1
    /\ \E n \in Starts : Gone(n)
    /\ UNCHANGED exits

\* The answer goes to the socket the call came from, unless that one is closed.
Answer(c) ==
    /\ job[c].at = "answer"
    /\ job' = [job EXCEPT ![c] = Idle]
    /\ down' = IF open /\ job[c].socket = socket
                 THEN Append(down, [call |-> c, answer |-> job[c].answer]) ELSE down
    /\ UNCHANGED <<stationVars, open, socket, version, up, tableVars, faultVars>>

----------------------------------------------------------------------------
(* StatusNotification. *)

\* The connectors that connectorId p of the station means.
FindConnector(p) == {k \in Connectors : k = p}

\* connectorId 0 is accepted and writes nothing; an unknown connector is rejected.
Report(c) ==
    /\ job[c].at = "report"
    /\ \/ made[c].port = "station" /\ Reply(c, "result", 0)
       \/ made[c].port # "station" /\ FindConnector(made[c].port) = {} /\ Reply(c, "error", 0)
       \/ made[c].port # "station" /\ FindConnector(made[c].port) # {} /\ Goto(c, "check")
    /\ UNCHANGED <<stationVars, wireVars, tableVars, faultVars>>

\* A vehicle that is there and not charging occupies the connector.
MapToConnectorStatus(s) ==
    CASE s = "Available"   -> "AVAILABLE"
      [] s = "Charging"    -> "CHARGING"
      [] s = "Reserved"    -> "RESERVED"
      [] s = "Unavailable" -> "UNAVAILABLE"
      [] s = "Faulted"     -> "FAULTED"
      [] OTHER             -> "OCCUPIED"

WriteStatus(c) ==
    /\ made[c].op = "status" /\ job[c].at = "check"
    /\ \E k \in FindConnector(made[c].port) :
          /\ status' = [status EXCEPT ![k] = MapToConnectorStatus(made[c].status)]
          /\ edited' = [edited EXCEPT ![k] = None]
    /\ Reply(c, "result", 0)
    /\ UNCHANGED <<stationVars, wireVars, rows, counter, faultVars>>

\* ConnectorsService.update with a status: written over whatever is there.  The form of
\* movos-web sends one with every edit, the one it was opened with unless it was changed.
UpdateConnector(k, s) ==
    /\ edited[k] # s    \* setting it once more changes nothing
    /\ status' = [status EXCEPT ![k] = s]
    /\ edited' = [edited EXCEPT ![k] = s]
    /\ UNCHANGED <<stationVars, wireVars, job, rows, counter, faultVars>>

(* StartTransaction. *)

\* The attempt is recorded, and refused for an unknown connector or by the credential.
Authorize(c) ==
    /\ job[c].at = "authorize"
    /\ \/ Reply(c, "result", 0)
       \/ FindConnector(made[c].port) # {} /\ Goto(c, "precheck")
    /\ UNCHANGED <<stationVars, wireVars, tableVars, faultVars>>

\* Sessions of connector k that are not terminal: findFirst returns any of them.  One that
\* occupies the connector is returned, one that is superseded is ended.
NonTerminal(k) == {tx \in 1..MaxTx : rows[tx].port = k /\ rows[tx].status # "over"}
Occupying(k)   == {tx \in NonTerminal(k) : rows[tx].status = "live"}
Superseded(k)  == {tx \in NonTerminal(k) : rows[tx].status = "expired"}

\* createSession goes on to create, and ends what it has found.
GoesOn(k, found) == IF NonTerminal(k) = {} THEN found = {} ELSE \E tx \in Superseded(k) : found = {tx}

Precheck(c) ==
    /\ job[c].at = "precheck"
    /\ \/ (\E found \in SUBSET (1..MaxTx) : GoesOn(made[c].port, found)) /\ Goto(c, "create")
       \/ \E tx \in Occupying(made[c].port) : Reply(c, "result", tx)
    /\ UNCHANGED <<stationVars, wireVars, tableVars, faultVars>>

\* Mutant of Unused: without the index.
UnusedAny(tx) == TRUE

\* The unique index on the station's transactionIds lets tx in.
Unused(tx) == rows[tx].port = None

\* The transaction of createSession finds a session of the connector.
CreateExisting(c) ==
    /\ job[c].at = "create"
    /\ \E tx \in Occupying(made[c].port) : Reply(c, "result", tx)
    /\ UNCHANGED <<stationVars, wireVars, tableVars, faultVars>>

\* It finds none that still counts, and inserts one; whatever transaction is open beside
\* it may now fail to serialize.
CreateInserts(c, found) ==
    /\ job[c].at = "create"
    /\ GoesOn(made[c].port, found)
    /\ counter < MaxTx
    /\ Unused(counter + 1)
    /\ counter' = counter + 1
    /\ rows' = [tx \in 1..MaxTx |->
                  IF tx = counter + 1
                    THEN [port |-> made[c].port, status |-> "live",
                          start |-> made[c].reading, energy |-> 0, ended |-> FALSE]
                    ELSE IF tx \in found
                           THEN [rows[tx] EXCEPT !.status = "over", !.ended = TRUE]
                           ELSE rows[tx]]
    /\ job' = [d \in Calls |->
                 IF d = c THEN [job[c] EXCEPT !.at = "answer", !.raced = FALSE,
                                              !.answer = [at |-> "result", tx |-> counter + 1]]
                 ELSE IF job[d].at = "create" THEN [job[d] EXCEPT !.raced = TRUE] ELSE job[d]]
    /\ UNCHANGED <<stationVars, wireVars, statusVars, faultVars>>

\* A serialization failure, or an identifier of an earlier process come again.
CreateThrows(c) ==
    /\ job[c].at = "create"
    /\ \/ job[c].raced
       \/ /\ \E found \in SUBSET (1..MaxTx) : GoesOn(made[c].port, found)
          /\ counter < MaxTx /\ ~Unused(counter + 1)
    /\ Throw

(* MeterValues and StopTransaction. *)

\* Mutant of AlreadyOver: whatever is not live is taken for ended.
AlreadyOffline(tx) == rows[tx].status # "live"

\* The sessions a transactionId of the station finds, and those a stop finds ended.
Found(tx)       == {t \in 1..MaxTx : t = tx /\ rows[t].port # None}

AlreadyOver(tx) == rows[tx].status = "over"

\* An unknown transaction is rejected, which is answered like anything else.
Lookup(c) ==
    /\ job[c].at = "lookup"
    /\ \/ Found(made[c].tx) = {} /\ Reply(c, "result", 0)
       \/ \E tx \in Found(made[c].tx) :
             \/ made[c].op = "meter" /\ Goto(c, "record")
             \/ made[c].op = "stop" /\ AlreadyOver(tx) /\ Reply(c, "result", 0)
             \/ made[c].op = "stop" /\ ~AlreadyOver(tx) /\ Goto(c, "check")
    /\ UNCHANGED <<stationVars, wireVars, tableVars, faultVars>>

\* MeterValuesService.record: only a reading above the last known energy goes further.
Record(c) ==
    /\ job[c].at = "record"
    /\ IF made[c].reading > rows[made[c].tx].energy THEN Goto(c, "update") ELSE Reply(c, "result", 0)
    /\ UNCHANGED <<stationVars, wireVars, tableVars, faultVars>>

\* updateEnergy refuses a terminal session.
UpdateEnergy(c) ==
    /\ job[c].at = "update"
    /\ \/ rows[made[c].tx].status = "over" /\ Throw
       \/ /\ rows[made[c].tx].status # "over"
          /\ Goto(c, "energy")
          /\ UNCHANGED <<stationVars, wireVars, tableVars, faultVars>>

\* Any update sets updatedAt, from which the recovery window is measured.
Refreshed(at) == IF at = "expired" THEN "live" ELSE at

WriteEnergy(c) ==
    /\ job[c].at = "energy"
    /\ LET tx == made[c].tx IN
       rows' = [rows EXCEPT ![tx].energy = made[c].reading,
                            ![tx].status = Refreshed(rows[tx].status)]
    /\ Reply(c, "result", 0)
    /\ UNCHANGED <<stationVars, wireVars, counter, statusVars, faultVars>>

\* stopSession refuses a terminal session.
StopSession(c) ==
    /\ made[c].op = "stop" /\ job[c].at = "check"
    /\ \/ rows[made[c].tx].status = "over" /\ Throw
       \/ /\ rows[made[c].tx].status # "over"
          /\ Goto(c, "stop")
          /\ UNCHANGED <<stationVars, wireVars, tableVars, faultVars>>

\* The energy is what the meter has gained, at least 0.
Gain(from, to) == IF to > from THEN to - from ELSE 0

WriteStop(c) ==
    /\ job[c].at = "stop"
    /\ rows' = [rows EXCEPT ![made[c].tx].status = "over", ![made[c].tx].ended = TRUE,
                            ![made[c].tx].energy = Gain(rows[made[c].tx].start, made[c].reading)]
    /\ Reply(c, "result", 0)
    /\ UNCHANGED <<stationVars, wireVars, counter, statusVars, faultVars>>

(* The connectivity coordinator. *)

\* A session read when the socket closed is written OFFLINE now, whatever became of it
\* since (suspendSession may have read it before, too).
Suspend(tx) ==
    /\ tx \in suspending
    /\ suspending' = suspending \ {tx}
    /\ rows' = [rows EXCEPT ![tx].status = "live"]
    /\ UNCHANGED <<stationVars, wireVars, job, counter, statusVars, restarts, exits>>

\* suspendSession finds it over, or the reconciliation has failed before it got there.
SuspendNot(tx) ==
    /\ tx \in suspending
    /\ suspending' = suspending \ {tx}
    /\ UNCHANGED <<stationVars, wireVars, job, tableVars, restarts, exits>>

\* The recovery window of a session that is OFFLINE runs out, with a socket that is open or
\* not; before any socket was closed, no session is OFFLINE.
Expire(tx) ==
    /\ ~open \/ socket > 1
    /\ rows[tx].port # None
    /\ rows[tx].status = "live"
    /\ rows' = [rows EXCEPT ![tx].status = "expired"]
    /\ UNCHANGED <<stationVars, wireVars, job, counter, statusVars, faultVars>>

----------------------------------------------------------------------------
NoRequest == [op |-> "boot", port |-> "station", tx |-> 0, reading |-> 0, status |-> "Available"]

Init ==
    /\ made = [c \in Calls |-> NoRequest]
    /\ outcome = [c \in Calls |-> [at |-> "unsent", tx |-> 0]]
    /\ open = FALSE
    /\ socket = 0
    /\ version = "OCPP1_6J"
    /\ up = <<>>
    /\ down = <<>>
    /\ job = [c \in Calls |-> Idle]
    /\ rows = [tx \in 1..MaxTx |-> NoRow]
    /\ counter \in Starts
    /\ status = [k \in Connectors |-> Initial]
    /\ edited = [k \in Connectors |-> Initial]
    /\ suspending = {}
    /\ restarts = 0
    /\ exits = FALSE
    /\ latest = [k \in Connectors |-> [call |-> None, alone |-> TRUE]]

Handle(c) ==
    \/ Report(c) \/ WriteStatus(c)
    \/ Authorize(c) \/ Precheck(c) \/ CreateExisting(c) \/ CreateThrows(c)
    \/ \E found \in SUBSET (1..MaxTx) : CreateInserts(c, found)
    \/ Lookup(c) \/ Record(c) \/ UpdateEnergy(c) \/ WriteEnergy(c)
    \/ StopSession(c) \/ WriteStop(c)
    \/ Answer(c)

Next ==
    \/ \E v \in Versions : Connect(v)
    \/ Disconnect \/ Receive \/ ReceiveAnswer \/ Restart
    \/ \E c \in Calls : \E r \in Requests : Send(c, r)
    \/ \E c \in Calls : CallTimeout(c) \/ Handle(c)
    \/ \E k \in Connectors : \E s \in Edits : UpdateConnector(k, s)
    \/ \E tx \in 1..MaxTx : Suspend(tx) \/ SuspendNot(tx) \/ Expire(tx)

Spec == Init /\ [][Next]_vars

----------------------------------------------------------------------------
(* Properties. *)

\* A station that was told a transactionId for its StartTransaction can rely on it: there
\* is a session by that number, on the connector the station named, after any restart and
\* whatever other calls it had under way.
AnsweredStartStands ==
    \A c \in Calls :
        (outcome[c].at = "result" /\ made[c].op = "start" /\ outcome[c].tx # 0)
            => rows[outcome[c].tx].port = made[c].port

\* A station whose StopTransaction was answered is rid of it: the session has its end.
AnsweredStopStands ==
    \A c \in Calls :
        (outcome[c].at = "result" /\ made[c].op = "stop" /\ made[c].tx # 0)
            => rows[made[c].tx].ended

\* The latest StatusNotification of connector k is answered with a result.
Accepted(k) == latest[k].call # None /\ outcome[latest[k].call].at = "result"

\* What connector k shows if nobody but an operator has written it since notification c.
LastWritten(k, c) == IF edited[k] = None THEN MapToConnectorStatus(made[c].status) ELSE edited[k]

\* Once the latest StatusNotification of a connector is answered, the connector has the
\* status it reported, or the one an operator has set after it was written: neither an
\* older report nor an edit from before it comes back.  Not claimed of one that was sent
\* while an earlier one was still under way, since two handlers may write in either order.
StatusFollows ==
    \A k \in Connectors :
        latest[k].alone /\ Accepted(k) => status[k] = LastWritten(k, latest[k].call)

(* In no run; README.md says how these two fail. *)

\* Connector.status is the "current believed state" (CAP-003, Decision 5): an edit of the
\* connector overwrites what was reported, since it comes with a status (UpdateConnector).
ReportStands ==
    \A k \in Connectors :
        latest[k].alone /\ Accepted(k)
            => status[k] = MapToConnectorStatus(made[latest[k].call].status)

\* The connector shows the newest of the reports, those that were sent together included:
\* the handler of the older one may write last.
NewestReportStands ==
    \A k \in Connectors : Accepted(k) => status[k] = LastWritten(k, latest[k].call)

\* "the connection itself must not be penalized for a device reporting on a transaction
\* MOVOS doesn't (or no longer) recognizes" (TransactionUpdateHandler): no call of a
\* station ends the process and everybody's connection.
NotPenalized == ~exits
==============================================================================
