-------------------------- MODULE ChargingSessions --------------------------
(***************************************************************************)
(* The charging sessions of one station: the handlers of StartTransaction, *)
(* MeterValues and StopTransaction with the SessionLifecycleService and    *)
(* MeterValuesService methods they call, and the ConnectivityCoordinator   *)
(* that moves sessions OFFLINE and back when the station's socket closes   *)
(* and reopens.                                                            *)
(*                                                                         *)
(* Each handler is a coroutine that reads rows, decides, and later writes  *)
(* `where id`: the write does not look at the status again.  One action is *)
(* the code between two awaits with the database statement that ends it.   *)
(* Handlers run in Slots, which bounds how many are under way together:    *)
(* with one slot they are sequential.                                      *)
(***************************************************************************)
EXTENDS Naturals

CONSTANTS
    Connectors,    \* of the station
    Sessions,      \* rows that may come to exist
    NoSession,     \* the result of a findFirst that finds nothing
    ConnectorOf,   \* session -> connector
    Slots,         \* bound: handlers running at the same time
    Triggers,      \* which handlers start: "start", "meter", "stop", "connect", "close"
    MaxMeter,      \* bound: the reading of an energy register
    MeterResets,   \* may a register fall back to 0 (a replaced meter)?
    MaxClock,      \* bound: the clock, in ticks
    Window,        \* OFFLINE_RECOVERY_WINDOW_MS, in ticks
    MaxRestarts    \* bound: process restarts

ASSUME ConstantsAssumption ==
    /\ Connectors # {}
    /\ NoSession \notin Sessions
    /\ ConnectorOf \in [Sessions -> Connectors]
    /\ Triggers \subseteq {"start", "meter", "stop", "connect", "close"}
    /\ MaxMeter \in Nat /\ MaxClock \in Nat /\ Window \in Nat /\ MaxRestarts \in Nat
    /\ MeterResets \in BOOLEAN

-----------------------------------------------------------------------------
(* Types.                                                                  *)

Live     == {"ACTIVE", "OFFLINE"}
Terminal == {"COMPLETED", "FAILED"}
Status   == {"NONE"} \union Live \union Terminal

Reading == 0..MaxMeter

\* A ChargingSession row; `updated` is updatedAt.
Row == [status : Status, energy : Reading, start : Reading, stop : Reading,
        updated : 0..MaxClock]

NoRow == [status |-> "NONE", energy |-> 0, start |-> 0, stop |-> 0, updated |-> 0]

\* A running handler: what it is for, where it is suspended, the connector,
\* session and reading it works on, the snapshot it decided on, and the
\* sessions a disconnect has still to reconcile.
Job == [op : {"idle", "start", "meter", "stop", "connect", "close"},
        at : {"first", "station", "check", "read", "write"},
        k : Connectors, s : Sessions \union {NoSession}, m : Reading,
        seen : Row, todo : SUBSET Sessions]

VARIABLES
    row,      \* the ChargingSession table
    station,  \* ChargingStation.connectivityStatus
    job,      \* slot -> running handler
    socket,   \* is the charger's socket open?
    meter,    \* connector -> its energy register
    clock,
    restarts

vars == <<row, station, job, socket, meter, clock, restarts>>

Idle == [op |-> "idle", at |-> "first", k |-> CHOOSE k \in Connectors : TRUE,
         s |-> NoSession, m |-> 0, seen |-> NoRow, todo |-> {}]

TypeOK ==
    /\ row \in [Sessions -> Row]
    /\ station \in {"ONLINE", "OFFLINE", "UNKNOWN"}
    /\ job \in [Slots -> Job]
    /\ socket \in BOOLEAN
    /\ meter \in [Connectors -> Reading]
    /\ clock \in 0..MaxClock
    /\ restarts \in 0..MaxRestarts

Init ==
    /\ row = [s \in Sessions |-> NoRow]
    /\ station = "UNKNOWN"
    /\ job = [p \in Slots |-> Idle]
    /\ socket = FALSE
    /\ meter = [k \in Connectors |-> 0]
    /\ clock = 0
    /\ restarts = 0

-----------------------------------------------------------------------------
(* Helpers.                                                                *)

Running(p, op, at) == job[p].op = op /\ job[p].at = at

Continue(p, j) == job' = [job EXCEPT ![p] = j]
Finish(p) == Continue(p, Idle)

LiveOn(k) == {s \in Sessions : ConnectorOf[s] = k /\ row[s].status \in Live}

\* isOfflineSessionRecoverable, on a row object read earlier.
Recoverable(r) == r.status = "OFFLINE" /\ clock - r.updated <= Window

\* assertTransitionAllowed on the row object the caller holds.
Allowed(from, to) ==
    \/ from = "ACTIVE"  /\ to \in {"OFFLINE", "COMPLETED", "FAILED"}
    \/ from = "OFFLINE" /\ to \in {"ACTIVE", "COMPLETED", "FAILED"}

\* update where id: only the named columns, and updatedAt.
SetStatus(s, to) ==
    row' = [row EXCEPT ![s].status = to, ![s].updated = clock]

\* The handlers run for a socket that is open when the frame arrives.
Arrives(p, op) == job[p] = Idle /\ op \in Triggers

-----------------------------------------------------------------------------
(* StartTransaction: createSession.                                        *)

ReceiveStart(p, k) ==
    /\ Arrives(p, "start") /\ socket
    /\ Continue(p, [Idle EXCEPT !.op = "start", !.k = k, !.m = meter[k]])
    /\ UNCHANGED <<row, station, socket, meter, clock, restarts>>

\* Cases A and B: the live session of the connector is returned.
Absorbs(r) == r.status # "OFFLINE" \/ Recoverable(r)

\* The precheck, a plain read.
Precheck(p) ==
    /\ Running(p, "start", "first")
    /\ \/ /\ \E s \in LiveOn(job[p].k) : Absorbs(row[s])
          /\ Finish(p)
       \/ /\ LiveOn(job[p].k) = {} \/ \E s \in LiveOn(job[p].k) : ~Absorbs(row[s])
          /\ Continue(p, [job[p] EXCEPT !.at = "write"])
    /\ UNCHANGED <<row, station, socket, meter, clock, restarts>>

NewRow(m) == [status |-> "ACTIVE", energy |-> 0, start |-> m, stop |-> 0,
              updated |-> clock]

\* Mutant: the expired session is replaced without being failed.
CreateSessionKeepingExpired(p) ==
    /\ Running(p, "start", "write")
    /\ \E s \in Sessions :
          /\ row[s].status = "NONE" /\ ConnectorOf[s] = job[p].k
          /\ \A old \in LiveOn(job[p].k) : ~Absorbs(row[old])
          /\ row' = [row EXCEPT ![s] = NewRow(job[p].m)]
    /\ Finish(p)
    /\ UNCHANGED <<station, socket, meter, clock, restarts>>

\* Mutant: the transaction trusts the precheck.
CreateSessionUnchecked(p) ==
    /\ Running(p, "start", "write")
    /\ \E s \in Sessions :
          /\ row[s].status = "NONE" /\ ConnectorOf[s] = job[p].k
          /\ row' = [row EXCEPT ![s] = NewRow(job[p].m)]
    /\ Finish(p)
    /\ UNCHANGED <<station, socket, meter, clock, restarts>>

\* Mutant: the transaction does not look at the recovery window again.
CreateSessionFailingAny(p) ==
    /\ Running(p, "start", "write")
    /\ \E s \in Sessions :
          /\ row[s].status = "NONE" /\ ConnectorOf[s] = job[p].k
          /\ row' = [t \in Sessions |->
                       IF t = s THEN NewRow(job[p].m)
                       ELSE IF t \in LiveOn(job[p].k)
                       THEN [row[t] EXCEPT !.status = "FAILED", !.updated = clock]
                       ELSE row[t]]
    /\ Finish(p)
    /\ UNCHANGED <<station, socket, meter, clock, restarts>>

\* The SERIALIZABLE transaction, atomic at its commit: look again, fail an
\* expired OFFLINE session, insert.  A concurrent handler may make it fail with
\* P2034 instead; so does the bound on Sessions.
CreateSession(p) ==
    /\ Running(p, "start", "write")
    /\ \/ /\ \E s \in LiveOn(job[p].k) : Absorbs(row[s])
          /\ UNCHANGED row
       \/ \E s \in Sessions :
             /\ row[s].status = "NONE" /\ ConnectorOf[s] = job[p].k
             /\ \/ /\ LiveOn(job[p].k) = {}
                   /\ row' = [row EXCEPT ![s] = NewRow(job[p].m)]
                \/ \E old \in LiveOn(job[p].k) :
                      /\ ~Absorbs(row[old])
                      /\ Allowed(row[old].status, "FAILED")
                      /\ row' = [row EXCEPT ![s] = NewRow(job[p].m),
                                            ![old].status = "FAILED",
                                            ![old].updated = clock]
       \/ /\ \/ \E q \in Slots \ {p} : job[q] # Idle
             \/ \A s \in Sessions : ConnectorOf[s] = job[p].k => row[s].status # "NONE"
          /\ UNCHANGED row
    /\ Finish(p)
    /\ UNCHANGED <<station, socket, meter, clock, restarts>>

-----------------------------------------------------------------------------
(* MeterValues: MeterValuesService.record and updateEnergy.                *)

\* The charger reports on the transaction of a session it was told.
ReceiveMeterValues(p, s) ==
    /\ Arrives(p, "meter") /\ socket
    /\ row[s].status # "NONE"
    /\ Continue(p, [Idle EXCEPT !.op = "meter", !.k = ConnectorOf[s], !.s = s,
                                !.m = meter[ConnectorOf[s]]])
    /\ UNCHANGED <<row, station, socket, meter, clock, restarts>>

\* record: a sample below the last known energy is dropped, an equal one is
\* stored and changes nothing.
RecordSample(p) ==
    /\ Running(p, "meter", "first")
    /\ IF job[p].m > row[job[p].s].energy
       THEN Continue(p, [job[p] EXCEPT !.at = "read"])
       ELSE Finish(p)
    /\ UNCHANGED <<row, station, socket, meter, clock, restarts>>

\* Mutant: a terminal session still takes energy.
ReadForEnergyOfAny(p) ==
    /\ Running(p, "meter", "read")
    /\ Continue(p, [job[p] EXCEPT !.at = "write"])
    /\ UNCHANGED <<row, station, socket, meter, clock, restarts>>

\* updateEnergy: throws on a terminal session.
ReadForEnergy(p) ==
    /\ Running(p, "meter", "read")
    /\ IF row[job[p].s].status \in Terminal
       THEN Finish(p)
       ELSE Continue(p, [job[p] EXCEPT !.at = "write"])
    /\ UNCHANGED <<row, station, socket, meter, clock, restarts>>

UpdateEnergy(p) ==
    /\ Running(p, "meter", "write")
    /\ row' = [row EXCEPT ![job[p].s].energy = job[p].m,
                          ![job[p].s].updated = clock]
    /\ Finish(p)
    /\ UNCHANGED <<station, socket, meter, clock, restarts>>

-----------------------------------------------------------------------------
(* StopTransaction: the handler's lookup and stopSession.                  *)

ReceiveStop(p, s) ==
    /\ Arrives(p, "stop") /\ socket
    /\ row[s].status # "NONE"
    /\ Continue(p, [Idle EXCEPT !.op = "stop", !.k = ConnectorOf[s], !.s = s,
                                !.m = meter[ConnectorOf[s]]])
    /\ UNCHANGED <<row, station, socket, meter, clock, restarts>>

\* A terminal session answers Accepted and nothing more.
FindSessionToStop(p) ==
    /\ Running(p, "stop", "first")
    /\ IF row[job[p].s].status \in Terminal
       THEN Finish(p)
       ELSE Continue(p, [job[p] EXCEPT !.at = "read"])
    /\ UNCHANGED <<row, station, socket, meter, clock, restarts>>

ReadForStop(p) ==
    /\ Running(p, "stop", "read")
    /\ IF Allowed(row[job[p].s].status, "COMPLETED")
       THEN Continue(p, [job[p] EXCEPT !.at = "write", !.seen = row[job[p].s]])
       ELSE Finish(p)
    /\ UNCHANGED <<row, station, socket, meter, clock, restarts>>

\* energyWh = max(0, meterStop - meterStart).
Delivered(start, stop) == IF stop >= start THEN stop - start ELSE 0

StopSession(p) ==
    /\ Running(p, "stop", "write")
    /\ row' = [row EXCEPT ![job[p].s] =
                 [@ EXCEPT !.status = "COMPLETED", !.stop = job[p].m,
                           !.energy = Delivered(job[p].seen.start, job[p].m),
                           !.updated = clock]]
    /\ Finish(p)
    /\ UNCHANGED <<station, socket, meter, clock, restarts>>

-----------------------------------------------------------------------------
(* handleConnectionEstablished and attemptRecovery.                        *)

\* A new connection, or one that replaces a connection still open.
Connect(p) ==
    /\ Arrives(p, "connect")
    /\ socket' = TRUE
    /\ Continue(p, [Idle EXCEPT !.op = "connect"])
    /\ UNCHANGED <<row, station, meter, clock, restarts>>

OfflineSessions == {s \in Sessions : row[s].status = "OFFLINE"}

\* findFirst: one OFFLINE session of the station, if there is any.
FindOfflineSession(p) ==
    /\ Running(p, "connect", "first")
    /\ \/ \E s \in OfflineSessions :
             Continue(p, [job[p] EXCEPT !.at = "station", !.s = s,
                                        !.k = ConnectorOf[s], !.seen = row[s]])
       \/ /\ OfflineSessions = {}
          /\ Continue(p, [job[p] EXCEPT !.at = "station"])
    /\ UNCHANGED <<row, station, socket, meter, clock, restarts>>

MarkOnline(p) ==
    /\ Running(p, "connect", "station")
    /\ station' = "ONLINE"
    /\ IF job[p].s = NoSession THEN Finish(p)
                               ELSE Continue(p, [job[p] EXCEPT !.at = "check"])
    /\ UNCHANGED <<row, socket, meter, clock, restarts>>

\* attemptRecovery: no other session in progress on the connector, and the
\* snapshot of FindOfflineSession still within the window.
CheckRecovery(p) ==
    /\ Running(p, "connect", "check")
    /\ LET conflicting ==
             {t \in Sessions \ {job[p].s} :
                 ConnectorOf[t] = job[p].k /\ row[t].status = "ACTIVE"}
       IN  IF conflicting = {} /\ Recoverable(job[p].seen)
           THEN Continue(p, [job[p] EXCEPT !.at = "read"])
           ELSE Finish(p)
    /\ UNCHANGED <<row, station, socket, meter, clock, restarts>>

\* resumeSession.
ReadForResume(p) ==
    /\ Running(p, "connect", "read")
    /\ IF Allowed(row[job[p].s].status, "ACTIVE")
       THEN Continue(p, [job[p] EXCEPT !.at = "write"])
       ELSE Finish(p)
    /\ UNCHANGED <<row, station, socket, meter, clock, restarts>>

ResumeSession(p) ==
    /\ Running(p, "connect", "write")
    /\ SetStatus(job[p].s, "ACTIVE")
    /\ Finish(p)
    /\ UNCHANGED <<station, socket, meter, clock, restarts>>

-----------------------------------------------------------------------------
(* handleConnectionClosed and reconcileSessionsOffline.                    *)

Disconnect(p) ==
    /\ Arrives(p, "close") /\ socket
    /\ socket' = FALSE
    /\ Continue(p, [Idle EXCEPT !.op = "close"])
    /\ UNCHANGED <<row, station, meter, clock, restarts>>

MarkOffline(p) ==
    /\ Running(p, "close", "first")
    /\ station' = "OFFLINE"
    /\ Continue(p, [job[p] EXCEPT !.at = "station"])
    /\ UNCHANGED <<row, socket, meter, clock, restarts>>

\* The next session of the list, or the end of the loop.
NextOf(j, todo) ==
    IF todo = {} THEN {Idle}
    ELSE {[j EXCEPT !.at = "read", !.s = s, !.k = ConnectorOf[s],
                    !.todo = todo \ {s}] : s \in todo}

FindSessionsToSuspend(p) ==
    /\ Running(p, "close", "station")
    /\ \E j \in NextOf(job[p], {s \in Sessions : row[s].status = "ACTIVE"}) :
          Continue(p, j)
    /\ UNCHANGED <<row, station, socket, meter, clock, restarts>>

\* suspendSession's read.  A transition that is not allowed any more throws out
\* of the loop: the rest of the list is not looked at.
ReadForSuspend(p) ==
    /\ Running(p, "close", "read")
    /\ IF Allowed(row[job[p].s].status, "OFFLINE")
       THEN Continue(p, [job[p] EXCEPT !.at = "write"])
       ELSE Finish(p)
    /\ UNCHANGED <<row, station, socket, meter, clock, restarts>>

\* Mutant: only the first session of the list.
SuspendFirstOnly(p) ==
    /\ Running(p, "close", "write")
    /\ SetStatus(job[p].s, "OFFLINE")
    /\ Finish(p)
    /\ UNCHANGED <<station, socket, meter, clock, restarts>>

SuspendSession(p) ==
    /\ Running(p, "close", "write")
    /\ SetStatus(job[p].s, "OFFLINE")
    /\ \E j \in NextOf(job[p], job[p].todo) : Continue(p, j)
    /\ UNCHANGED <<station, socket, meter, clock, restarts>>

-----------------------------------------------------------------------------
(* The world, and a restart.                                               *)

\* Energy flows, or the meter is replaced.
MeterChanges(k) ==
    /\ \/ meter[k] < MaxMeter /\ meter' = [meter EXCEPT ![k] = @ + 1]
       \/ MeterResets /\ meter' = [meter EXCEPT ![k] = 0]
    /\ UNCHANGED <<row, station, job, socket, clock, restarts>>

Tick ==
    /\ clock < MaxClock
    /\ clock' = clock + 1
    /\ UNCHANGED <<row, station, job, socket, meter, restarts>>

\* Mutant: no ONLINE -> UNKNOWN reset at startup.
RestartKeepingStation ==
    /\ restarts < MaxRestarts
    /\ restarts' = restarts + 1
    /\ job' = [p \in Slots |-> Idle]
    /\ socket' = FALSE
    /\ UNCHANGED <<row, station, meter, clock>>

\* Running handlers are lost; onModuleInit turns a persisted ONLINE into
\* UNKNOWN and leaves the sessions alone.
Restart ==
    /\ restarts < MaxRestarts
    /\ restarts' = restarts + 1
    /\ job' = [p \in Slots |-> Idle]
    /\ socket' = FALSE
    /\ station' = IF station = "ONLINE" THEN "UNKNOWN" ELSE station
    /\ UNCHANGED <<row, meter, clock>>

-----------------------------------------------------------------------------

Receive(p) ==
    \/ \E k \in Connectors : ReceiveStart(p, k)
    \/ \E s \in Sessions : ReceiveMeterValues(p, s) \/ ReceiveStop(p, s)
    \/ Connect(p) \/ Disconnect(p)

Handle(p) ==
    \/ Precheck(p) \/ CreateSession(p)
    \/ RecordSample(p) \/ ReadForEnergy(p) \/ UpdateEnergy(p)
    \/ FindSessionToStop(p) \/ ReadForStop(p) \/ StopSession(p)
    \/ FindOfflineSession(p) \/ MarkOnline(p) \/ CheckRecovery(p)
    \/ ReadForResume(p) \/ ResumeSession(p)
    \/ MarkOffline(p) \/ FindSessionsToSuspend(p) \/ ReadForSuspend(p)
    \/ SuspendSession(p)

Next ==
    \/ \E p \in Slots : Receive(p) \/ Handle(p)
    \/ \E k \in Connectors : MeterChanges(k)
    \/ Tick \/ Restart

Spec == Init /\ [][Next]_vars
-----------------------------------------------------------------------------
(* Properties that hold whatever runs together.                            *)

Created(s) == row[s].status = "NONE" /\ row'[s].status # "NONE"

\* The check inside the SERIALIZABLE transaction decides, never the precheck:
\* creating a session never puts a second one on a connector, however many
\* StartTransactions of it are under way and whatever their prechecks saw.
\* (That a stale write revives a second session is another matter:
\* OneLivePerConnector.)
CreatedOnlyOnFreeConnector ==
    [][\A s \in Sessions :
         /\ Created(s)
         /\ \A t, u \in LiveOn(ConnectorOf[s]) : t = u
         => LiveOn(ConnectorOf[s])' = {s}]_vars

\* WO-063: a start fails another session only if that one is OFFLINE and past
\* its recovery window when the transaction runs -- a session that was
\* recovered or refreshed after the precheck is kept.
SupersedesOnlyExpired ==
    [][\A s, t \in Sessions :
         /\ Created(s)
         /\ row[t].status # "FAILED" /\ row'[t].status = "FAILED"
         => row[t].status = "OFFLINE" /\ clock - row[t].updated > Window]_vars

-----------------------------------------------------------------------------
(* Properties of handlers that run one after the other.                    *)

\* The sessions implement SessionLifecycle: no session finishes twice or comes
\* back, and a connector never has two live ones.
Lifecycle == INSTANCE SessionLifecycle WITH status <- [s \in Sessions |-> row[s].status]
ImplementsLifecycle == Lifecycle!Spec

\* The energy of a COMPLETED session is meterStop - meterStart, floored at 0:
\* what a MeterValues sample left there before or after never stays.
CompletedEnergy ==
    \A s \in Sessions : row[s].status = "COMPLETED" =>
        row[s].energy = Delivered(row[s].start, row[s].stop)

Quiet == \A p \in Slots : job[p] = Idle

\* When no handler is running, the station is ONLINE exactly if its socket is
\* open.
StationAgrees == Quiet => (station = "ONLINE" <=> socket)

\* When no handler is running and the socket is closed, no session is left
\* ACTIVE ("stuck forever, invisible to reconnect recovery"), a restart aside.
NoneStranded ==
    Quiet /\ ~socket /\ restarts = 0 => \A s \in Sessions : row[s].status # "ACTIVE"

\* "never a re-transition or a thrown error": a session on the list of
\* reconcileSessionsOffline can still be suspended when its turn comes.
ReconcileNeverThrows ==
    \A p \in Slots : Running(p, "close", "read") =>
        Allowed(row[job[p].s].status, "OFFLINE")

-----------------------------------------------------------------------------
(* What comments and documents of the code say and the code does not do.   *)

\* "a session cannot finish twice": a terminal status never changes.
TerminalIsFinal ==
    [][\A s \in Sessions :
         row[s].status \in Terminal => row'[s].status = row[s].status]_vars

\* "a connector may have at most one session in one of these at a time".
OneLivePerConnector == Lifecycle!OneLivePerConnector

\* "energyWh only ever moves forward".
EnergyForward == [][\A s \in Sessions : row'[s].energy >= row[s].energy]_vars

\* "Rejected at the service layer before any write; session transitions to
\* FAILED": no session is COMPLETED with meterStop below meterStart.
NoNegativeDelivery ==
    \A s \in Sessions : row[s].status = "COMPLETED" => row[s].stop >= row[s].start

\* "the only writes that ever touch a session's updatedAt while it stays
\* OFFLINE": the recovery window of an OFFLINE session is never extended.
WindowNeverExtended ==
    [][\A s \in Sessions :
         row[s].status = "OFFLINE" /\ row'[s].status = "OFFLINE" =>
             row'[s].updated = row[s].updated]_vars
=============================================================================
