----------------------- MODULE ChargingSessions_proofs -----------------------
(***************************************************************************)
(* Theorems of ChargingSessions, for every set of connectors and sessions, *)
(* any number of handlers at once and every bound of the meters, the clock *)
(* and the restarts: first what holds whatever runs together, then four    *)
(* properties with, for each, the overlap it does not survive (Apart,      *)
(* EnergyApart, LinksApart, CloseAlone) and the proof that it survives     *)
(* every other one.                                                        *)
(***************************************************************************)
EXTENDS ChargingSessions, TLAPS

Places == {"first", "station", "check", "read", "write"}

\* A handler that is about to read or write a session row knows which.
NeedsSession(j) ==
    \/ j.op \in {"meter", "stop"}
    \/ j.op \in {"connect", "close"} /\ j.at \in {"check", "read", "write"}

GoodJob == {j \in Job : NeedsSession(j) => j.s \in Sessions}

TypeInv == TypeOK /\ job \in [Slots -> GoodJob]

-----------------------------------------------------------------------------
(* Lemmas about the records.                                               *)

LEMMA NoRowType == NoRow \in Row
BY ConstantsAssumption DEF NoRow, Row, Status, Reading

LEMMA IdleType == Idle \in GoodJob
<1>1. Idle \in Job
  BY NoRowType, ConstantsAssumption DEF Idle, Job, Reading
<1>2. QED
  BY <1>1 DEF GoodJob, NeedsSession, Idle

\* What the arrival of a frame or a connection puts into a slot.
LEMMA Received ==
    ASSUME NEW m \in Reading
    PROVE  /\ \A op \in {"connect", "close"} : [Idle EXCEPT !.op = op] \in GoodJob
           /\ \A k \in Connectors : [Idle EXCEPT !.op = "start", !.k = k, !.m = m] \in GoodJob
           /\ \A s \in Sessions, op \in {"meter", "stop"} :
                 [Idle EXCEPT !.op = op, !.k = ConnectorOf[s], !.s = s, !.m = m] \in GoodJob
<1>1. Idle \in Job /\ Idle.at = "first"
  BY IdleType DEF GoodJob, Idle
<1>2. \A op \in {"connect", "close"} : [Idle EXCEPT !.op = op] \in GoodJob
  BY <1>1 DEF Job, GoodJob, NeedsSession
<1>3. \A k \in Connectors : [Idle EXCEPT !.op = "start", !.k = k, !.m = m] \in GoodJob
  BY <1>1 DEF Job, GoodJob, NeedsSession
<1>4. ASSUME NEW s \in Sessions, NEW op \in {"meter", "stop"}
      PROVE  [Idle EXCEPT !.op = op, !.k = ConnectorOf[s], !.s = s, !.m = m] \in GoodJob
  <2>1. ConnectorOf[s] \in Connectors
    BY ConstantsAssumption
  <2>2. QED
    BY <1>1, <2>1 DEF Job, GoodJob
<1>5. QED
  BY <1>2, <1>3, <1>4

\* A handler that moves on with what it has read.
LEMMA Moves ==
    ASSUME NEW j \in GoodJob, NEW at \in Places
    PROVE  /\ j.op = "start" \/ j.s \in Sessions \/ at = "station"
                 => [j EXCEPT !.at = at] \in GoodJob
           /\ \A r \in Row : j.op = "stop" => [j EXCEPT !.at = at, !.seen = r] \in GoodJob
           /\ \A s \in Sessions, r \in Row :
                 [j EXCEPT !.at = at, !.s = s, !.k = ConnectorOf[s], !.seen = r] \in GoodJob
           /\ \A s \in Sessions, todo \in SUBSET Sessions :
                 [j EXCEPT !.at = at, !.s = s, !.k = ConnectorOf[s], !.todo = todo] \in GoodJob
<1>1. \A s \in Sessions : ConnectorOf[s] \in Connectors
  BY ConstantsAssumption
<1>2. j.op = "start" \/ j.s \in Sessions \/ at = "station"
         => [j EXCEPT !.at = at] \in GoodJob
  BY DEF Job, GoodJob, Places, NeedsSession
<1>3. \A r \in Row : j.op = "stop" => [j EXCEPT !.at = at, !.seen = r] \in GoodJob
  BY DEF Job, GoodJob, Places, NeedsSession
<1>4. \A s \in Sessions, r \in Row :
         [j EXCEPT !.at = at, !.s = s, !.k = ConnectorOf[s], !.seen = r] \in GoodJob
  BY <1>1 DEF Job, GoodJob, Places
<1>5. \A s \in Sessions, todo \in SUBSET Sessions :
         [j EXCEPT !.at = at, !.s = s, !.k = ConnectorOf[s], !.todo = todo] \in GoodJob
  BY <1>1 DEF Job, GoodJob, Places
<1>6. QED
  BY <1>2, <1>3, <1>4, <1>5

\* The rows a handler writes are rows.
LEMMA RowWrites ==
    ASSUME TypeOK, NEW r \in Row, NEW m \in Reading
    PROVE  /\ NewRow(m) \in Row
           /\ \A to \in Status : [r EXCEPT !.status = to, !.updated = clock] \in Row
           /\ [r EXCEPT !.energy = m, !.updated = clock] \in Row
           /\ \A e \in Reading : [r EXCEPT !.status = "COMPLETED", !.stop = m,
                                         !.energy = e, !.updated = clock] \in Row
<1> USE DEF TypeOK, Row
<1>1. NewRow(m) \in Row
  BY ConstantsAssumption DEF NewRow, Status, Live, Reading
<1>2. \A to \in Status : [r EXCEPT !.status = to, !.updated = clock] \in Row
  OBVIOUS
<1>3. [r EXCEPT !.energy = m, !.updated = clock] \in Row
  OBVIOUS
<1>4. \A e \in Reading : [r EXCEPT !.status = "COMPLETED", !.stop = m,
                                  !.energy = e, !.updated = clock] \in Row
  BY DEF Status, Terminal
<1>5. QED
  BY <1>1, <1>2, <1>3, <1>4

-----------------------------------------------------------------------------
(* The type invariant.                                                     *)

LEMMA TypeInit == Init => TypeInv
<1> SUFFICES ASSUME Init PROVE TypeInv
  OBVIOUS
<1>1. row \in [Sessions -> Row] /\ job \in [Slots -> GoodJob]
  BY NoRowType, IdleType DEF Init
<1>2. meter \in [Connectors -> Reading] /\ clock \in 0..MaxClock /\ restarts \in 0..MaxRestarts
  BY ConstantsAssumption DEF Init, Reading
<1>3. job \in [Slots -> Job]
  BY <1>1 DEF GoodJob
<1>4. station \in {"ONLINE", "OFFLINE", "UNKNOWN"} /\ socket \in BOOLEAN
  BY DEF Init
<1>5. QED
  BY <1>1, <1>2, <1>3, <1>4 DEF TypeInv, TypeOK

\* A step of a handler changes its slot and nothing but types well otherwise.
LEMMA SlotStep ==
    ASSUME TypeInv, NEW p \in Slots, NEW j \in GoodJob, Continue(p, j),
           row' \in [Sessions -> Row],
           station' \in {"ONLINE", "OFFLINE", "UNKNOWN"}, socket' \in BOOLEAN,
           UNCHANGED <<meter, clock, restarts>>
    PROVE  TypeInv'
<1>1. job' \in [Slots -> GoodJob] /\ job' \in [Slots -> Job]
  BY DEF TypeInv, Continue, GoodJob
<1>2. QED
  BY <1>1 DEF TypeInv, TypeOK

LEMMA TypeStep == TypeInv /\ [Next]_vars => TypeInv'
<1> SUFFICES ASSUME TypeInv, [Next]_vars PROVE TypeInv'
  OBVIOUS
<1>0. /\ Idle \in GoodJob
      /\ \A p \in Slots : job[p] \in GoodJob
      /\ row \in [Sessions -> Row] /\ \A s \in Sessions : row[s] \in Row
      /\ \A k \in Connectors : meter[k] \in Reading
      /\ station \in {"ONLINE", "OFFLINE", "UNKNOWN"} /\ socket \in BOOLEAN
      /\ \A s \in Sessions : ConnectorOf[s] \in Connectors
  BY IdleType, ConstantsAssumption DEF TypeInv, TypeOK
\* Steps that only move the handler on.
<1>1. ASSUME NEW p \in Slots, NEW j \in GoodJob, Continue(p, j),
             UNCHANGED <<row, station, socket, meter, clock, restarts>>
      PROVE  TypeInv'
  BY <1>0, <1>1, SlotStep
<1>2. ASSUME NEW p \in Slots,
             \/ \E k \in Connectors : ReceiveStart(p, k)
             \/ \E s \in Sessions : ReceiveMeterValues(p, s) \/ ReceiveStop(p, s)
      PROVE  TypeInv'
  BY <1>0, <1>1, <1>2, Received DEF ReceiveStart, ReceiveMeterValues, ReceiveStop
<1>3. ASSUME NEW p \in Slots, Precheck(p) PROVE TypeInv'
  <2>1. job[p].op = "start"
    BY <1>3 DEF Precheck, Running
  <2>2. [job[p] EXCEPT !.at = "write"] \in GoodJob
    BY <1>0, <2>1, Moves DEF Places
  <2>3. QED
    BY <1>0, <1>1, <1>3, <2>2 DEF Precheck, Finish
<1>4. ASSUME NEW p \in Slots,
             \/ RecordSample(p) \/ ReadForEnergy(p) \/ FindSessionToStop(p)
             \/ CheckRecovery(p) \/ ReadForResume(p) \/ ReadForSuspend(p)
      PROVE  TypeInv'
  <2>1. job[p].s \in Sessions
    BY <1>0, <1>4
    DEF RecordSample, ReadForEnergy, FindSessionToStop, CheckRecovery,
        ReadForResume, ReadForSuspend, Running, GoodJob, NeedsSession
  <2>2. [job[p] EXCEPT !.at = "read"] \in GoodJob /\ [job[p] EXCEPT !.at = "write"] \in GoodJob
    BY <1>0, <2>1, Moves DEF Places
  <2>3. QED
    BY <1>0, <1>1, <1>4, <2>2
    DEF RecordSample, ReadForEnergy, FindSessionToStop, CheckRecovery,
        ReadForResume, ReadForSuspend, Finish
<1>5. ASSUME NEW p \in Slots, ReadForStop(p) PROVE TypeInv'
  <2>1. job[p].op = "stop" /\ job[p].s \in Sessions
    BY <1>0, <1>5 DEF ReadForStop, Running, GoodJob, NeedsSession
  <2>2. [job[p] EXCEPT !.at = "write", !.seen = row[job[p].s]] \in GoodJob
    BY <1>0, <2>1, Moves DEF Places
  <2>3. QED
    BY <1>0, <1>1, <1>5, <2>2 DEF ReadForStop, Finish
<1>6. ASSUME NEW p \in Slots, FindOfflineSession(p) PROVE TypeInv'
  <2>1. [job[p] EXCEPT !.at = "station"] \in GoodJob
    BY <1>0, Moves DEF Places
  <2>2. ASSUME NEW s \in Sessions
        PROVE  [job[p] EXCEPT !.at = "station", !.s = s, !.k = ConnectorOf[s],
                              !.seen = row[s]] \in GoodJob
    BY <1>0, Moves DEF Places
  <2>3. QED
    BY <1>0, <1>1, <1>6, <2>1, <2>2 DEF FindOfflineSession, OfflineSessions
<1>7. ASSUME NEW p \in Slots, NEW todo \in SUBSET Sessions, NEW j \in NextOf(job[p], todo)
      PROVE  j \in GoodJob
  <2>1. ASSUME NEW s \in todo
        PROVE  [job[p] EXCEPT !.at = "read", !.s = s, !.k = ConnectorOf[s],
                              !.todo = todo \ {s}] \in GoodJob
    BY <1>0, Moves DEF Places
  <2>2. QED
    BY <1>0, <1>7, <2>1 DEF NextOf
<1>8. ASSUME NEW p \in Slots, FindSessionsToSuspend(p) PROVE TypeInv'
  BY <1>1, <1>7, <1>8 DEF FindSessionsToSuspend
\* Steps that write.
<1>9. ASSUME NEW p \in Slots, CreateSession(p) PROVE TypeInv'
  <2>1. job[p].m \in Reading
    BY <1>0 DEF GoodJob, Job
  <2>2. NewRow(job[p].m) \in Row
    BY <2>1, NoRowType, RowWrites DEF TypeInv
  <2>3. row' \in [Sessions -> Row]
    <3>1. ASSUME NEW s \in Sessions, row' = [row EXCEPT ![s] = NewRow(job[p].m)]
          PROVE  row' \in [Sessions -> Row]
      BY <1>0, <2>2, <3>1
    <3>2. ASSUME NEW s \in Sessions, NEW old \in Sessions,
                 row' = [row EXCEPT ![s] = NewRow(job[p].m), ![old].status = "FAILED",
                                    ![old].updated = clock]
          PROVE  row' \in [Sessions -> Row]
      <4> DEFINE r == [row EXCEPT ![s] = NewRow(job[p].m)]
                 f == [r[old] EXCEPT !.status = "FAILED", !.updated = clock]
      <4>1. r \in [Sessions -> Row]
        BY <1>0, <2>2
      <4>2. f \in Row
        <5>1. r[old] \in Row
          BY <4>1
        <5>2. "FAILED" \in Status /\ clock \in 0..MaxClock
          BY DEF Status, Terminal, TypeInv, TypeOK
        <5>3. QED
          BY <5>1, <5>2 DEF Row
      <4>3. row' = [r EXCEPT ![old] = f]
        BY <1>0, <3>2, <4>1
      <4>4. QED
        BY <4>1, <4>2, <4>3
    <3>3. QED
      BY <1>0, <1>9, <3>1, <3>2 DEF CreateSession, LiveOn
  <2>4. QED
    BY <1>0, <1>9, <2>3, SlotStep DEF CreateSession, Finish
<1>10. ASSUME NEW p \in Slots, NEW s \in Sessions, NEW to \in Status, SetStatus(s, to)
       PROVE  row' \in [Sessions -> Row]
  <2>1. clock \in 0..MaxClock /\ row[s] \in Row
    BY <1>0 DEF TypeInv, TypeOK
  <2>2. [row[s] EXCEPT !.status = to, !.updated = clock] \in Row
    BY <1>10, <2>1 DEF Row
  <2>3. row' = [row EXCEPT ![s] = [row[s] EXCEPT !.status = to, !.updated = clock]]
    BY <1>0, <1>10 DEF SetStatus
  <2>4. QED
    BY <1>0, <2>2, <2>3
<1>11. ASSUME NEW p \in Slots, UpdateEnergy(p) PROVE TypeInv'
  <2>1. job[p].s \in Sessions /\ job[p].m \in Reading
    BY <1>0, <1>11 DEF UpdateEnergy, Running, GoodJob, NeedsSession, Job
  <2>2. row' \in [Sessions -> Row]
    BY <1>0, <1>11, <2>1 DEF UpdateEnergy, TypeInv, TypeOK, Row
  <2>3. QED
    BY <1>0, <1>11, <2>2, SlotStep DEF UpdateEnergy, Finish
<1>12. ASSUME NEW p \in Slots, StopSession(p) PROVE TypeInv'
  <2>1. /\ job[p].s \in Sessions /\ job[p].m \in Reading
        /\ job[p].seen.start \in Reading
    BY <1>0, <1>12 DEF StopSession, Running, GoodJob, NeedsSession, Job, Row
  <2>2. Delivered(job[p].seen.start, job[p].m) \in Reading
    BY <2>1, ConstantsAssumption DEF Delivered, Reading
  <2>3. row' \in [Sessions -> Row]
    BY <1>0, <1>12, <2>1, <2>2, RowWrites DEF StopSession, TypeInv
  <2>4. QED
    BY <1>0, <1>12, <2>3, SlotStep DEF StopSession, Finish
<1>13. ASSUME NEW p \in Slots, ResumeSession(p) PROVE TypeInv'
  <2>1. job[p].s \in Sessions /\ "ACTIVE" \in Status
    BY <1>0, <1>13 DEF ResumeSession, Running, GoodJob, NeedsSession, Status, Live
  <2>2. row' \in [Sessions -> Row]
    BY <1>10, <1>13, <2>1 DEF ResumeSession
  <2>3. QED
    BY <1>0, <1>13, <2>2, SlotStep DEF ResumeSession, Finish
<1>14. ASSUME NEW p \in Slots, SuspendSession(p) PROVE TypeInv'
  <2>1. /\ job[p].s \in Sessions /\ job[p].todo \in SUBSET Sessions
        /\ "OFFLINE" \in Status
    BY <1>0, <1>14
    DEF SuspendSession, Running, GoodJob, NeedsSession, Job, Status, Live
  <2>2. row' \in [Sessions -> Row]
    BY <1>10, <1>14, <2>1 DEF SuspendSession
  <2>3. PICK j \in NextOf(job[p], job[p].todo) : Continue(p, j)
    BY <1>14 DEF SuspendSession
  <2>4. j \in GoodJob
    BY <1>7, <2>1
  <2>5. QED
    BY <1>0, <1>14, <2>2, <2>3, <2>4, SlotStep DEF SuspendSession
\* Steps on the station and the socket.
<1>15. ASSUME NEW p \in Slots, Connect(p) \/ Disconnect(p) PROVE TypeInv'
  <2>1. \A op \in {"connect", "close"} : [Idle EXCEPT !.op = op] \in GoodJob
    <3>1. 0 \in Reading
      BY ConstantsAssumption DEF Reading
    <3>2. QED
      BY <3>1, Received
  <2>2. QED
    BY <1>0, <1>15, <2>1, SlotStep DEF Connect, Disconnect
<1>16. ASSUME NEW p \in Slots, MarkOnline(p) PROVE TypeInv'
  <2>1. job[p].s # NoSession => [job[p] EXCEPT !.at = "check"] \in GoodJob
    <3>1. job[p].s # NoSession => job[p].s \in Sessions
      BY <1>0 DEF GoodJob, Job
    <3>2. QED
      BY <1>0, <3>1, Moves DEF Places
  <2>2. QED
    BY <1>0, <1>16, <2>1, SlotStep DEF MarkOnline, Finish
<1>17. ASSUME NEW p \in Slots, MarkOffline(p) PROVE TypeInv'
  <2>1. [job[p] EXCEPT !.at = "station"] \in GoodJob
    BY <1>0, Moves DEF Places
  <2>2. QED
    BY <1>0, <1>17, <2>1, SlotStep DEF MarkOffline
\* The world.
<1>18. ASSUME NEW k \in Connectors, MeterChanges(k) PROVE TypeInv'
  BY <1>18, ConstantsAssumption DEF MeterChanges, TypeInv, TypeOK, Reading
<1>19. CASE Tick
  BY <1>19, ConstantsAssumption DEF Tick, TypeInv, TypeOK
<1>20. CASE Restart
  <2>1. job' \in [Slots -> GoodJob] /\ job' \in [Slots -> Job]
    BY <1>0, <1>20 DEF Restart, GoodJob
  <2>2. restarts' \in 0..MaxRestarts
    BY <1>20, ConstantsAssumption DEF Restart, TypeInv, TypeOK
  <2>3. station' \in {"ONLINE", "OFFLINE", "UNKNOWN"} /\ socket' \in BOOLEAN
    BY <1>0, <1>20 DEF Restart
  <2>4. QED
    BY <1>20, <2>1, <2>2, <2>3 DEF Restart, TypeInv, TypeOK
<1>21. CASE UNCHANGED vars
  BY <1>21 DEF vars, TypeInv, TypeOK
<1>22. QED
  BY <1>2, <1>3, <1>4, <1>5, <1>6, <1>8, <1>9, <1>11, <1>12, <1>13, <1>14, <1>15,
     <1>16, <1>17, <1>18, <1>19, <1>20, <1>21
  DEF Next, Receive, Handle

LEMMA TypeInvariance == Spec => []TypeInv
BY TypeInit, TypeStep, PTL DEF Spec

\* The handlers write well-typed rows: in particular energyWh never becomes
\* negative, whatever the readings of a replaced meter.
THEOREM TypeCorrect == Spec => []TypeOK
<1>1. TypeInv => TypeOK
  BY DEF TypeInv
<1>2. QED
  BY <1>1, TypeInvariance, PTL

-----------------------------------------------------------------------------
(* Creation.  Only CreateSession brings a row into being: the other        *)
(* handlers work on rows that exist, which takes an invariant of what they *)
(* remember.                                                               *)

Exists(s) == row[s].status # "NONE"

ExistInv ==
    \A p \in Slots :
        /\ job[p].s \in Sessions => Exists(job[p].s)
        /\ \A s \in job[p].todo : Exists(s)

\* Rows are not removed.
LEMMA SetExists ==
    ASSUME TypeOK, NEW s \in Sessions, Exists(s), NEW to \in Status \ {"NONE"},
           SetStatus(s, to)
    PROVE  \A t \in Sessions : Exists(t)' <=> Exists(t)
BY DEF TypeOK, Row, SetStatus, Exists

LEMMA RowsStay ==
    ASSUME TypeInv, ExistInv, [Next]_vars
    PROVE  \/ \A t \in Sessions : Exists(t)' <=> Exists(t)
           \/ /\ \E p \in Slots : CreateSession(p)
              /\ \A t \in Sessions : Exists(t) => Exists(t)'
<1> DEFINE Same == \A t \in Sessions : Exists(t)' <=> Exists(t)
<1>0. TypeOK
  BY DEF TypeInv
<1>1. CASE UNCHANGED row
  BY <1>1 DEF Exists
<1>2. ASSUME NEW p \in Slots, ResumeSession(p) \/ SuspendSession(p) PROVE Same
  <2>1. job[p].s \in Sessions /\ Exists(job[p].s)
    BY <1>2
    DEF ResumeSession, SuspendSession, Running, TypeInv, GoodJob, NeedsSession, ExistInv
  <2>2. {"ACTIVE", "OFFLINE"} \subseteq Status \ {"NONE"}
    BY DEF Status, Live
  <2>3. QED
    BY <1>0, <1>2, <2>1, <2>2, SetExists DEF ResumeSession, SuspendSession
<1>3. ASSUME NEW p \in Slots, UpdateEnergy(p) PROVE Same
  BY <1>0, <1>3 DEF UpdateEnergy, TypeOK, Row, Exists
<1>4. ASSUME NEW p \in Slots, StopSession(p) PROVE Same
  <2>1. job[p].s \in Sessions /\ Exists(job[p].s)
    BY <1>4 DEF StopSession, Running, TypeInv, GoodJob, NeedsSession, ExistInv
  <2>2. QED
    BY <1>0, <1>4, <2>1 DEF StopSession, TypeOK, Row, Exists
<1>5. ASSUME NEW p \in Slots, CreateSession(p)
      PROVE  \A t \in Sessions : Exists(t) => Exists(t)'
  <2>1. ASSUME NEW s \in Sessions, row' = [row EXCEPT ![s] = NewRow(job[p].m)]
        PROVE  \A t \in Sessions : Exists(t) => Exists(t)'
    BY <1>0, <2>1 DEF TypeOK, NewRow, Exists
  <2>2. ASSUME NEW s \in Sessions, NEW old \in Sessions, s # old,
               row' = [row EXCEPT ![s] = NewRow(job[p].m), ![old].status = "FAILED",
                                  ![old].updated = clock]
        PROVE  \A t \in Sessions : Exists(t) => Exists(t)'
    BY <1>0, <2>2 DEF TypeOK, Row, NewRow, Exists
  <2>3. \A s \in Sessions, old \in LiveOn(job[p].k) :
           row[s].status = "NONE" => s # old /\ old \in Sessions
    BY DEF LiveOn, Live
  <2>4. QED
    BY <1>1, <1>5, <2>1, <2>2, <2>3 DEF CreateSession
<1>6. ASSUME ~UNCHANGED row
      PROVE  \E p \in Slots : \/ CreateSession(p) \/ UpdateEnergy(p) \/ StopSession(p)
                             \/ ResumeSession(p) \/ SuspendSession(p)
  <2>1. ~UNCHANGED vars /\ ~Tick /\ ~Restart /\ ~(\E k \in Connectors : MeterChanges(k))
    BY <1>6 DEF vars, Tick, Restart, MeterChanges
  <2>2. ASSUME NEW p \in Slots PROVE ~Receive(p)
    BY <1>6
    DEF Receive, ReceiveStart, ReceiveMeterValues, ReceiveStop, Connect, Disconnect
  <2>3. PICK p \in Slots : Handle(p)
    BY <2>1, <2>2 DEF Next
  <2>4. QED
    BY <1>6, <2>3
    DEF Handle, Precheck, RecordSample, ReadForEnergy, FindSessionToStop,
        ReadForStop, FindOfflineSession, MarkOnline, CheckRecovery, ReadForResume,
        MarkOffline, FindSessionsToSuspend, ReadForSuspend
<1>7. QED
  BY <1>1, <1>2, <1>3, <1>4, <1>5, <1>6

\* What a slot holds after a step was there before, or exists now.
LEMMA ExistStep == TypeInv /\ ExistInv /\ [Next]_vars => ExistInv'
<1> SUFFICES ASSUME TypeInv, ExistInv, [Next]_vars PROVE ExistInv'
  OBVIOUS
<1>0. \A t \in Sessions : Exists(t) => Exists(t)'
  BY RowsStay
<1>1. job \in [Slots -> Job] /\ Idle.s = NoSession /\ Idle.todo = {}
      /\ NoSession \notin Sessions
  BY ConstantsAssumption DEF TypeInv, TypeOK, Idle
<1>2. ASSUME NEW p \in Slots, NEW j, Continue(p, j),
             j.s \in Sessions => Exists(j.s), \A s \in j.todo : Exists(s),
             j.todo \subseteq Sessions
      PROVE  ExistInv'
  BY <1>0, <1>1, <1>2 DEF Continue, ExistInv, Job
<1>3. ASSUME NEW p \in Slots, Finish(p) PROVE ExistInv'
  BY <1>1, <1>2, <1>3 DEF Finish
<1>4. ASSUME NEW p \in Slots, NEW at \in Places,
             Continue(p, [job[p] EXCEPT !.at = at])
      PROVE  ExistInv'
  BY <1>1, <1>2, <1>4 DEF Job, ExistInv
<1>5. ASSUME NEW p \in Slots, Receive(p) PROVE ExistInv'
  BY <1>1, <1>2, <1>5
  DEF Receive, ReceiveStart, ReceiveMeterValues, ReceiveStop, Connect, Disconnect,
      Idle, Exists
<1>6. ASSUME NEW p \in Slots, NEW todo \in SUBSET Sessions, \A s \in todo : Exists(s),
             NEW j \in NextOf(job[p], todo), Continue(p, j)
      PROVE  ExistInv'
  <2>1. CASE todo = {}
    BY <1>3, <1>6, <2>1 DEF NextOf, Finish
  <2>2. CASE todo # {}
    <3>1. PICK s \in todo :
             j = [job[p] EXCEPT !.at = "read", !.s = s, !.k = ConnectorOf[s],
                                !.todo = todo \ {s}]
      BY <1>6, <2>2 DEF NextOf
    <3>2. j.s = s /\ j.todo = todo \ {s}
      BY <1>1, <3>1 DEF Job
    <3>3. QED
      BY <1>2, <1>6, <3>2
  <2>3. QED
    BY <2>1, <2>2
<1>7. ASSUME NEW p \in Slots, Handle(p) PROVE ExistInv'
  <2>1. CASE \/ Precheck(p) \/ RecordSample(p) \/ ReadForEnergy(p)
             \/ FindSessionToStop(p) \/ CheckRecovery(p) \/ ReadForResume(p)
             \/ ReadForSuspend(p) \/ MarkOffline(p) \/ MarkOnline(p)
    BY <1>3, <1>4, <2>1
    DEF Precheck, RecordSample, ReadForEnergy, FindSessionToStop, CheckRecovery,
        ReadForResume, ReadForSuspend, MarkOffline, MarkOnline, Places
  <2>2. CASE CreateSession(p) \/ UpdateEnergy(p) \/ StopSession(p) \/ ResumeSession(p)
    BY <1>3, <2>2 DEF CreateSession, UpdateEnergy, StopSession, ResumeSession
  <2>3. CASE ReadForStop(p)
    <3>1. ASSUME NEW r, Continue(p, [job[p] EXCEPT !.at = "write", !.seen = r])
          PROVE  ExistInv'
      BY <1>1, <1>2, <3>1 DEF Job, ExistInv
    <3>2. QED
      BY <1>3, <2>3, <3>1 DEF ReadForStop
  <2>4. CASE FindOfflineSession(p)
    <3>1. ASSUME NEW s \in OfflineSessions,
                 Continue(p, [job[p] EXCEPT !.at = "station", !.s = s,
                                            !.k = ConnectorOf[s], !.seen = row[s]])
          PROVE  ExistInv'
      BY <1>1, <1>2, <3>1 DEF Job, ExistInv, OfflineSessions, Exists
    <3>2. QED
      BY <1>4, <2>4, <3>1 DEF FindOfflineSession, Places
  <2>5. CASE FindSessionsToSuspend(p)
    BY <1>6, <2>5 DEF FindSessionsToSuspend, Exists
  <2>6. CASE SuspendSession(p)
    BY <1>1, <1>6, <2>6 DEF SuspendSession, ExistInv, Job
  <2>7. QED
    BY <1>7, <2>1, <2>2, <2>3, <2>4, <2>5, <2>6 DEF Handle
<1>8. CASE UNCHANGED job
  BY <1>0, <1>1, <1>8 DEF ExistInv, Job
<1>9. CASE Restart
  BY <1>1, <1>9 DEF Restart, ExistInv
<1>10. QED
  BY <1>5, <1>7, <1>8, <1>9 DEF Next, MeterChanges, Tick, vars

LEMMA ExistInvariance == Spec => []ExistInv
<1>1. Init => ExistInv
  <2>1. Idle.s = NoSession /\ Idle.todo = {}
    BY DEF Idle
  <2>2. ASSUME Init PROVE \A p \in Slots : job[p] = Idle
    BY <2>2 DEF Init
  <2>3. QED
    BY <2>1, <2>2, ConstantsAssumption DEF ExistInv
<1>2. QED
  BY <1>1, ExistStep, TypeInvariance, PTL DEF Spec

\* A row that comes into being is the one a committed CreateSession inserted.
LEMMA CreationStep ==
    ASSUME TypeInv, ExistInv, [Next]_vars, NEW s \in Sessions, Created(s)
    PROVE  \E p \in Slots :
              /\ ConnectorOf[s] = job[p].k
              /\ \/ /\ LiveOn(job[p].k) = {}
                    /\ row' = [row EXCEPT ![s] = NewRow(job[p].m)]
                 \/ \E old \in LiveOn(job[p].k) \ {s} :
                       /\ ~Absorbs(row[old])
                       /\ row' = [row EXCEPT ![s] = NewRow(job[p].m),
                                             ![old].status = "FAILED",
                                             ![old].updated = clock]
<1>1. ~Exists(s) /\ Exists(s)' /\ row' # row
  BY DEF Created, Exists
<1>2. PICK p \in Slots : CreateSession(p)
  BY <1>1, RowsStay
<1>3. row \in [Sessions -> Row]
  BY DEF TypeInv, TypeOK
<1>4. ASSUME NEW t \in Sessions, row' = [row EXCEPT ![t] = NewRow(job[p].m)]
      PROVE  t = s
  BY <1>1, <1>3, <1>4 DEF Exists
<1>5. ASSUME NEW t \in Sessions, NEW old \in LiveOn(job[p].k),
             row' = [row EXCEPT ![t] = NewRow(job[p].m), ![old].status = "FAILED",
                                ![old].updated = clock]
      PROVE  t = s /\ old # s
  <2>1. old # s /\ old \in Sessions
    BY <1>1 DEF LiveOn, Live, Exists
  <2>2. QED
    BY <1>1, <1>3, <1>5, <2>1 DEF Exists
<1>6. QED
  BY <1>1, <1>2, <1>4, <1>5 DEF CreateSession

\* The check inside the SERIALIZABLE transaction of createSession decides:
\* creating a session never puts a second live one on a connector, whatever
\* handlers run together, for any number of sessions, connectors and slots.
THEOREM CreationTakesFreeConnector == Spec => CreatedOnlyOnFreeConnector
<1> DEFINE Free(s) == /\ Created(s)
                      /\ \A t, u \in LiveOn(ConnectorOf[s]) : t = u
                      => LiveOn(ConnectorOf[s])' = {s}
<1>1. ASSUME TypeInv, ExistInv, [Next]_vars, NEW s \in Sessions, Created(s),
             \A t, u \in LiveOn(ConnectorOf[s]) : t = u
      PROVE  LiveOn(ConnectorOf[s])' = {s}
  <2>1. PICK p \in Slots :
           /\ ConnectorOf[s] = job[p].k
           /\ \/ /\ LiveOn(job[p].k) = {}
                 /\ row' = [row EXCEPT ![s] = NewRow(job[p].m)]
              \/ \E old \in LiveOn(job[p].k) \ {s} :
                    /\ ~Absorbs(row[old])
                    /\ row' = [row EXCEPT ![s] = NewRow(job[p].m),
                                          ![old].status = "FAILED",
                                          ![old].updated = clock]
    BY <1>1, CreationStep
  <2>2. row \in [Sessions -> Row]
    BY <1>1 DEF TypeInv, TypeOK
  <2>3. CASE /\ LiveOn(job[p].k) = {}
             /\ row' = [row EXCEPT ![s] = NewRow(job[p].m)]
    <3>1. row'[s].status = "ACTIVE" /\ \A t \in Sessions \ {s} : row'[t] = row[t]
      BY <2>2, <2>3 DEF NewRow
    <3>2. QED
      BY <2>1, <2>3, <3>1 DEF LiveOn, Live
  <2>4. ASSUME NEW old \in LiveOn(job[p].k) \ {s},
               row' = [row EXCEPT ![s] = NewRow(job[p].m), ![old].status = "FAILED",
                                  ![old].updated = clock]
        PROVE  LiveOn(ConnectorOf[s])' = {s}
    <3>1. \A t \in LiveOn(ConnectorOf[s]) : t = old
      BY <1>1, <2>1, <2>4
    <3>2. old \in Sessions /\ old # s
      BY <2>4 DEF LiveOn
    <3>3. /\ row'[s].status = "ACTIVE" /\ row'[old].status = "FAILED"
          /\ \A t \in Sessions \ {s, old} : row'[t] = row[t]
      BY <2>2, <2>4, <3>2 DEF NewRow, Row
    <3>4. QED
      BY <3>1, <3>3 DEF LiveOn, Live
  <2>5. QED
    BY <2>1, <2>3, <2>4
<1>2. TypeInv /\ ExistInv /\ [Next]_vars => [\A s \in Sessions : Free(s)]_vars
  BY <1>1
<1>3. QED
  BY <1>2, TypeInvariance, ExistInvariance, PTL
  DEF Spec, CreatedOnlyOnFreeConnector

\* A start fails another session only if that one is OFFLINE and past its
\* recovery window when the transaction runs (WO-063), whatever the precheck
\* saw and whatever handlers run together.
THEOREM SupersedesExpired == Spec => SupersedesOnlyExpired
<1> DEFINE Expired(s, t) ==
       /\ Created(s)
       /\ row[t].status # "FAILED" /\ row'[t].status = "FAILED"
       => row[t].status = "OFFLINE" /\ clock - row[t].updated > Window
<1>1. ASSUME TypeInv, ExistInv, [Next]_vars, NEW s \in Sessions, NEW t \in Sessions,
             Created(s), row[t].status # "FAILED", row'[t].status = "FAILED"
      PROVE  row[t].status = "OFFLINE" /\ clock - row[t].updated > Window
  <2>1. PICK p \in Slots :
           /\ ConnectorOf[s] = job[p].k
           /\ \/ /\ LiveOn(job[p].k) = {}
                 /\ row' = [row EXCEPT ![s] = NewRow(job[p].m)]
              \/ \E old \in LiveOn(job[p].k) \ {s} :
                    /\ ~Absorbs(row[old])
                    /\ row' = [row EXCEPT ![s] = NewRow(job[p].m),
                                          ![old].status = "FAILED",
                                          ![old].updated = clock]
    BY <1>1, CreationStep
  <2>2. row \in [Sessions -> Row]
    BY <1>1 DEF TypeInv, TypeOK
  <2>3. ASSUME row' = [row EXCEPT ![s] = NewRow(job[p].m)] PROVE FALSE
    <3>1. row'[s].status = "ACTIVE" /\ \A u \in Sessions \ {s} : row'[u] = row[u]
      BY <2>2, <2>3 DEF NewRow
    <3>2. QED
      BY <1>1, <3>1
  <2>4. ASSUME NEW old \in LiveOn(job[p].k) \ {s}, ~Absorbs(row[old]),
               row' = [row EXCEPT ![s] = NewRow(job[p].m), ![old].status = "FAILED",
                                  ![old].updated = clock]
        PROVE  row[t].status = "OFFLINE" /\ clock - row[t].updated > Window
    <3>1. old \in Sessions /\ old # s
      BY <2>4 DEF LiveOn
    <3>2. /\ row'[s].status = "ACTIVE"
          /\ \A u \in Sessions \ {s, old} : row'[u] = row[u]
      BY <2>2, <2>4, <3>1 DEF NewRow, Row
    <3>3. t = old
      BY <1>1, <3>2
    <3>4. clock \in Nat /\ row[t].updated \in Nat /\ Window \in Nat
      BY <1>1, <2>2, ConstantsAssumption DEF TypeInv, TypeOK, Row
    <3>5. QED
      BY <2>4, <3>3, <3>4 DEF Absorbs, Recoverable
  <2>5. QED
    BY <2>1, <2>3, <2>4
<1>2. TypeInv /\ ExistInv /\ [Next]_vars
      => [\A s, t \in Sessions : Expired(s, t)]_vars
  BY <1>1
<1>3. QED
  BY <1>2, TypeInvariance, ExistInvariance, PTL DEF Spec, SupersedesOnlyExpired

-----------------------------------------------------------------------------
(* Steps: what a step does to the slots and, column by column, to the      *)
(* rows, whoever runs beside it.                                           *)

LEMMA Fields ==
    ASSUME NEW j \in Job, NEW at
    PROVE  LET i == [j EXCEPT !.at = at]
           IN  i.op = j.op /\ i.at = at /\ i.s = j.s /\ i.seen = j.seen /\ i.todo = j.todo
BY DEF Job

LEMMA IdleFields ==
    Idle.op = "idle" /\ Idle.at = "first" /\ Idle.s = NoSession /\ Idle \in Job
BY IdleType DEF Idle, GoodJob

\* A step of a handler is of one slot.
LEMMA OneJob ==
    ASSUME TypeInv, NEW p \in Slots, NEW j, Continue(p, j)
    PROVE  job'[p] = j /\ \A q \in Slots \ {p} : job'[q] = job[q]
BY DEF TypeInv, TypeOK, Continue

LEMMA MovesOn ==
    ASSUME TypeInv, NEW p \in Slots, NEW at, Continue(p, [job[p] EXCEPT !.at = at])
    PROVE  /\ job'[p].op = job[p].op /\ job'[p].at = at /\ job'[p].s = job[p].s
           /\ job'[p].todo = job[p].todo
<1>1. PICK i : i = [job[p] EXCEPT !.at = at]
  OBVIOUS
<1>2. job'[p] = i
  BY <1>1, OneJob
<1>3. i.op = job[p].op /\ i.at = at /\ i.s = job[p].s /\ i.todo = job[p].todo
  BY <1>1, Fields DEF TypeInv, TypeOK
<1>4. QED
  BY <1>2, <1>3

LEMMA Continues ==
    ASSUME NEW p \in Slots, Receive(p) \/ Handle(p)
    PROVE  restarts' = restarts /\ \E j : Continue(p, j)
<1>1. CASE Receive(p)
  BY <1>1
  DEF Receive, ReceiveStart, ReceiveMeterValues, ReceiveStop, Connect, Disconnect
<1>2. CASE Precheck(p) \/ CreateSession(p) \/ RecordSample(p) \/ ReadForEnergy(p)
           \/ UpdateEnergy(p) \/ FindSessionToStop(p) \/ ReadForStop(p) \/ StopSession(p)
  BY <1>2
  DEF Precheck, CreateSession, RecordSample, ReadForEnergy, UpdateEnergy,
      FindSessionToStop, ReadForStop, StopSession, Finish
<1>3. CASE FindOfflineSession(p) \/ MarkOnline(p) \/ CheckRecovery(p)
           \/ ReadForResume(p) \/ ResumeSession(p)
  BY <1>3
  DEF FindOfflineSession, MarkOnline, CheckRecovery, ReadForResume, ResumeSession, Finish
<1>4. CASE MarkOffline(p) \/ FindSessionsToSuspend(p) \/ ReadForSuspend(p) \/ SuspendSession(p)
  BY <1>4
  DEF MarkOffline, FindSessionsToSuspend, ReadForSuspend, SuspendSession, Finish
<1>5. QED
  BY <1>1, <1>2, <1>3, <1>4 DEF Handle

LEMMA StepShape ==
    ASSUME TypeInv, [Next]_vars
    PROVE  \/ UNCHANGED <<row, job, station, socket, restarts>>
           \/ Restart
           \/ \E p \in Slots :
                 /\ Receive(p) \/ Handle(p)
                 /\ restarts' = restarts
                 /\ \A q \in Slots \ {p} : job'[q] = job[q]
<1>1. ASSUME NEW p \in Slots, Receive(p) \/ Handle(p)
      PROVE  restarts' = restarts /\ \A q \in Slots \ {p} : job'[q] = job[q]
  BY <1>1, Continues, OneJob
<1>2. QED
  BY <1>1 DEF Next, MeterChanges, Tick, vars

LEMMA RestartJobs ==
    ASSUME TypeInv, Restart
    PROVE  /\ row' = row /\ socket' = FALSE /\ station' # "ONLINE" /\ restarts' # 0
           /\ \A p \in Slots : job'[p] = Idle
<1>1. restarts \in Nat /\ restarts' = restarts + 1
  BY DEF Restart, TypeInv, TypeOK
<1>2. QED
  BY <1>1 DEF Restart

\* The actions that write session rows.
Writes(p) ==
    \/ CreateSession(p) \/ UpdateEnergy(p) \/ StopSession(p)
    \/ ResumeSession(p) \/ SuspendSession(p)

LEMMA Writers ==
    ASSUME NEW p \in Slots, Receive(p) \/ Handle(p), ~Writes(p)
    PROVE  row' = row
BY DEF Receive, ReceiveStart, ReceiveMeterValues, ReceiveStop, Connect, Disconnect,
       Handle, Writes, Precheck, RecordSample, ReadForEnergy, FindSessionToStop,
       ReadForStop, FindOfflineSession, MarkOnline, CheckRecovery, ReadForResume,
       MarkOffline, FindSessionsToSuspend, ReadForSuspend

LEMMA EnergyWrite ==
    ASSUME TypeInv, NEW p \in Slots, UpdateEnergy(p)
    PROVE  /\ Running(p, "meter", "write") /\ job[p].s \in Sessions
           /\ \A t \in Sessions \ {job[p].s} : row'[t] = row[t]
           /\ \A t \in Sessions : row'[t].status = row[t].status /\ row'[t].start = row[t].start
<1>1. Running(p, "meter", "write") /\ job[p].s \in Sessions
  BY DEF UpdateEnergy, Running, TypeInv, GoodJob, NeedsSession
<1>2. row \in [Sessions -> Row] /\ row[job[p].s] \in Row
  BY <1>1 DEF TypeInv, TypeOK
<1>3. row' = [row EXCEPT ![job[p].s] = [row[job[p].s] EXCEPT !.energy = job[p].m, !.updated = clock]]
  BY <1>2 DEF UpdateEnergy
<1>4. QED
  BY <1>1, <1>2, <1>3 DEF Row

LEMMA StopWrite ==
    ASSUME TypeInv, NEW p \in Slots, StopSession(p)
    PROVE  /\ Running(p, "stop", "write") /\ job[p].s \in Sessions
           /\ \A t \in Sessions \ {job[p].s} : row'[t] = row[t]
           /\ row'[job[p].s].status = "COMPLETED"
           /\ row'[job[p].s].start = row[job[p].s].start
           /\ row'[job[p].s].stop = job[p].m
           /\ row'[job[p].s].energy = Delivered(job[p].seen.start, job[p].m)
<1>1. Running(p, "stop", "write") /\ job[p].s \in Sessions
  BY DEF StopSession, Running, TypeInv, GoodJob, NeedsSession
<1>2. row \in [Sessions -> Row] /\ row[job[p].s] \in Row
  BY <1>1 DEF TypeInv, TypeOK
<1>3. PICK e : e = Delivered(job[p].seen.start, job[p].m)
  OBVIOUS
<1>4. row' = [row EXCEPT ![job[p].s] =
                [row[job[p].s] EXCEPT !.status = "COMPLETED", !.stop = job[p].m,
                                      !.energy = e, !.updated = clock]]
  BY <1>2, <1>3 DEF StopSession
<1>5. QED
  BY <1>1, <1>2, <1>3, <1>4 DEF Row

LEMMA StatusWrite ==
    ASSUME TypeInv, NEW p \in Slots, ResumeSession(p) \/ SuspendSession(p)
    PROVE  /\ job[p].s \in Sessions /\ job[p].at = "write"
           /\ \A t \in Sessions \ {job[p].s} : row'[t] = row[t]
           /\ row'[job[p].s].start = row[job[p].s].start
           /\ \/ job[p].op = "connect" /\ row'[job[p].s].status = "ACTIVE"
              \/ job[p].op = "close" /\ row'[job[p].s].status = "OFFLINE"
<1>1. PICK to : /\ SetStatus(job[p].s, to) /\ job[p].at = "write"
                /\ \/ job[p].op = "connect" /\ to = "ACTIVE"
                   \/ job[p].op = "close" /\ to = "OFFLINE"
  BY DEF ResumeSession, SuspendSession, Running
<1>2. job[p].s \in Sessions
  BY <1>1 DEF TypeInv, GoodJob, NeedsSession
<1>3. row \in [Sessions -> Row] /\ row[job[p].s] \in Row
  BY <1>2 DEF TypeInv, TypeOK
<1>4. row' = [row EXCEPT ![job[p].s] = [row[job[p].s] EXCEPT !.status = to, !.updated = clock]]
  BY <1>1, <1>3 DEF SetStatus
<1>5. row'[job[p].s].start = row[job[p].s].start /\ row'[job[p].s].status = to
      /\ \A t \in Sessions \ {job[p].s} : row'[t] = row[t]
  BY <1>2, <1>3, <1>4 DEF Row
<1>6. QED
  BY <1>1, <1>2, <1>5

\* A start inserts a row and at most fails the expired session it replaces.
LEMMA StartWrite ==
    ASSUME TypeInv, NEW p \in Slots, CreateSession(p), row' # row
    PROVE  /\ Running(p, "start", "write")
           /\ \E s \in Sessions :
                 /\ row[s].status = "NONE" /\ ConnectorOf[s] = job[p].k
                 /\ row'[s].status = "ACTIVE"
                 /\ \/ /\ LiveOn(job[p].k) = {}
                       /\ \A t \in Sessions \ {s} : row'[t] = row[t]
                    \/ \E old \in LiveOn(job[p].k) \ {s} :
                          /\ row[old].status = "OFFLINE"
                          /\ row'[old].status = "FAILED" /\ row'[old].start = row[old].start
                          /\ \A t \in Sessions \ {s, old} : row'[t] = row[t]
<1>0. row \in [Sessions -> Row] /\ \A t \in Sessions : row[t] \in Row
  BY DEF TypeInv, TypeOK
<1> DEFINE Inserted(s) ==
        /\ row[s].status = "NONE" /\ ConnectorOf[s] = job[p].k
        /\ row'[s].status = "ACTIVE"
        /\ \/ /\ LiveOn(job[p].k) = {}
              /\ \A t \in Sessions \ {s} : row'[t] = row[t]
           \/ \E old \in LiveOn(job[p].k) \ {s} :
                 /\ row[old].status = "OFFLINE"
                 /\ row'[old].status = "FAILED" /\ row'[old].start = row[old].start
                 /\ \A t \in Sessions \ {s, old} : row'[t] = row[t]
<1>1. ASSUME NEW s \in Sessions, row[s].status = "NONE", ConnectorOf[s] = job[p].k,
             LiveOn(job[p].k) = {}, row' = [row EXCEPT ![s] = NewRow(job[p].m)]
      PROVE  Inserted(s)
  <2>1. row'[s].status = "ACTIVE" /\ \A t \in Sessions \ {s} : row'[t] = row[t]
    BY <1>0, <1>1 DEF NewRow
  <2>2. QED
    BY <1>1, <2>1
<1>2. ASSUME NEW s \in Sessions, row[s].status = "NONE", ConnectorOf[s] = job[p].k,
             NEW old \in LiveOn(job[p].k), ~Absorbs(row[old]),
             row' = [row EXCEPT ![s] = NewRow(job[p].m), ![old].status = "FAILED",
                                ![old].updated = clock]
      PROVE  Inserted(s)
  <2>1. old \in Sessions /\ old # s /\ row[old].status = "OFFLINE"
    BY <1>2 DEF LiveOn, Live, Absorbs
  <2>2. /\ row'[s].status = "ACTIVE"
        /\ \A t \in Sessions \ {s, old} : row'[t] = row[t]
    BY <1>0, <1>2, <2>1 DEF NewRow
  <2>3. row'[old] = [row[old] EXCEPT !.status = "FAILED", !.updated = clock]
    BY <1>0, <1>2, <2>1
  <2>4. row'[old].status = "FAILED" /\ row'[old].start = row[old].start
    BY <1>0, <2>1, <2>3 DEF Row
  <2>5. QED
    BY <1>2, <2>1, <2>2, <2>4
<1> HIDE DEF Inserted
<1>3. \E s \in Sessions : Inserted(s)
  BY <1>1, <1>2 DEF CreateSession
<1>4. QED
  BY <1>3 DEF CreateSession, Inserted

\* What a handler has just read when it is about to write.
LEMMA Decides ==
    ASSUME TypeInv, NEW p \in Slots, Receive(p) \/ Handle(p), job'[p].at = "write"
    PROVE  /\ row' = row
           /\ job'[p].op = "meter" => row[job'[p].s].status \notin Terminal
           /\ job'[p].op = "stop" => /\ Allowed(row[job'[p].s].status, "COMPLETED")
                                     /\ job'[p].seen = row[job'[p].s]
           /\ job'[p].op = "connect" => Allowed(row[job'[p].s].status, "ACTIVE")
           /\ job'[p].op = "close" => Allowed(row[job'[p].s].status, "OFFLINE")
<1> DEFINE Read(j) ==
       /\ row' = row
       /\ j.op = "meter" => row[j.s].status \notin Terminal
       /\ j.op = "stop" => Allowed(row[j.s].status, "COMPLETED") /\ j.seen = row[j.s]
       /\ j.op = "connect" => Allowed(row[j.s].status, "ACTIVE")
       /\ j.op = "close" => Allowed(row[j.s].status, "OFFLINE")
<1>0. /\ job[p] \in Job /\ Idle \in Job /\ Idle.at = "first"
      /\ \A j : Continue(p, j) => job'[p] = j
  BY IdleFields, OneJob DEF TypeInv, TypeOK
<1>1. PICK j : Continue(p, j)
  BY Continues
<1>2. j.at = "write" /\ job'[p] = j
  BY <1>0, <1>1
<1>3. ASSUME NEW i, Continue(p, i) PROVE i = j
  BY <1>0, <1>2, <1>3
<1>4. ~Finish(p)
  BY <1>0, <1>2, <1>3 DEF Finish
<1>5. ASSUME NEW at, Continue(p, [job[p] EXCEPT !.at = at])
      PROVE  at = "write" /\ j.op = job[p].op /\ j.s = job[p].s
  <2>1. PICK i : i = [job[p] EXCEPT !.at = at]
    OBVIOUS
  <2>2. i.at = at /\ i.op = job[p].op /\ i.s = job[p].s
    BY <1>0, <2>1, Fields
  <2>3. i = j
    BY <1>3, <1>5, <2>1
  <2>4. QED
    BY <1>2, <2>2, <2>3
<1>6. ~Receive(p)
  <2>1. ASSUME NEW op, NEW k, NEW m, Continue(p, [Idle EXCEPT !.op = op, !.k = k, !.m = m])
        PROVE  FALSE
    BY <1>0, <1>2, <1>3, <2>1 DEF Job
  <2>2. ASSUME NEW op, NEW k, NEW s, NEW m,
               Continue(p, [Idle EXCEPT !.op = op, !.k = k, !.s = s, !.m = m])
        PROVE  FALSE
    BY <1>0, <1>2, <1>3, <2>2 DEF Job
  <2>3. ASSUME NEW op, Continue(p, [Idle EXCEPT !.op = op]) PROVE FALSE
    BY <1>0, <1>2, <1>3, <2>3 DEF Job
  <2>4. QED
    BY <2>1, <2>2, <2>3
    DEF Receive, ReceiveStart, ReceiveMeterValues, ReceiveStop, Connect, Disconnect
<1>7. ~(CreateSession(p) \/ UpdateEnergy(p) \/ StopSession(p) \/ ResumeSession(p))
  BY <1>4 DEF CreateSession, UpdateEnergy, StopSession, ResumeSession
<1>8. ~(RecordSample(p) \/ FindSessionToStop(p) \/ MarkOnline(p) \/ MarkOffline(p)
        \/ CheckRecovery(p))
  BY <1>4, <1>5
  DEF RecordSample, FindSessionToStop, MarkOnline, MarkOffline, CheckRecovery
<1>9. ~FindOfflineSession(p)
  <2>1. ASSUME NEW s, NEW k, NEW r,
               Continue(p, [job[p] EXCEPT !.at = "station", !.s = s, !.k = k, !.seen = r])
        PROVE  FALSE
    BY <1>0, <1>2, <1>3, <2>1 DEF Job
  <2>2. QED
    BY <1>5, <2>1 DEF FindOfflineSession
<1>10. ~(FindSessionsToSuspend(p) \/ SuspendSession(p))
  <2>1. ASSUME NEW todo, NEW i \in NextOf(job[p], todo), Continue(p, i) PROVE FALSE
    <3>1. CASE todo = {}
      BY <1>4, <2>1, <3>1 DEF NextOf, Finish
    <3>2. CASE todo # {}
      <4>1. PICK s \in todo :
               i = [job[p] EXCEPT !.at = "read", !.s = s, !.k = ConnectorOf[s],
                                  !.todo = todo \ {s}]
        BY <2>1, <3>2 DEF NextOf
      <4>2. i.at = "read"
        BY <1>0, <4>1 DEF Job
      <4>3. QED
        BY <1>2, <1>3, <2>1, <4>2
    <3>3. QED
      BY <3>1, <3>2
  <2>2. QED
    BY <2>1 DEF FindSessionsToSuspend, SuspendSession
<1>11. CASE Precheck(p)
  <2>1. j.op = "start" /\ row' = row
    BY <1>4, <1>5, <1>11 DEF Precheck, Running
  <2>2. QED
    BY <1>2, <2>1
<1>12. CASE ReadForEnergy(p)
  <2>1. j.op = "meter" /\ row' = row /\ row[j.s].status \notin Terminal
    BY <1>4, <1>5, <1>12 DEF ReadForEnergy, Running
  <2>2. QED
    BY <1>2, <2>1
<1>13. CASE ReadForStop(p)
  <2>1. /\ Continue(p, [job[p] EXCEPT !.at = "write", !.seen = row[job[p].s]])
        /\ Allowed(row[job[p].s].status, "COMPLETED") /\ row' = row /\ job[p].op = "stop"
    BY <1>4, <1>13 DEF ReadForStop, Running
  <2>2. j = [job[p] EXCEPT !.at = "write", !.seen = row[job[p].s]]
    BY <1>3, <2>1
  <2>3. j.op = "stop" /\ j.s = job[p].s /\ j.seen = row[job[p].s]
    BY <1>0, <2>1, <2>2 DEF Job
  <2>4. QED
    BY <1>2, <2>1, <2>3
<1>14. CASE ReadForResume(p)
  <2>1. j.op = "connect" /\ row' = row /\ Allowed(row[j.s].status, "ACTIVE")
    BY <1>4, <1>5, <1>14 DEF ReadForResume, Running
  <2>2. QED
    BY <1>2, <2>1
<1>15. CASE ReadForSuspend(p)
  <2>1. j.op = "close" /\ row' = row /\ Allowed(row[j.s].status, "OFFLINE")
    BY <1>4, <1>5, <1>15 DEF ReadForSuspend, Running
  <2>2. QED
    BY <1>2, <2>1
<1>16. QED
  BY <1>6, <1>7, <1>8, <1>9, <1>10, <1>11, <1>12, <1>13, <1>14, <1>15 DEF Handle

-----------------------------------------------------------------------------
(* The lifecycle.  A handler that is about to write a status has checked   *)
(* the transition on the row it read; the row is still so when it writes   *)
(* if nobody else was about to change that session's status meanwhile.     *)
(* Samples, and starts of one connector, may overlap with anything.        *)

\* About to write a status where id, without looking again.
Decided(p) == job[p].at = "write" /\ job[p].op \in {"stop", "connect", "close"}

\* No two handlers are about to write the status of one session, nor is a
\* start about to replace a session of a connector another one writes to.
Apart ==
    \A p, q \in Slots : p # q /\ Decided(p) =>
        /\ Decided(q) => job[q].s # job[p].s
        /\ Running(q, "start", "write") => job[q].k # ConnectorOf[job[p].s]

\* At most one live session on a connector.
OneLive ==
    \A s, t \in Sessions :
        /\ row[s].status \in Live /\ row[t].status \in Live
        /\ ConnectorOf[s] = ConnectorOf[t]
        => s = t

\* What handler j has checked is still so.
StillAllowed(j) ==
    /\ j.op = "stop" => row[j.s].status \in Live
    /\ j.op = "connect" => row[j.s].status = "OFFLINE"
    /\ j.op = "close" => row[j.s].status = "ACTIVE"

DecidedInv == OneLive /\ \A p \in Slots : Decided(p) => StillAllowed(job[p])

Statuses == [s \in Sessions |-> row[s].status]

\* A write that leaves every status alone, or moves one along the table.
LEMMA OneMoves ==
    ASSUME TypeInv, OneLive, NEW s \in Sessions, NEW to \in Status,
           to = row[s].status \/ Allowed(row[s].status, to),
           \A t \in Sessions \ {s} : row'[t] = row[t], row'[s].status = to
    PROVE  OneLive' /\ [Lifecycle!Next]_Statuses
<1>1. row[s].status \in Live \/ to = row[s].status
  BY DEF Allowed, Live
<1>2. OneLive'
  BY <1>1 DEF OneLive
<1>3. CASE to = row[s].status
  BY <1>2, <1>3 DEF Statuses
<1>4. CASE Allowed(row[s].status, to)
  <2>1. Statuses' = [Statuses EXCEPT ![s] = to]
    BY DEF Statuses
  <2>2. Lifecycle!Allowed(Statuses[s], to)
    BY <1>4 DEF Statuses, Allowed, Lifecycle!Allowed
  <2>3. Lifecycle!Transition(s, to)
    BY <2>1, <2>2 DEF Lifecycle!Transition, Statuses
  <2>4. to \in Lifecycle!Status
    BY DEF Status, Live, Terminal, Lifecycle!Status, Lifecycle!Live, Lifecycle!Terminal
  <2>5. QED
    BY <1>2, <2>3, <2>4 DEF Lifecycle!Next
<1>5. QED
  BY <1>3, <1>4

\* A start takes a free connector, or replaces the session that was on it.
LEMMA StartMoves ==
    ASSUME TypeInv, OneLive, NEW p \in Slots, CreateSession(p), row' # row
    PROVE  OneLive' /\ [Lifecycle!Next]_Statuses
<1> DEFINE k == job[p].k
<1>1. PICK s \in Sessions :
         /\ row[s].status = "NONE" /\ ConnectorOf[s] = k
         /\ row'[s].status = "ACTIVE"
         /\ \/ /\ LiveOn(k) = {}
               /\ \A t \in Sessions \ {s} : row'[t] = row[t]
            \/ \E old \in LiveOn(k) \ {s} :
                  /\ row[old].status = "OFFLINE"
                  /\ row'[old].status = "FAILED" /\ row'[old].start = row[old].start
                  /\ \A t \in Sessions \ {s, old} : row'[t] = row[t]
  BY StartWrite
<1>2. CASE LiveOn(k) = {} /\ \A t \in Sessions \ {s} : row'[t] = row[t]
  <2>1. \A t \in Sessions : ConnectorOf[t] = k => row[t].status \notin Live
    BY <1>2 DEF LiveOn
  <2>2. OneLive'
    BY <1>1, <1>2, <2>1 DEF OneLive
  <2>3. Statuses' = [Statuses EXCEPT ![s] = "ACTIVE"]
    BY <1>1, <1>2 DEF Statuses
  <2>4. Lifecycle!Create(s)
    BY <1>1, <2>1, <2>3
    DEF Lifecycle!Create, Lifecycle!Others, Lifecycle!Live, Live, Statuses
  <2>5. QED
    BY <2>2, <2>4 DEF Lifecycle!Next
<1>3. ASSUME NEW old \in LiveOn(k) \ {s}, row[old].status = "OFFLINE",
             row'[old].status = "FAILED", \A t \in Sessions \ {s, old} : row'[t] = row[t]
      PROVE  OneLive' /\ [Lifecycle!Next]_Statuses
  <2>1. old \in Sessions /\ old # s /\ ConnectorOf[old] = k
    BY <1>3 DEF LiveOn
  <2>2. \A t \in Sessions \ {old} : ConnectorOf[t] = k => row[t].status \notin Live
    BY <1>3, <2>1 DEF OneLive, Live
  <2>3. OneLive'
    BY <1>1, <1>3, <2>1, <2>2 DEF OneLive, Live
  <2>4. Statuses' = [Statuses EXCEPT ![old] = "FAILED", ![s] = "ACTIVE"]
    BY <1>1, <1>3, <2>1 DEF Statuses
  <2>5. Lifecycle!Supersede(old, s)
    BY <1>1, <1>3, <2>1, <2>2, <2>4
    DEF Lifecycle!Supersede, Lifecycle!Others, Lifecycle!Live, Live, Statuses
  <2>6. QED
    BY <2>1, <2>3, <2>5 DEF Lifecycle!Next
<1>4. QED
  BY <1>1, <1>2, <1>3

\* A handler's own write is a transition of the table.
LEMMA HandlerMoves ==
    ASSUME TypeInv, DecidedInv, NEW p \in Slots, Receive(p) \/ Handle(p)
    PROVE  OneLive' /\ [Lifecycle!Next]_Statuses
<1>0. OneLive /\ row \in [Sessions -> Row] /\ \A s \in Sessions : row[s].status \in Status
  BY DEF DecidedInv, TypeInv, TypeOK, Row
<1>1. CASE row' = row
  BY <1>0, <1>1 DEF OneLive, Statuses
<1>2. CASE CreateSession(p)
  BY <1>0, <1>1, <1>2, StartMoves
<1>3. CASE UpdateEnergy(p)
  BY <1>0, <1>3, EnergyWrite, OneMoves
<1>4. CASE StopSession(p)
  <2>1. row[job[p].s].status \in Live /\ job[p].s \in Sessions
    BY <1>4, StopWrite DEF Running, Decided, DecidedInv, StillAllowed
  <2>2. Allowed(row[job[p].s].status, "COMPLETED") /\ "COMPLETED" \in Status
    BY <2>1 DEF Allowed, Live, Status, Terminal
  <2>3. QED
    BY <1>0, <1>4, <2>1, <2>2, StopWrite, OneMoves
<1>5. CASE ResumeSession(p) \/ SuspendSession(p)
  <2>1. Decided(p) /\ StillAllowed(job[p])
    BY <1>5, StatusWrite DEF Decided, DecidedInv
  <2>2. PICK to \in Status :
           Allowed(row[job[p].s].status, to) /\ row'[job[p].s].status = to
    BY <1>5, <2>1, StatusWrite DEF StillAllowed, Allowed, Status, Live
  <2>3. QED
    BY <1>0, <1>5, <2>2, StatusWrite, OneMoves
<1>6. QED
  BY <1>1, <1>2, <1>3, <1>4, <1>5, Writers DEF Writes

\* The status another handler has decided on stays while it is suspended.
LEMMA Untouched ==
    ASSUME TypeInv, ExistInv, Apart, NEW p \in Slots, Receive(p) \/ Handle(p),
           NEW q \in Slots \ {p}, Decided(q)
    PROVE  row'[job[q].s].status = row[job[q].s].status
<1> DEFINE s == job[q].s
<1>0. s \in Sessions /\ row[s].status # "NONE" /\ job[q].at = "write" /\ p # q
  BY DEF Decided, TypeInv, GoodJob, NeedsSession, ExistInv, Exists
<1>1. CASE row' = row
  BY <1>1
<1>2. CASE CreateSession(p) /\ row' # row
  <2>1. Running(p, "start", "write")
    BY <1>2, StartWrite
  <2>2. s \notin LiveOn(job[p].k)
    BY <1>0, <2>1 DEF Apart, LiveOn
  <2>3. row'[s] = row[s]
    BY <1>0, <1>2, <2>2, StartWrite
  <2>4. QED
    BY <2>3
<1>3. CASE UpdateEnergy(p)
  BY <1>0, <1>3, EnergyWrite
<1>4. CASE StopSession(p)
  <2>1. Decided(p)
    BY <1>4, StopWrite DEF Decided, Running
  <2>2. QED
    BY <1>0, <1>4, <2>1, StopWrite DEF Apart
<1>5. CASE ResumeSession(p) \/ SuspendSession(p)
  <2>1. Decided(p)
    BY <1>5, StatusWrite DEF Decided
  <2>2. QED
    BY <1>0, <1>5, <2>1, StatusWrite DEF Apart
<1>6. QED
  BY <1>1, <1>2, <1>3, <1>4, <1>5, Writers DEF Writes

LEMMA DecidedStep ==
    ASSUME TypeInv, ExistInv, DecidedInv, Apart, [Next]_vars
    PROVE  DecidedInv' /\ [Lifecycle!Next]_Statuses
<1>1. CASE UNCHANGED <<row, job>>
  BY <1>1 DEF DecidedInv, OneLive, Decided, StillAllowed, Statuses
<1>2. CASE Restart
  <2>1. row' = row /\ \A p \in Slots : job'[p].at = "first"
    BY <1>2, RestartJobs, IdleFields
  <2>2. QED
    BY <2>1 DEF DecidedInv, OneLive, Decided, Statuses
<1>3. ASSUME NEW p \in Slots, Receive(p) \/ Handle(p), \A q \in Slots \ {p} : job'[q] = job[q]
      PROVE  DecidedInv' /\ [Lifecycle!Next]_Statuses
  <2>1. OneLive' /\ [Lifecycle!Next]_Statuses
    BY <1>3, HandlerMoves
  <2>2. Decided(p)' => StillAllowed(job[p])'
    BY <1>3, Decides DEF Decided, StillAllowed, Allowed, Live
  <2>3. ASSUME NEW q \in Slots \ {p}, Decided(q)' PROVE StillAllowed(job[q])'
    <3>1. job'[q] = job[q] /\ Decided(q)
      BY <1>3, <2>3 DEF Decided
    <3>2. row'[job[q].s].status = row[job[q].s].status /\ StillAllowed(job[q])
      BY <1>3, <3>1, Untouched DEF DecidedInv
    <3>3. QED
      BY <3>1, <3>2 DEF StillAllowed
  <2>4. QED
    BY <2>1, <2>2, <2>3 DEF DecidedInv
<1>4. QED
  BY <1>1, <1>2, <1>3, StepShape

LEMMA DecidedInit == Init => DecidedInv /\ Lifecycle!Init
<1> SUFFICES ASSUME Init PROVE DecidedInv /\ Lifecycle!Init
  OBVIOUS
<1>1. \A s \in Sessions : row[s].status = "NONE"
  BY DEF Init, NoRow
<1>2. \A p \in Slots : job[p].at = "first"
  BY IdleFields DEF Init
<1>3. DecidedInv
  BY <1>1, <1>2 DEF DecidedInv, OneLive, Live, Decided
<1>4. Lifecycle!Init
  BY <1>1 DEF Lifecycle!Init
<1>5. QED
  BY <1>3, <1>4

\* Handlers that are never about to write one session together implement the
\* lifecycle, however many of them overlap: no session finishes twice or comes
\* back, and a connector never has two live ones.
THEOREM ApartImplementsLifecycle == Spec /\ []Apart => ImplementsLifecycle
<1> DEFINE I == TypeInv /\ ExistInv /\ DecidedInv
<1>1. I /\ Apart /\ [Next]_vars => DecidedInv' /\ [Lifecycle!Next]_Statuses
  BY DecidedStep
<1>2. Init => DecidedInv /\ Lifecycle!Init
  BY DecidedInit
<1>3. Spec /\ []Apart => []DecidedInv
  BY <1>1, <1>2, TypeInvariance, ExistInvariance, PTL DEF Spec
<1>4. QED
  BY <1>1, <1>2, <1>3, TypeInvariance, ExistInvariance, PTL
  DEF Spec, ImplementsLifecycle, Lifecycle!Spec, Statuses

-----------------------------------------------------------------------------
(* Energy.  updateEnergy refuses a COMPLETED session and stopSession       *)
(* computes from the row it read; only the two of them of one session,     *)
(* about to write together, can leave an energy that the readings do not   *)
(* say.  Everything else may overlap, two stops of a session included.     *)

EnergyApart ==
    \A p, q \in Slots : Running(p, "meter", "write") /\ Running(q, "stop", "write") =>
        job[p].s # job[q].s

EnergyInv ==
    /\ CompletedEnergy
    /\ \A p \in Slots :
          /\ Running(p, "meter", "write") => row[job[p].s].status # "COMPLETED"
          /\ Running(p, "stop", "write") => job[p].seen.start = row[job[p].s].start

\* meterStart of a row never changes, and only StopSession completes one.
LEMMA StartStays ==
    ASSUME TypeInv, NEW p \in Slots, Receive(p) \/ Handle(p), NEW s \in Sessions,
           row[s].status # "NONE"
    PROVE  /\ row'[s].start = row[s].start
           /\ \/ row'[s].status = "COMPLETED" => row[s].status = "COMPLETED"
              \/ StopSession(p) /\ job[p].s = s
<1>1. CASE row' = row
  BY <1>1
<1>2. CASE CreateSession(p) /\ row' # row
  BY <1>2, StartWrite
<1>3. CASE UpdateEnergy(p)
  BY <1>3, EnergyWrite
<1>4. CASE StopSession(p)
  BY <1>4, StopWrite
<1>5. CASE ResumeSession(p) \/ SuspendSession(p)
  BY <1>5, StatusWrite
<1>6. QED
  BY <1>1, <1>2, <1>3, <1>4, <1>5, Writers DEF Writes

\* A COMPLETED row was so before, unchanged, or is what StopSession wrote.
LEMMA CompletedRows ==
    ASSUME TypeInv, EnergyInv, NEW p \in Slots, Receive(p) \/ Handle(p), NEW s \in Sessions,
           row'[s].status = "COMPLETED"
    PROVE  row'[s].energy = Delivered(row'[s].start, row'[s].stop)
<1>1. CASE row'[s] = row[s]
  BY <1>1 DEF EnergyInv, CompletedEnergy
<1>2. CASE CreateSession(p) /\ row' # row
  <2>1. row'[s] = row[s]
    BY <1>2, StartWrite
  <2>2. QED
    BY <1>1, <2>1
<1>3. CASE UpdateEnergy(p)
  <2>1. row'[s].status = row[s].status /\ (s # job[p].s => row'[s] = row[s])
    BY <1>3, EnergyWrite
  <2>2. row[job[p].s].status # "COMPLETED"
    BY <1>3, EnergyWrite DEF EnergyInv
  <2>3. QED
    BY <1>1, <2>1, <2>2
<1>4. CASE StopSession(p)
  <2>1. CASE s = job[p].s
    <3>1. job[p].seen.start = row[s].start
      BY <1>4, <2>1, StopWrite DEF EnergyInv
    <3>2. /\ row'[s].start = row[s].start /\ row'[s].stop = job[p].m
          /\ row'[s].energy = Delivered(job[p].seen.start, job[p].m)
      BY <1>4, <2>1, StopWrite
    <3>3. QED
      BY <3>1, <3>2
  <2>2. QED
    BY <1>1, <1>4, <2>1, StopWrite
<1>5. CASE ResumeSession(p) \/ SuspendSession(p)
  <2>1. row'[s] = row[s]
    BY <1>5, StatusWrite
  <2>2. QED
    BY <1>1, <2>1
<1>6. QED
  BY <1>1, <1>2, <1>3, <1>4, <1>5, Writers DEF Writes

LEMMA EnergyStep ==
    ASSUME TypeInv, ExistInv, EnergyInv, EnergyApart, [Next]_vars PROVE EnergyInv'
<1>1. CASE UNCHANGED <<row, job>>
  BY <1>1 DEF EnergyInv, CompletedEnergy, Running
<1>2. CASE Restart
  <2>1. row' = row /\ \A p \in Slots : job'[p].at = "first"
    BY <1>2, RestartJobs, IdleFields
  <2>2. QED
    BY <2>1 DEF EnergyInv, CompletedEnergy, Running
<1>3. ASSUME NEW p \in Slots, Receive(p) \/ Handle(p), \A q \in Slots \ {p} : job'[q] = job[q]
      PROVE  EnergyInv'
  <2>1. CompletedEnergy'
    BY <1>3, CompletedRows DEF CompletedEnergy
  <2>2. /\ Running(p, "meter", "write")' => row'[job'[p].s].status # "COMPLETED"
        /\ Running(p, "stop", "write")' => job'[p].seen.start = row'[job'[p].s].start
    BY <1>3, Decides DEF Running, Terminal
  <2>3. ASSUME NEW q \in Slots \ {p}
        PROVE  /\ Running(q, "meter", "write")' => row'[job'[q].s].status # "COMPLETED"
               /\ Running(q, "stop", "write")' => job'[q].seen.start = row'[job'[q].s].start
    <3>1. job'[q] = job[q]
      BY <1>3
    <3>2. ASSUME job[q].op \in {"meter", "stop"}
          PROVE  job[q].s \in Sessions /\ row[job[q].s].status # "NONE"
      BY <3>2 DEF TypeInv, GoodJob, NeedsSession, ExistInv, Exists
    <3>3. CASE Running(q, "stop", "write")
      <4>1. row'[job[q].s].start = row[job[q].s].start
        BY <1>3, <3>2, <3>3, StartStays DEF Running
      <4>2. QED
        BY <3>1, <3>3, <4>1 DEF EnergyInv, Running
    <3>4. CASE Running(q, "meter", "write")
      <4>1. ~(StopSession(p) /\ job[p].s = job[q].s)
        BY <3>4, StopWrite DEF EnergyApart
      <4>2. row[job[q].s].status # "COMPLETED"
        BY <3>4 DEF EnergyInv
      <4>3. row'[job[q].s].status # "COMPLETED"
        BY <1>3, <3>2, <3>4, <4>1, <4>2, StartStays DEF Running
      <4>4. QED
        BY <3>1, <3>4, <4>3 DEF Running
    <3>5. QED
      BY <3>1, <3>3, <3>4 DEF Running
  <2>4. QED
    BY <2>1, <2>2, <2>3 DEF EnergyInv
<1>4. QED
  BY <1>1, <1>2, <1>3, StepShape

\* The energy of a COMPLETED session is what its two readings say, as long as
\* no sample of a session is about to be written together with its stop: no
\* sample before or after the stop stays in its place, and two stops of one
\* session leave the readings of the last.
THEOREM EnergyOfReadings == Spec /\ []EnergyApart => []CompletedEnergy
<1>1. TypeInv /\ ExistInv /\ EnergyInv /\ EnergyApart /\ [Next]_vars => EnergyInv'
  BY EnergyStep
<1>2. Init => EnergyInv
  <2> SUFFICES ASSUME Init PROVE EnergyInv
    OBVIOUS
  <2>1. \A s \in Sessions : row[s].status = "NONE"
    BY DEF Init, NoRow
  <2>2. \A p \in Slots : job[p].at = "first"
    BY IdleFields DEF Init
  <2>3. QED
    BY <2>1, <2>2 DEF EnergyInv, CompletedEnergy, Running
<1>3. EnergyInv => CompletedEnergy
  BY DEF EnergyInv
<1>4. QED
  BY <1>1, <1>2, <1>3, TypeInvariance, ExistInvariance, PTL DEF Spec

-----------------------------------------------------------------------------
(* The station and its socket.  Each handler of the coordinator moves the  *)
(* socket at once and the station's status one await later, so a close     *)
(* beside another of them can leave the status of the wrong one.  The      *)
(* handlers of frames may overlap with both, and connections with each     *)
(* other.                                                                  *)

LinksApart ==
    \A p, q \in Slots : p # q /\ job[p].op = "close" => job[q].op \notin {"connect", "close"}

\* What the station and the socket are while handler j runs.
Linked(j) ==
    /\ j.op = "connect" => socket /\ (j.at \in {"check", "read", "write"} => station = "ONLINE")
    /\ j.op = "close" => ~socket /\ (j.at # "first" => station = "OFFLINE")

LinkInv ==
    /\ (\A p \in Slots : job[p].op \notin {"connect", "close"}) => (station = "ONLINE" <=> socket)
    /\ \A p \in Slots : Linked(job[p])

\* A handler of a frame touches neither, and goes on being one until it ends.
LEMMA FrameStep ==
    ASSUME TypeInv, NEW p \in Slots, Receive(p) \/ Handle(p),
           ~Connect(p), ~Disconnect(p), job[p].op \notin {"connect", "close"}
    PROVE  UNCHANGED <<station, socket>> /\ job'[p].op \notin {"connect", "close"}
<1>0. /\ job[p] \in Job /\ Idle \in Job /\ Idle.op = "idle"
      /\ \A j : Continue(p, j) => job'[p] = j
  BY IdleFields, OneJob DEF TypeInv, TypeOK
<1>1. ASSUME Finish(p) PROVE job'[p].op = "idle"
  BY <1>0, <1>1 DEF Finish
<1>2. ASSUME NEW at, Continue(p, [job[p] EXCEPT !.at = at]) PROVE job'[p].op = job[p].op
  BY <1>2, MovesOn
<1>3. CASE Receive(p)
  <2>1. ASSUME NEW k \in Connectors, ReceiveStart(p, k) PROVE job'[p].op = "start"
    BY <1>0, <2>1 DEF ReceiveStart, Job
  <2>2. ASSUME NEW s \in Sessions, ReceiveMeterValues(p, s) PROVE job'[p].op = "meter"
    BY <1>0, <2>2 DEF ReceiveMeterValues, Job
  <2>3. ASSUME NEW s \in Sessions, ReceiveStop(p, s) PROVE job'[p].op = "stop"
    BY <1>0, <2>3 DEF ReceiveStop, Job
  <2>4. UNCHANGED <<station, socket>>
    BY <1>3 DEF Receive, ReceiveStart, ReceiveMeterValues, ReceiveStop
  <2>5. QED
    BY <1>3, <2>1, <2>2, <2>3, <2>4 DEF Receive
<1>4. CASE Precheck(p) \/ CreateSession(p) \/ RecordSample(p) \/ ReadForEnergy(p)
           \/ UpdateEnergy(p) \/ FindSessionToStop(p) \/ StopSession(p)
  BY <1>1, <1>2, <1>4
  DEF Precheck, CreateSession, RecordSample, ReadForEnergy, UpdateEnergy,
      FindSessionToStop, StopSession
<1>5. CASE ReadForStop(p)
  <2>1. ASSUME NEW r, Continue(p, [job[p] EXCEPT !.at = "write", !.seen = r])
        PROVE  job'[p].op = job[p].op
    BY <1>0, <2>1 DEF Job
  <2>2. QED
    BY <1>1, <1>5, <2>1 DEF ReadForStop
<1>6. QED
  BY <1>3, <1>4, <1>5
  DEF Handle, Running, FindOfflineSession, MarkOnline, CheckRecovery, ReadForResume,
      ResumeSession, MarkOffline, FindSessionsToSuspend, ReadForSuspend, SuspendSession

\* A step of a reconnection.
LEMMA ConnectStep ==
    ASSUME TypeInv, NEW p \in Slots, Handle(p), job[p].op = "connect"
    PROVE  /\ UNCHANGED socket
           /\ \/ job'[p].op = "connect" /\ job'[p].at = "station" /\ station' = station
              \/ job'[p].op \in {"connect", "idle"} /\ station' = "ONLINE"
              \/ /\ job'[p].op \in {"connect", "idle"} /\ station' = station
                 /\ job[p].at \in {"check", "read", "write"}
<1>0. /\ job[p] \in Job /\ Idle \in Job /\ Idle.op = "idle"
      /\ \A j : Continue(p, j) => job'[p] = j
  BY IdleFields, OneJob DEF TypeInv, TypeOK
<1>1. ASSUME Finish(p) PROVE job'[p].op = "idle"
  BY <1>0, <1>1 DEF Finish
<1>2. ASSUME NEW at, Continue(p, [job[p] EXCEPT !.at = at])
      PROVE  job'[p].op = "connect" /\ job'[p].at = at
  BY <1>2, MovesOn
<1>3. CASE FindOfflineSession(p)
  <2>1. ASSUME NEW s, NEW k, NEW r,
               Continue(p, [job[p] EXCEPT !.at = "station", !.s = s, !.k = k, !.seen = r])
        PROVE  job'[p].op = "connect" /\ job'[p].at = "station"
    BY <1>0, <2>1 DEF Job
  <2>2. QED
    BY <1>2, <1>3, <2>1 DEF FindOfflineSession
<1>4. CASE MarkOnline(p)
  BY <1>1, <1>2, <1>4 DEF MarkOnline
<1>5. CASE CheckRecovery(p) \/ ReadForResume(p) \/ ResumeSession(p)
  BY <1>1, <1>2, <1>5 DEF CheckRecovery, ReadForResume, ResumeSession, Running
<1>6. QED
  BY <1>3, <1>4, <1>5
  DEF Handle, Running, Precheck, CreateSession, RecordSample, ReadForEnergy, UpdateEnergy,
      FindSessionToStop, ReadForStop, StopSession, MarkOffline, FindSessionsToSuspend,
      ReadForSuspend, SuspendSession

\* What the loop of a reconciliation goes on with.
LEMMA NextJob ==
    ASSUME TypeInv, NEW p \in Slots, job[p].op = "close", NEW todo,
           NEW j \in NextOf(job[p], todo)
    PROVE  \/ todo = {} /\ j = Idle
           \/ /\ j.op = "close" /\ j.at = "read" /\ j.s \in todo
              /\ j.todo = todo \ {j.s}
<1>1. CASE todo = {}
  BY <1>1 DEF NextOf
<1>2. CASE todo # {}
  <2>1. PICK s \in todo :
           j = [job[p] EXCEPT !.at = "read", !.s = s, !.k = ConnectorOf[s],
                              !.todo = todo \ {s}]
    BY <1>2 DEF NextOf
  <2>2. j.op = "close" /\ j.at = "read" /\ j.s = s /\ j.todo = todo \ {s}
    BY <2>1 DEF Job, TypeInv, TypeOK
  <2>3. QED
    BY <2>2
<1>3. QED
  BY <1>1, <1>2

\* A step of a disconnect, and what it still has to see to.
LEMMA CloseStep ==
    ASSUME TypeInv, NEW p \in Slots, Handle(p), job[p].op = "close"
    PROVE  /\ UNCHANGED socket
           /\ \/ /\ job[p].at = "first" /\ station' = "OFFLINE" /\ row' = row
                 /\ job'[p].op = "close" /\ job'[p].at = "station"
              \/ /\ job[p].at = "station" /\ station' = station /\ row' = row
                 /\ \E j \in NextOf(job[p], {s \in Sessions : row[s].status = "ACTIVE"}) :
                       job'[p] = j
              \/ /\ job[p].at = "read" /\ station' = station /\ row' = row
                 /\ IF row[job[p].s].status = "ACTIVE"
                    THEN /\ job'[p].op = "close" /\ job'[p].at = "write"
                         /\ job'[p].s = job[p].s /\ job'[p].todo = job[p].todo
                    ELSE job'[p] = Idle
              \/ /\ SuspendSession(p) /\ job[p].at = "write" /\ station' = station
                 /\ \E j \in NextOf(job[p], job[p].todo) : job'[p] = j
<1>0. /\ job[p] \in Job /\ \A j : Continue(p, j) => job'[p] = j
  BY OneJob DEF TypeInv, TypeOK
<1>1. CASE MarkOffline(p)
  BY <1>1, MovesOn DEF MarkOffline, Running
<1>2. CASE FindSessionsToSuspend(p)
  BY <1>0, <1>2 DEF FindSessionsToSuspend, Running
<1>3. CASE ReadForSuspend(p)
  <2>1. Allowed(row[job[p].s].status, "OFFLINE") <=> row[job[p].s].status = "ACTIVE"
    BY DEF Allowed
  <2>2. ASSUME Continue(p, [job[p] EXCEPT !.at = "write"])
        PROVE  /\ job'[p].op = "close" /\ job'[p].at = "write"
               /\ job'[p].s = job[p].s /\ job'[p].todo = job[p].todo
    BY <2>2, MovesOn
  <2>3. job[p].at = "read" /\ station' = station /\ row' = row /\ socket' = socket
    BY <1>3 DEF ReadForSuspend, Running
  <2>4. CASE row[job[p].s].status = "ACTIVE"
    BY <1>3, <2>1, <2>2, <2>3, <2>4 DEF ReadForSuspend
  <2>5. CASE row[job[p].s].status # "ACTIVE"
    BY <1>0, <1>3, <2>1, <2>3, <2>5 DEF ReadForSuspend, Finish
  <2>6. QED
    BY <2>4, <2>5
<1>4. CASE SuspendSession(p)
  BY <1>0, <1>4 DEF SuspendSession, Running
<1>5. QED
  BY <1>1, <1>2, <1>3, <1>4
  DEF Handle, Running, Precheck, CreateSession, RecordSample, ReadForEnergy, UpdateEnergy,
      FindSessionToStop, ReadForStop, StopSession, FindOfflineSession, MarkOnline,
      CheckRecovery, ReadForResume, ResumeSession

LEMMA CloseStays ==
    ASSUME TypeInv, NEW p \in Slots, Handle(p), job[p].op = "close"
    PROVE  job'[p].op \in {"idle", "close"}
<1>1. ASSUME NEW todo, NEW j \in NextOf(job[p], todo), job'[p] = j
      PROVE  job'[p].op \in {"idle", "close"}
  <2>1. j = Idle \/ j.op = "close"
    BY <1>1, NextJob
  <2>2. QED
    BY <1>1, <2>1, IdleFields
<1>2. QED
  BY <1>1, CloseStep, IdleFields

\* The slot a socket opens or closes in was idle.
LEMMA SocketMoves ==
    ASSUME TypeInv, NEW p \in Slots
    PROVE  /\ Connect(p) => /\ job[p].op = "idle" /\ socket' = TRUE /\ station' = station
                            /\ row' = row /\ job'[p].op = "connect" /\ job'[p].at = "first"
           /\ Disconnect(p) => /\ job[p].op = "idle" /\ socket' = FALSE /\ station' = station
                               /\ row' = row /\ job'[p].op = "close" /\ job'[p].at = "first"
                               /\ socket
<1>0. /\ Idle \in Job /\ Idle.op = "idle" /\ Idle.at = "first"
      /\ \A j : Continue(p, j) => job'[p] = j
  BY IdleFields, OneJob
<1>1. ASSUME NEW op, Continue(p, [Idle EXCEPT !.op = op])
      PROVE  job'[p].op = op /\ job'[p].at = "first"
  BY <1>0, <1>1 DEF Job
<1>2. QED
  BY <1>0, <1>1 DEF Connect, Disconnect, Arrives

LEMMA LinkStep ==
    ASSUME TypeInv, LinkInv, LinksApart, LinksApart', [Next]_vars PROVE LinkInv'
<1>1. CASE UNCHANGED <<job, station, socket>>
  BY <1>1 DEF LinkInv, Linked
<1>2. CASE Restart
  <2>1. socket' = FALSE /\ station' # "ONLINE" /\ \A p \in Slots : job'[p].op = "idle"
    BY <1>2, RestartJobs, IdleFields
  <2>2. QED
    BY <2>1 DEF LinkInv, Linked
<1>3. ASSUME NEW p \in Slots, Receive(p) \/ Handle(p), \A q \in Slots \ {p} : job'[q] = job[q]
      PROVE  LinkInv'
  <2>1. CASE Connect(p)
    <3>1. socket' = TRUE /\ station' = station /\ job'[p].op = "connect" /\ job'[p].at = "first"
      BY <2>1, SocketMoves
    <3>2. \A q \in Slots \ {p} : job'[q].op # "close"
      BY <3>1 DEF LinksApart
    <3>3. QED
      BY <1>3, <3>1, <3>2 DEF LinkInv, Linked
  <2>2. CASE Disconnect(p)
    <3>1. socket' = FALSE /\ station' = station /\ job'[p].op = "close" /\ job'[p].at = "first"
      BY <2>2, SocketMoves
    <3>2. \A q \in Slots \ {p} : job'[q].op \notin {"connect", "close"}
      BY <3>1 DEF LinksApart
    <3>3. QED
      BY <3>1, <3>2 DEF LinkInv, Linked
  <2>3. CASE /\ ~Connect(p) /\ ~Disconnect(p) /\ job[p].op \notin {"connect", "close"}
    <3>1. UNCHANGED <<station, socket>> /\ job'[p].op \notin {"connect", "close"}
      BY <1>3, <2>3, FrameStep
    <3>2. QED
      BY <1>3, <2>3, <3>1 DEF LinkInv, Linked
  <2>4. CASE job[p].op = "connect" /\ ~Receive(p)
    <3>1. socket /\ \A q \in Slots \ {p} : job[q].op # "close"
      BY <2>4 DEF LinkInv, Linked, LinksApart
    <3>2. /\ UNCHANGED socket
          /\ \/ job'[p].op = "connect" /\ job'[p].at = "station" /\ station' = station
             \/ job'[p].op \in {"connect", "idle"} /\ station' = "ONLINE"
             \/ /\ job'[p].op \in {"connect", "idle"} /\ station' = station
                /\ job[p].at \in {"check", "read", "write"}
      BY <1>3, <2>4, ConnectStep
    <3>3. job[p].at \in {"check", "read", "write"} => station = "ONLINE"
      BY <2>4 DEF LinkInv, Linked
    <3>4. CASE job'[p].op = "connect" /\ job'[p].at = "station" /\ station' = station
      BY <1>3, <3>1, <3>2, <3>4 DEF LinkInv, Linked
    <3>5. CASE job'[p].op \in {"connect", "idle"} /\ station' = "ONLINE"
      BY <1>3, <3>1, <3>2, <3>5 DEF LinkInv, Linked
    <3>6. QED
      BY <3>2, <3>3, <3>4, <3>5
  <2>5. CASE job[p].op = "close" /\ ~Receive(p)
    <3>1. ~socket /\ \A q \in Slots \ {p} : job[q].op \notin {"connect", "close"}
      BY <2>5 DEF LinkInv, Linked, LinksApart
    <3>2. socket' = socket /\ station' = "OFFLINE"
      BY <1>3, <2>5, CloseStep DEF LinkInv, Linked
    <3>3. QED
      <4>1. job'[p].op # "connect"
        BY <1>3, <2>5, CloseStays
      <4>2. QED
        BY <1>3, <3>1, <3>2, <4>1 DEF LinkInv, Linked
  <2>6. Receive(p) => job[p].op = "idle"
    BY IdleFields
    DEF Receive, ReceiveStart, ReceiveMeterValues, ReceiveStop, Connect, Disconnect, Arrives
  <2>7. QED
    BY <2>1, <2>2, <2>3, <2>4, <2>5, <2>6
<1>4. QED
  BY <1>1, <1>2, <1>3, StepShape

\* As long as no disconnect overlaps with another connection event, the station
\* is ONLINE exactly if its socket is open once they have been handled, however
\* many frames and reconnections are handled together.
THEOREM LinkAgrees == Spec /\ []LinksApart => []StationAgrees
<1>1. TypeInv /\ LinkInv /\ LinksApart /\ LinksApart' /\ [Next]_vars => LinkInv'
  BY LinkStep
<1>2. Init => LinkInv
  BY IdleFields DEF Init, LinkInv, Linked
<1>3. LinkInv => StationAgrees
  <2> SUFFICES ASSUME LinkInv, Quiet PROVE station = "ONLINE" <=> socket
    BY DEF StationAgrees
  <2>1. \A p \in Slots : job[p].op = "idle"
    BY IdleFields DEF Quiet
  <2>2. QED
    BY <2>1 DEF LinkInv
<1>4. QED
  BY <1>1, <1>2, <1>3, TypeInvariance, PTL DEF Spec

-----------------------------------------------------------------------------
(* Sessions of a closed socket.  The list a disconnect reconciles is the   *)
(* ACTIVE sessions of one moment: it is complete, and each of its sessions *)
(* is still ACTIVE at its turn, if no handler that changes a status runs   *)
(* beside it.  Samples may.                                                *)

CloseAlone ==
    \A p, q \in Slots : p # q /\ job[p].op = "close" => job[q].op \in {"idle", "meter"}

\* What is left to suspend is what handler j is about to suspend.
Lists(j) ==
    j.op = "close" =>
        /\ ~socket
        /\ j.at \in {"read", "write"} =>
              /\ j.s \notin j.todo
              /\ \A t \in Sessions : row[t].status = "ACTIVE" <=> t = j.s \/ t \in j.todo

\* A closed socket, no disconnect being handled and no restart: nothing is left.
Settled ==
    restarts = 0 /\ ~socket /\ (\A p \in Slots : job[p].op # "close") =>
        /\ \A s \in Sessions : row[s].status # "ACTIVE"
        /\ \A p \in Slots : job[p].op \in {"idle", "meter"}

CloseInv == Settled /\ \A p \in Slots : Lists(job[p])

\* A sample changes no status.
LEMMA MeterStep ==
    ASSUME TypeInv, NEW p \in Slots, Handle(p), job[p].op = "meter"
    PROVE  /\ UNCHANGED socket /\ job'[p].op \in {"idle", "meter"}
           /\ \A t \in Sessions : row'[t].status = row[t].status
<1>0. /\ job[p] \in Job /\ Idle.op = "idle" /\ \A j : Continue(p, j) => job'[p] = j
  BY IdleFields, OneJob DEF TypeInv, TypeOK
<1>1. ASSUME Finish(p) PROVE job'[p].op = "idle"
  BY <1>0, <1>1 DEF Finish
<1>2. ASSUME NEW at, Continue(p, [job[p] EXCEPT !.at = at]) PROVE job'[p].op = "meter"
  BY <1>2, MovesOn
<1>3. CASE RecordSample(p) \/ ReadForEnergy(p)
  BY <1>1, <1>2, <1>3 DEF RecordSample, ReadForEnergy
<1>4. CASE UpdateEnergy(p)
  BY <1>1, <1>4, EnergyWrite DEF UpdateEnergy
<1>5. QED
  BY <1>3, <1>4
  DEF Handle, Running, Precheck, CreateSession, FindSessionToStop, ReadForStop, StopSession,
      FindOfflineSession, MarkOnline, CheckRecovery, ReadForResume, ResumeSession,
      MarkOffline, FindSessionsToSuspend, ReadForSuspend, SuspendSession

\* One turn of the loop.
LEMMA TurnStep ==
    ASSUME TypeInv, NEW p \in Slots, Handle(p), job[p].op = "close", Lists(job[p])
    PROVE  Lists(job[p])' /\ (job'[p].op = "close" \/ \A t \in Sessions : row'[t].status # "ACTIVE")
<1>0. /\ ~socket /\ socket' = socket /\ Idle.op = "idle"
      /\ job[p].todo \subseteq Sessions
  BY CloseStep, IdleFields DEF Lists, TypeInv, TypeOK, Job
<1>1. CASE job'[p].op = "close" /\ job'[p].at = "station"
  BY <1>0, <1>1 DEF Lists
<1>2. ASSUME NEW todo \in SUBSET Sessions, NEW j \in NextOf(job[p], todo), job'[p] = j,
             \A t \in Sessions : row'[t].status = "ACTIVE" <=> t \in todo
      PROVE  Lists(job[p])' /\ (job'[p].op = "close" \/ \A t \in Sessions : row'[t].status # "ACTIVE")
  <2>1. CASE todo = {} /\ j = Idle
    BY <1>0, <1>2, <2>1 DEF Lists
  <2>2. CASE j.op = "close" /\ j.at = "read" /\ j.s \in todo /\ j.todo = todo \ {j.s}
    BY <1>0, <1>2, <2>2 DEF Lists
  <2>3. \/ todo = {} /\ j = Idle
        \/ j.op = "close" /\ j.at = "read" /\ j.s \in todo /\ j.todo = todo \ {j.s}
    BY <1>2, NextJob
  <2>4. QED
    BY <2>1, <2>2, <2>3
<1>3. CASE /\ row' = row
           /\ \E j \in NextOf(job[p], {s \in Sessions : row[s].status = "ACTIVE"}) : job'[p] = j
  BY <1>2, <1>3
<1>4. CASE job[p].at = "read"
  <2>1. job[p].s \in Sessions /\ row[job[p].s].status = "ACTIVE"
    BY <1>4 DEF Lists, TypeInv, GoodJob, NeedsSession
  <2>2. /\ job'[p].op = "close" /\ job'[p].at = "write" /\ row' = row
        /\ job'[p].s = job[p].s /\ job'[p].todo = job[p].todo
    BY <1>4, <2>1, CloseStep
  <2>3. QED
    BY <1>0, <1>4, <2>2 DEF Lists
<1>5. CASE SuspendSession(p)
  <2>1. PICK j \in NextOf(job[p], job[p].todo) : job'[p] = j
    BY <1>5, OneJob DEF SuspendSession
  <2>2. /\ job[p].s \in Sessions /\ row'[job[p].s].status = "OFFLINE" /\ job[p].at = "write"
        /\ \A t \in Sessions \ {job[p].s} : row'[t] = row[t]
    BY <1>5, StatusWrite
  <2>3. \A t \in Sessions : row'[t].status = "ACTIVE" <=> t \in job[p].todo
    BY <2>2 DEF Lists
  <2>4. QED
    BY <1>0, <1>2, <2>1, <2>3
<1>6. QED
  BY <1>1, <1>3, <1>4, <1>5, CloseStep

LEMMA ReconcileStep ==
    ASSUME TypeInv, CloseInv, CloseAlone, CloseAlone', [Next]_vars PROVE CloseInv'
<1>1. CASE UNCHANGED <<row, job, socket, restarts>>
  BY <1>1 DEF CloseInv, Settled, Lists
<1>2. CASE Restart
  <2>1. restarts' # 0 /\ \A p \in Slots : job'[p].op = "idle"
    BY <1>2, RestartJobs, IdleFields
  <2>2. QED
    BY <2>1 DEF CloseInv, Settled, Lists
<1>3. ASSUME NEW p \in Slots, Receive(p) \/ Handle(p), restarts' = restarts,
             \A q \in Slots \ {p} : job'[q] = job[q]
      PROVE  CloseInv'
  <2>0. Receive(p) => job[p].op = "idle"
    BY IdleFields
    DEF Receive, ReceiveStart, ReceiveMeterValues, ReceiveStop, Connect, Disconnect, Arrives
  <2>1. CASE Connect(p)
    <3>1. socket' = TRUE /\ job'[p].op = "connect"
      BY <2>1, SocketMoves
    <3>2. \A q \in Slots \ {p} : job'[q].op # "close"
      BY <3>1 DEF CloseAlone
    <3>3. QED
      BY <3>1, <3>2 DEF CloseInv, Settled, Lists
  <2>2. CASE Disconnect(p)
    <3>1. socket' = FALSE /\ job'[p].op = "close" /\ job'[p].at = "first"
      BY <2>2, SocketMoves
    <3>2. \A q \in Slots \ {p} : job'[q].op \in {"idle", "meter"}
      BY <3>1 DEF CloseAlone
    <3>3. QED
      BY <3>1, <3>2 DEF CloseInv, Settled, Lists
  <2>3. CASE Receive(p) /\ ~Connect(p) /\ ~Disconnect(p)
    <3>1. socket /\ socket' = socket /\ row' = row
      BY <2>3 DEF Receive, ReceiveStart, ReceiveMeterValues, ReceiveStop
    <3>2. job'[p].op # "close"
      BY <1>3, <2>0, <2>3, FrameStep
    <3>3. QED
      BY <1>3, <3>1, <3>2 DEF CloseInv, Settled, Lists
  <2>4. CASE Handle(p) /\ job[p].op = "close"
    <3>1. /\ Lists(job[p])' /\ (job'[p].op = "close" \/ \A t \in Sessions : row'[t].status # "ACTIVE")
          /\ socket' = socket
      BY <2>4, TurnStep, CloseStep DEF CloseInv
    <3>2. \A q \in Slots \ {p} : job'[q].op \in {"idle", "meter"}
      BY <1>3, <2>4 DEF CloseAlone
    <3>3. job'[p].op \in {"idle", "close"}
      BY <2>4, CloseStays
    <3>4. Settled'
      BY <3>1, <3>2, <3>3 DEF Settled
    <3>5. \A q \in Slots \ {p} : Lists(job[q])'
      BY <3>2 DEF Lists
    <3>6. QED
      BY <3>1, <3>4, <3>5 DEF CloseInv
  <2>5. CASE Handle(p) /\ job[p].op = "meter"
    <3>1. /\ socket' = socket /\ job'[p].op \in {"idle", "meter"}
          /\ \A t \in Sessions : row'[t].status = row[t].status
      BY <2>5, MeterStep
    <3>2. QED
      BY <1>3, <2>5, <3>1 DEF CloseInv, Settled, Lists
  <2>6. CASE Handle(p) /\ job[p].op \notin {"close", "meter"}
    <3>1. job[p].op # "idle"
      BY <2>6
      DEF Handle, Running, Precheck, CreateSession, RecordSample, ReadForEnergy, UpdateEnergy,
          FindSessionToStop, ReadForStop, StopSession, FindOfflineSession, MarkOnline,
          CheckRecovery, ReadForResume, ResumeSession, MarkOffline, FindSessionsToSuspend,
          ReadForSuspend, SuspendSession
    <3>2. \A q \in Slots \ {p} : job[q].op # "close"
      BY <2>6, <3>1 DEF CloseAlone
    <3>3. restarts = 0 => socket
      BY <2>6, <3>1, <3>2 DEF CloseInv, Settled
    <3>4. socket' = socket /\ job'[p].op # "close"
      <4>1. CASE job[p].op = "connect"
        BY <2>6, <4>1, ConnectStep
      <4>2. CASE job[p].op # "connect"
        <5>1. ~Connect(p) /\ ~Disconnect(p)
          BY <3>1, SocketMoves
        <5>2. QED
          BY <2>6, <4>2, <5>1, FrameStep
      <4>3. QED
        BY <4>1, <4>2
    <3>5. QED
      BY <1>3, <3>2, <3>3, <3>4 DEF CloseInv, Settled, Lists
  <2>7. QED
    BY <1>3, <2>1, <2>2, <2>3, <2>4, <2>5, <2>6
<1>4. QED
  BY <1>1, <1>2, <1>3, StepShape

LEMMA CloseInvariance == Spec /\ []CloseAlone => []CloseInv
<1>1. TypeInv /\ CloseInv /\ CloseAlone /\ CloseAlone' /\ [Next]_vars => CloseInv'
  BY ReconcileStep
<1>2. Init => CloseInv
  <2> SUFFICES ASSUME Init PROVE CloseInv
    OBVIOUS
  <2>1. \A s \in Sessions : row[s].status # "ACTIVE"
    BY DEF Init, NoRow
  <2>2. \A p \in Slots : job[p].op = "idle"
    BY IdleFields DEF Init
  <2>3. QED
    BY <2>1, <2>2 DEF CloseInv, Settled, Lists
<1>3. QED
  BY <1>1, <1>2, TypeInvariance, PTL DEF Spec

\* A disconnect that only samples overlap with leaves no session ACTIVE, for any
\* number of sessions: none is stuck out of reach of the reconnect recovery.
THEOREM CloseStrandsNone == Spec /\ []CloseAlone => []NoneStranded
<1>1. CloseInv => NoneStranded
  <2> SUFFICES ASSUME CloseInv, Quiet, ~socket, restarts = 0
               PROVE  \A s \in Sessions : row[s].status # "ACTIVE"
    BY DEF NoneStranded
  <2>1. \A p \in Slots : job[p].op = "idle"
    BY IdleFields DEF Quiet
  <2>2. QED
    BY <2>1 DEF CloseInv, Settled
<1>2. QED
  BY <1>1, CloseInvariance, PTL

\* Its reconciliation finds every session of its list as it listed it, and does
\* not throw.
THEOREM CloseNeverThrows == Spec /\ []CloseAlone => []ReconcileNeverThrows
<1>1. TypeInv /\ CloseInv => ReconcileNeverThrows
  <2> SUFFICES ASSUME TypeInv, CloseInv, NEW p \in Slots, Running(p, "close", "read")
               PROVE  Allowed(row[job[p].s].status, "OFFLINE")
    BY DEF ReconcileNeverThrows
  <2>1. job[p].s \in Sessions
    BY DEF Running, TypeInv, GoodJob, NeedsSession
  <2>2. row[job[p].s].status = "ACTIVE"
    BY <2>1 DEF Running, CloseInv, Lists
  <2>3. QED
    BY <2>2 DEF Allowed
<1>2. QED
  BY <1>1, CloseInvariance, TypeInvariance, PTL

\* Handlers that never overlap satisfy every one of these conditions.
THEOREM OneHandler ==
  ASSUME \A p, q \in Slots : p = q
  PROVE  Spec => /\ [](CompletedEnergy /\ StationAgrees /\ NoneStranded /\ ReconcileNeverThrows)
                 /\ ImplementsLifecycle
<1>1. Apart /\ EnergyApart /\ LinksApart /\ CloseAlone
  BY DEF Apart, EnergyApart, LinksApart, CloseAlone, Running
<1>2. QED
  BY <1>1, ApartImplementsLifecycle, EnergyOfReadings, LinkAgrees, CloseStrandsNone, CloseNeverThrows, PTL

=============================================================================
