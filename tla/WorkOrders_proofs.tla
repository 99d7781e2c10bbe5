-------------------------- MODULE WorkOrders_proofs --------------------------
(***************************************************************************)
(* Theorems of WorkOrders, for any number of handlers that overlap.  Three *)
(* of them say which overlaps break a promise: orders implement their      *)
(* lifecycle as long as no two handlers have read the same order to move   *)
(* it (Apart), the timeline tells the status as long as none is moved      *)
(* before its last move is told (Disjoint), and an outage is reported once *)
(* as long as sweeps of offline stations do not overlap (OneSweep).        *)
(***************************************************************************)
EXTENDS WorkOrders, TLAPS

\* The orders of a sweep that may be closed without a person.
MayRecover(o) ==
    row[o].status # "NONE" /\ IsOutage(o) /\ up[StationOf[o]] > row[o].created

\* What a suspended handler relies on.
Good(j) ==
    /\ j.op \in PersonOps \union FieldOps => j.o \in Orders
    /\ j.op # "idle" /\ j.at = "event" => j.o \in Orders
    /\ j.op = "down" => j.s \in Stations
    /\ j.op \in PersonOps /\ j.at = "write" =>
          Valid(j.seen, j.op) /\ row[j.o].status # "NONE"
    /\ \A o \in j.todo : MayRecover(o)

UpInThePast == \A s \in Stations : up[s] <= clock

IInv ==
    /\ TypeOK
    /\ UpInThePast
    /\ \A p \in Slots : Good(job[p])
    /\ RecoveredMeansReconnected

-----------------------------------------------------------------------------
(* Lemmas about rows and jobs.                                             *)

LEMMA Statuses ==
    /\ Status = {"NONE", "OPEN", "ASSIGNED", "IN_PROGRESS", "RESOLVED", "CANCELLED"}
    /\ NonTerminal \subseteq Status /\ "NONE" \notin NonTerminal
BY DEF Status, NonTerminal, Terminal

LEMMA NoRowType == NoRow \in Row
BY ConstantsAssumption DEF NoRow, Row, Status, Source, Time

LEMMA IdleType == Idle \in Job
BY ConstantsAssumption DEF Idle, Job, Time, Status

LEMMA ValidFrom ==
    ASSUME NEW from \in Status, NEW op \in PersonOps, Valid(from, op)
    PROVE  from \in NonTerminal
BY DEF Valid

\* A row a handler writes: it is a row, it is not back at OPEN, and only the
\* automatic resolution marks it.
LEMMA AppliedRow ==
    ASSUME NEW r \in Row, NEW j \in Job,
           \/ j.op = "up"
           \/ j.op \in PersonOps /\ Valid(j.seen, j.op)
    PROVE  /\ Applied(r, j) \in Row
           /\ Applied(r, j).source = r.source /\ Applied(r, j).created = r.created
           /\ Applied(r, j).notes = "recovered" => r.notes = "recovered" \/ j.op = "up"
           /\ r.status # "NONE" => Applied(r, j).status # "NONE"
           /\ r.status \notin {"NONE", "OPEN"} => Applied(r, j).status # "OPEN"
<1> DEFINE new == NewStatus(j, r.status)
           notes == NewNotes(j, r.notes)
           to == IF j.op = "assign" THEN j.to ELSE r.assignee
<1>1. /\ new \in Status
      /\ r.status # "NONE" => new # "NONE"
      /\ r.status \notin {"NONE", "OPEN"} => new # "OPEN"
  BY DEF NewStatus, Valid, Row, Job, Status, NonTerminal, Terminal
<1>2. notes \in {"person", "recovered"} /\ (notes = "recovered" => r.notes = "recovered" \/ j.op = "up")
  BY DEF NewNotes, Row
<1>3. to \in Members \union {None}
  BY DEF Row, Job
<1>4. Applied(r, j) = [r EXCEPT !.status = new, !.assignee = to, !.notes = notes]
  BY DEF Applied, Row
<1> HIDE DEF new, notes, to
<1>5. QED
  BY <1>1, <1>2, <1>3, <1>4 DEF Row

-----------------------------------------------------------------------------
(* What the rows and times keep from one step to the next.                 *)

RowsKept ==
    \A o \in Orders : row[o].status # "NONE" =>
       /\ row'[o].status # "NONE"
       /\ row'[o].source = row[o].source /\ row'[o].created = row[o].created

UpKept == \A s \in Stations : up'[s] >= up[s]

LEMMA GoodIsKept ==
    ASSUME TypeOK, TypeOK', RowsKept, UpKept, NEW j \in Job, Good(j)
    PROVE  Good(j)'
<1>1. ASSUME NEW o \in Orders, MayRecover(o) PROVE MayRecover(o)'
  BY <1>1, ConstantsAssumption DEF MayRecover, IsOutage, RowsKept, UpKept, TypeOK, Time, Row
<1>2. QED
  BY <1>1 DEF Good, RowsKept, Job

\* One handler moves on, the others stay where they are.
LEMMA JobsStayGood ==
    ASSUME IInv, TypeOK', RowsKept, UpKept,
           NEW p \in Slots, NEW j \in Job, job' = [job EXCEPT ![p] = j], Good(j)'
    PROVE  \A q \in Slots : Good(job[q])'
<1> SUFFICES ASSUME NEW q \in Slots PROVE Good(job[q])'
  OBVIOUS
<1>1. CASE q = p
  <2>1. job'[q] = j
    BY <1>1 DEF IInv, TypeOK
  <2>2. QED
    BY <2>1 DEF Good, MayRecover, IsOutage
<1>2. CASE q # p
  <2>1. job'[q] = job[q] /\ job[q] \in Job /\ Good(job[q]) /\ TypeOK
    BY <1>2 DEF IInv, TypeOK
  <2>2. PICK k \in Job : k = job[q]
    BY <2>1
  <2>3. Good(k)
    BY <2>1, <2>2
  <2>4. Good(k)'
    BY <2>1, <2>3, GoodIsKept
  <2>5. k = job'[q]
    BY <2>1, <2>2
  <2>6. QED
    BY <2>4, <2>5 DEF Good, MayRecover, IsOutage
<1>3. QED
  BY <1>1, <1>2

\* A step that only moves a handler on.
LEMMA JobStep ==
    ASSUME IInv, NEW p \in Slots, NEW j \in Job, Good(j), Continue(p, j),
           UNCHANGED <<row, stationVars, clock, reports>>, faults' \in 0..MaxFaults,
           told' = told \/ told' \in [Orders -> Status]
    PROVE  IInv'
<1>1. TypeOK'
  BY DEF IInv, TypeOK, Continue, stationVars
<1>2. RowsKept /\ UpKept
  BY ConstantsAssumption DEF IInv, TypeOK, RowsKept, UpKept, stationVars, Time
<1>3. Good(j)'
  BY <1>1, <1>2, GoodIsKept DEF IInv
<1>4. \A q \in Slots : Good(job[q])'
  BY <1>1, <1>2, <1>3, JobsStayGood DEF Continue
<1>5. UpInThePast' /\ RecoveredMeansReconnected'
  BY DEF IInv, UpInThePast, RecoveredMeansReconnected, IsOutage, stationVars
<1>6. QED
  BY <1>1, <1>4, <1>5 DEF IInv

\* A step that writes a row and moves the handler on.
LEMMA RowStep ==
    ASSUME IInv, NEW p \in Slots, NEW j \in Job, Good(j)', Continue(p, j),
           NEW o \in Orders, NEW r \in Row, row' = [row EXCEPT ![o] = r],
           row[o].status # "NONE" =>
              r.status # "NONE" /\ r.source = row[o].source /\ r.created = row[o].created,
           r.notes = "recovered" =>
              row[o].status # "NONE" /\ (row[o].notes = "recovered" \/ MayRecover(o)),
           UNCHANGED <<told, stationVars, clock, faults>>, reports' \in [Stations -> Nat]
    PROVE  IInv'
<1>1. TypeOK'
  BY DEF IInv, TypeOK, Continue, stationVars
<1>2. RowsKept /\ UpKept
  BY ConstantsAssumption DEF IInv, TypeOK, RowsKept, UpKept, stationVars, Time
<1>3. \A q \in Slots : Good(job[q])'
  BY <1>1, <1>2, JobsStayGood DEF Continue
<1>4. UpInThePast'
  BY DEF IInv, UpInThePast, stationVars
<1>5. RecoveredMeansReconnected'
  <2> SUFFICES ASSUME NEW q \in Orders, row'[q].notes = "recovered"
               PROVE  IsOutage(q)' /\ up'[StationOf[q]] > row'[q].created
    BY DEF RecoveredMeansReconnected
  <2>1. CASE q = o
    <3>1. row'[o] = r
      BY DEF IInv, TypeOK
    <3>2. row[o].status # "NONE" /\ IsOutage(o) /\ up[StationOf[o]] > row[o].created
      BY <2>1, <3>1 DEF IInv, RecoveredMeansReconnected, MayRecover
    <3>3. QED
      BY <2>1, <3>1, <3>2 DEF IsOutage, stationVars
  <2>2. CASE q # o
    BY <2>2 DEF IInv, TypeOK, RecoveredMeansReconnected, IsOutage, stationVars
  <2>3. QED
    BY <2>1, <2>2
<1>6. QED
  BY <1>1, <1>3, <1>4, <1>5 DEF IInv

\* Where the loop of a sweep, or a handler that is done, goes.
LEMMA AfterOneGood ==
    ASSUME IInv, NEW p \in Slots, AfterOne(p)
    PROVE  \E j \in Job : Good(j) /\ Continue(p, j)
<1>1. Idle \in Job /\ Good(Idle)
  BY IdleType DEF Idle, Good, PersonOps, FieldOps
<1>2. job[p] \in Job /\ Good(job[p])
  BY DEF IInv, TypeOK
<1>3. CASE job[p].op = "down" /\ NextStation(p, [job[p].since EXCEPT ![job[p].s] = 0])
  <2> DEFINE since == [job[p].since EXCEPT ![job[p].s] = 0]
  <2>1. since \in [Stations -> Time]
    <3>1. 0 \in Time /\ job[p].since \in [Stations -> Time]
      BY <1>2, ConstantsAssumption DEF Job, Time
    <3>2. QED
      BY <3>1
  <2>2. CASE Finish(p)
    BY <1>1, <2>2 DEF Finish
  <2>3. ASSUME NEW s \in Stations,
               Continue(p, [Idle EXCEPT !.op = "down", !.at = "find", !.s = s, !.since = since])
        PROVE  \E j \in Job : Good(j) /\ Continue(p, j)
    <3> DEFINE j == [Idle EXCEPT !.op = "down", !.at = "find", !.s = s, !.since = since]
    <3>1. j \in Job
      BY <1>1, <2>1 DEF Job
    <3>2. Good(j)
      BY <1>1 DEF Good, Idle, PersonOps, FieldOps
    <3>3. QED
      BY <2>3, <3>1, <3>2
  <2>4. QED
    BY <1>3, <2>2, <2>3 DEF NextStation
<1>4. CASE /\ job[p].op = "up" /\ job[p].todo # {}
           /\ Continue(p, [job[p] EXCEPT !.at = "write", !.o = None])
  <2> DEFINE j == [job[p] EXCEPT !.at = "write", !.o = None]
  <2>1. j \in Job
    BY <1>2 DEF Job
  <2>2. Good(j)
    BY <1>2, <1>4 DEF Good, Job, PersonOps, FieldOps
  <2>3. QED
    BY <1>4, <2>1, <2>2
<1>5. CASE Finish(p)
  BY <1>1, <1>5 DEF Finish
<1>6. QED
  BY <1>3, <1>4, <1>5 DEF AfterOne

-----------------------------------------------------------------------------
(* The steps.                                                              *)

LEMMA InitInv == Init => IInv
<1> SUFFICES ASSUME Init PROVE IInv
  OBVIOUS
<1>1. TypeOK
  BY NoRowType, IdleType, ConstantsAssumption DEF Init, TypeOK, Status, Time
<1>2. UpInThePast
  <2>1. clock = 1 /\ up = [s \in Stations |-> 0]
    BY DEF Init
  <2>2. \A s \in Stations : up[s] = 0
    BY <2>1
  <2>3. ASSUME NEW s \in Stations PROVE up[s] <= clock
    <3>1. up[s] = 0 /\ clock = 1 /\ 0 <= 1
      BY <2>1, <2>2
    <3>2. QED
      BY <3>1, Zenon
  <2>4. QED
    BY <2>3 DEF UpInThePast
<1>3. \A p \in Slots : Good(job[p])
  <2>1. Good(Idle)
    BY DEF Idle, Good, PersonOps, FieldOps
  <2>2. \A p \in Slots : job[p] = Idle
    BY DEF Init
  <2>3. QED
    BY <2>1, <2>2
<1>4. RecoveredMeansReconnected
  BY DEF Init, RecoveredMeansReconnected, NoRow
<1>5. QED
  BY <1>1, <1>2, <1>3, <1>4 DEF IInv

LEMMA ReadInv ==
    ASSUME IInv, NEW p \in Slots,
           \/ \E op \in PersonOps, o \in Orders, to \in Members : Request(p, op, o, to)
           \/ \E op \in MyWorkOps, o \in Orders, who \in Members : MyWork(p, op, o, who)
           \/ Own(p) \/ Read(p) \/ FindExisting(p) \/ SweepDown(p) \/ SweepUp(p)
    PROVE  IInv'
<1>1. Idle \in Job /\ Good(Idle)
  BY IdleType DEF Idle, Good, PersonOps, FieldOps
<1>2. job[p] \in Job /\ Good(job[p]) /\ faults \in 0..MaxFaults
  BY DEF IInv, TypeOK
<1>3. CASE Finish(p) /\ UNCHANGED <<row, told, stationVars, clock, faults, reports>>
  BY <1>1, <1>2, <1>3, JobStep DEF Finish
<1>4. ASSUME NEW op \in PersonOps, NEW o \in Orders, NEW to \in Members, Request(p, op, o, to)
      PROVE  IInv'
  <2> DEFINE j == [Idle EXCEPT !.op = op, !.at = "read", !.o = o,
                               !.to = IF op = "assign" THEN to ELSE None]
  <2>1. j \in Job
    BY <1>1 DEF Job
  <2>2. Good(j)
    BY <1>1 DEF Good, Idle, PersonOps, FieldOps
  <2>3. Continue(p, j) /\ UNCHANGED <<row, told, stationVars, clock, faults, reports>>
    BY <1>4 DEF Request, Start
  <2> HIDE DEF j
  <2>4. QED
    BY <1>2, <2>1, <2>2, <2>3, JobStep
<1>5. ASSUME NEW op \in MyWorkOps, NEW o \in Orders, NEW who \in Members, MyWork(p, op, o, who)
      PROVE  IInv'
  <2> DEFINE j == [Idle EXCEPT !.op = op, !.at = "own", !.o = o, !.who = who]
  <2>1. j \in Job
    BY <1>1 DEF Job, MyWorkOps, PersonOps
  <2>2. Good(j)
    BY <1>1 DEF Good, Idle, PersonOps, FieldOps, MyWorkOps
  <2>3. Continue(p, j) /\ UNCHANGED <<row, told, stationVars, clock, faults, reports>>
    BY <1>5 DEF MyWork, Start
  <2> HIDE DEF j
  <2>4. QED
    BY <1>2, <2>1, <2>2, <2>3, JobStep
<1>6. CASE Own(p) /\ ~Finish(p)
  <2> DEFINE j == [job[p] EXCEPT !.at = IF job[p].op \in FieldOps THEN "event" ELSE "read",
                                 !.who = None]
  <2>1. job[p].op \in MyWorkOps
    BY <1>6 DEF Own, Running
  <2>2. j \in Job
    BY <1>2 DEF Job
  <2>3. Good(j)
    BY <1>2, <2>1 DEF Good, Job, PersonOps, FieldOps, MyWorkOps
  <2>4. Continue(p, j) /\ UNCHANGED <<row, told, stationVars, clock, faults, reports>>
    BY <1>6 DEF Own
  <2> HIDE DEF j
  <2>5. QED
    BY <1>2, <2>2, <2>3, <2>4, JobStep
<1>7. CASE Read(p) /\ ~Finish(p)
  <2> DEFINE from == row[job[p].o].status
             j == [job[p] EXCEPT !.at = "write", !.seen = from]
  <2>1. job[p].op \in PersonOps /\ job[p].o \in Orders
    BY <1>2, <1>7 DEF Read, Running, Good
  <2>2. from \in Status
    BY <2>1 DEF IInv, TypeOK, Row
  <2>3. Valid(from, job[p].op) /\ Continue(p, j)
        /\ UNCHANGED <<row, told, stationVars, clock, faults, reports>>
    BY <1>7 DEF Read
  <2>4. j \in Job
    BY <1>2, <2>2 DEF Job
  <2>5. from # "NONE"
    BY <2>1, <2>2, <2>3, ValidFrom DEF NonTerminal
  <2>6. Good(j)
    BY <1>2, <2>1, <2>3, <2>5 DEF Good, Job, PersonOps, FieldOps
  <2> HIDE DEF j
  <2>7. QED
    BY <1>2, <2>3, <2>4, <2>6, JobStep
<1>8. CASE FindExisting(p)
  <2>1. CASE AfterOne(p)
    <3>1. PICK j \in Job : Good(j) /\ Continue(p, j)
      BY <2>1, AfterOneGood
    <3>2. QED
      BY <1>2, <1>8, <3>1, JobStep DEF FindExisting
  <2>2. CASE ~AfterOne(p)
    <3> DEFINE j == [job[p] EXCEPT !.at = "write"]
    <3>1. j \in Job
      BY <1>2 DEF Job
    <3>2. Good(j)
      BY <1>2, <1>8 DEF FindExisting, Running, Good, Job, PersonOps, FieldOps
    <3>3. Continue(p, j) /\ UNCHANGED <<row, told, stationVars, clock, faults, reports>>
      BY <1>8, <2>2 DEF FindExisting
    <3> HIDE DEF j
    <3>4. QED
      BY <1>2, <3>1, <3>2, <3>3, JobStep
  <2>3. QED
    BY <2>1, <2>2
<1>9. CASE SweepDown(p)
  <2> DEFINE since == [s \in Stations |-> IF LongDown(s) THEN down[s] ELSE 0]
  <2>1. since \in [Stations -> Time]
    BY ConstantsAssumption DEF IInv, TypeOK, Time
  <2>2. NextStation(p, since) /\ UNCHANGED <<row, told, stationVars, clock, faults, reports>>
    BY <1>9 DEF SweepDown
  <2> HIDE DEF since
  <2>3. CASE Finish(p)
    BY <1>3, <2>2, <2>3
  <2>4. ASSUME NEW s \in Stations,
               Continue(p, [Idle EXCEPT !.op = "down", !.at = "find", !.s = s, !.since = since])
        PROVE  IInv'
    <3> DEFINE j == [Idle EXCEPT !.op = "down", !.at = "find", !.s = s, !.since = since]
    <3>1. j \in Job
      BY <1>1, <2>1 DEF Job
    <3>2. Good(j)
      BY <1>1 DEF Good, Idle, PersonOps, FieldOps
    <3>3. Continue(p, j)
      BY <2>4
    <3> HIDE DEF j
    <3>4. QED
      BY <1>2, <2>2, <3>1, <3>2, <3>3, JobStep
  <2>5. QED
    BY <2>2, <2>3, <2>4 DEF NextStation
<1>10. CASE SweepUp(p)
  <2> DEFINE todo == {o \in Orders : Recovered(o)}
             j == [Idle EXCEPT !.op = "up", !.at = "write", !.todo = todo]
  <2>1. j \in Job
    BY <1>1 DEF Job
  <2>2. \A o \in todo : MayRecover(o)
    BY DEF Recovered, MayRecover, NonTerminal
  <2>3. Good(j)
    BY <2>2, IdleType DEF Good, Idle, Job, PersonOps, FieldOps
  <2>4. Continue(p, j) /\ UNCHANGED <<row, told, stationVars, clock, faults, reports>>
    BY <1>10 DEF SweepUp, Start
  <2> HIDE DEF j
  <2>5. QED
    BY <1>2, <2>1, <2>3, <2>4, JobStep
<1>11. QED
  BY <1>3, <1>4, <1>5, <1>6, <1>7, <1>8, <1>9, <1>10 DEF Own, Read

LEMMA WriteInv ==
    ASSUME IInv, NEW p \in Slots, Write(p)
    PROVE  IInv'
<1>1. /\ job[p] \in Job /\ Good(job[p])
      /\ job[p].op \in PersonOps /\ job[p].at = "write"
  BY DEF IInv, TypeOK, Write, Running
<1>2. PICK o \in Orders : o = job[p].o
  BY <1>1 DEF Good
<1>3. Valid(job[p].seen, job[p].op) /\ row[o].status # "NONE" /\ row[o] \in Row
  BY <1>1, <1>2 DEF Good, IInv, TypeOK
<1>4. job[p].op # "up"
  BY <1>1 DEF PersonOps
<1>5. PICK r \in Row : r = Applied(row[o], job[p])
  BY <1>1, <1>3, AppliedRow
<1>6. /\ r.source = row[o].source /\ r.created = row[o].created
      /\ r.status # "NONE" /\ (r.notes = "recovered" => row[o].notes = "recovered")
  BY <1>1, <1>3, <1>4, <1>5, AppliedRow
<1>7. PICK j \in Job : j = [job[p] EXCEPT !.at = "event", !.to = None, !.seen = "NONE"]
  BY <1>1 DEF Job, Status
<1>8. /\ row' = [row EXCEPT ![o] = r] /\ Continue(p, j)
      /\ UNCHANGED <<told, stationVars, clock, faults, reports>>
  BY <1>2, <1>5, <1>7 DEF Write
<1>9. Good(j)'
  <2>1. \A q \in job[p].todo : MayRecover(q)'
    BY <1>1, <1>3, <1>6, <1>8, ConstantsAssumption
    DEF Good, Job, MayRecover, IsOutage, IInv, TypeOK, stationVars
  <2>2. j.op = job[p].op /\ j.o = o /\ j.at = "event" /\ j.todo = job[p].todo
    BY <1>1, <1>2, <1>7 DEF Job
  <2>3. QED
    BY <1>1, <2>1, <2>2 DEF Good, PersonOps, FieldOps
<1>10. reports' \in [Stations -> Nat]
  BY <1>8 DEF IInv, TypeOK
<1>11. QED
  BY <1>3, <1>6, <1>8, <1>9, <1>10, RowStep

LEMMA ResolveInv ==
    ASSUME IInv, NEW p \in Slots, NEW o \in Orders, Resolve(p, o)
    PROVE  IInv'
<1>1. /\ job[p] \in Job /\ Good(job[p]) /\ row[o] \in Row
      /\ job[p].op = "up" /\ o \in job[p].todo
  BY DEF IInv, TypeOK, Resolve, Running
<1>2. MayRecover(o) /\ row[o].status # "NONE"
  BY <1>1 DEF Good, MayRecover
<1>3. PICK r \in Row : r = Applied(row[o], job[p])
  BY <1>1, AppliedRow
<1>4. r.source = row[o].source /\ r.created = row[o].created /\ r.status # "NONE"
  BY <1>1, <1>2, <1>3, AppliedRow
<1>5. PICK j \in Job : j = [job[p] EXCEPT !.at = "event", !.o = o, !.todo = @ \ {o}]
  BY <1>1 DEF Job
<1>6. /\ row' = [row EXCEPT ![o] = r] /\ Continue(p, j)
      /\ UNCHANGED <<told, stationVars, clock, faults, reports>>
  BY <1>3, <1>5 DEF Resolve
<1>7. Good(j)'
  <2>1. \A q \in job[p].todo : MayRecover(q)'
    BY <1>1, <1>2, <1>4, <1>6, ConstantsAssumption
    DEF Good, Job, MayRecover, IsOutage, IInv, TypeOK, stationVars
  <2>2. j.op = "up" /\ j.o = o /\ j.todo \subseteq job[p].todo
    BY <1>1, <1>5 DEF Job
  <2>3. QED
    BY <2>1, <2>2 DEF Good, PersonOps, FieldOps
<1>8. reports' \in [Stations -> Nat]
  BY <1>6 DEF IInv, TypeOK
<1>9. QED
  BY <1>2, <1>4, <1>6, <1>7, <1>8, RowStep

LEMMA InsertInv ==
    ASSUME IInv, NEW p \in Slots, NEW s \in Stations, NEW source \in Source,
           source # "MANUAL" => job[p].op = "down",
           Insert(p, s, source), reports' \in [Stations -> Nat]
    PROVE  IInv'
<1> DEFINE op == IF source = "MANUAL" THEN "create" ELSE "down"
<1>1. PICK o \in Unused(s) : o = CHOOSE q \in Unused(s) : TRUE
  BY DEF Insert
<1>2. o \in Orders /\ row[o].status = "NONE"
  BY <1>1 DEF Unused
<1>3. PICK r \in Row : r = [NoRow EXCEPT !.status = "OPEN", !.source = source,
                                         !.created = IF source = "MANUAL" THEN 0 ELSE clock]
  <2>1. clock \in Time /\ 0 \in Time
    BY ConstantsAssumption DEF IInv, TypeOK, Time
  <2>2. QED
    BY <2>1, NoRowType DEF NoRow, Row, Status, NonTerminal
<1>4. r.notes = "person"
  BY <1>3 DEF NoRow, Row
<1>5. job[p] \in Job /\ Good(job[p]) /\ op \in {"create", "down"}
  BY DEF IInv, TypeOK
<1>6. PICK j \in Job : j = [job[p] EXCEPT !.op = op, !.at = "event", !.o = o]
  BY <1>2, <1>5 DEF Job
<1>7. /\ row' = [row EXCEPT ![o] = r] /\ Continue(p, j)
      /\ UNCHANGED <<told, stationVars, clock, faults>>
  BY <1>1, <1>3, <1>6 DEF Insert
<1>8. Good(j)'
  <2>1. \A q \in job[p].todo : MayRecover(q)'
    BY <1>2, <1>5, <1>7, ConstantsAssumption
    DEF Good, Job, MayRecover, IsOutage, IInv, TypeOK, stationVars
  <2>2. j.op = op /\ j.o = o /\ j.todo = job[p].todo /\ j.s = job[p].s
    BY <1>5, <1>6 DEF Job
  <2>3. op = "down" => job[p].s \in Stations
    BY <1>5 DEF Good
  <2>4. QED
    BY <1>2, <1>5, <2>1, <2>2, <2>3 DEF Good, PersonOps, FieldOps
<1>9. QED
  BY <1>2, <1>4, <1>7, <1>8, RowStep

LEMMA LogEventInv ==
    ASSUME IInv, NEW p \in Slots, LogEvent(p)
    PROVE  IInv'
<1>1. PICK j \in Job : Good(j) /\ Continue(p, j)
  BY AfterOneGood DEF LogEvent
<1>2. told' \in [Orders -> Status]
  <2>1. job[p].o \in Orders /\ told \in [Orders -> Status]
    BY DEF IInv, TypeOK, LogEvent, Good
  <2>2. Told(told[job[p].o], job[p].op) \in Status
    BY <2>1 DEF Told, Status, NonTerminal, Terminal
  <2>3. QED
    BY <2>1, <2>2 DEF LogEvent
<1>3. UNCHANGED <<row, stationVars, clock, reports>> /\ faults' \in 0..MaxFaults
  BY DEF LogEvent, IInv, TypeOK
<1>4. QED
  BY <1>1, <1>2, <1>3, JobStep

LEMMA FailStatementInv ==
    ASSUME IInv, NEW p \in Slots, FailStatement(p)
    PROVE  IInv'
<1>1. PICK j \in Job : Good(j) /\ Continue(p, j)
  <2>1. Idle \in Job /\ Good(Idle)
    BY IdleType DEF Idle, Good, PersonOps, FieldOps
  <2>2. CASE Finish(p)
    BY <2>1, <2>2 DEF Finish
  <2>3. CASE AfterOne(p)
    BY <2>3, AfterOneGood
  <2>4. QED
    BY <2>2, <2>3 DEF FailStatement
<1>2. /\ UNCHANGED <<row, stationVars, clock, reports>> /\ told' = told
      /\ faults' \in 0..MaxFaults
  BY ConstantsAssumption DEF FailStatement, IInv, TypeOK
<1>3. QED
  BY <1>1, <1>2, JobStep

\* A step that leaves every row alone and keeps or ends the handlers.
LEMMA WorldStep ==
    ASSUME IInv, TypeOK', UpKept, UpInThePast', row' = row,
           job' = job \/ job' = [p \in Slots |-> Idle]
    PROVE  IInv'
<1>1. RowsKept
  BY DEF RowsKept
<1>2. \A p \in Slots : Good(job[p])'
  <2> SUFFICES ASSUME NEW p \in Slots PROVE Good(job[p])'
    OBVIOUS
  <2>1. PICK j \in Job : j = job'[p] /\ Good(j)
    BY IdleType DEF IInv, TypeOK, Idle, Good, PersonOps, FieldOps
  <2>2. Good(j)'
    BY <1>1, <2>1, GoodIsKept DEF IInv
  <2>3. QED
    BY <2>1, <2>2 DEF Good, MayRecover, IsOutage
<1>3. RecoveredMeansReconnected'
  BY ConstantsAssumption DEF IInv, TypeOK, UpKept, RecoveredMeansReconnected, IsOutage, Time, Row
<1>4. QED
  BY <1>2, <1>3 DEF IInv

LEMMA WorldInv ==
    ASSUME IInv, Crash \/ Tick \/ \E s \in Stations : Connect(s) \/ Disconnect(s)
    PROVE  IInv'
<1>1. TypeOK'
  <2>1. CASE Crash
    BY <2>1, IdleType, ConstantsAssumption DEF Crash, IInv, TypeOK
  <2>2. CASE Tick
    BY <2>2, ConstantsAssumption DEF Tick, IInv, TypeOK, Time, stationVars
  <2>3. ASSUME NEW s \in Stations, Connect(s) PROVE TypeOK'
    BY <2>3 DEF Connect, IInv, TypeOK
  <2>4. ASSUME NEW s \in Stations, Disconnect(s) PROVE TypeOK'
    BY <2>4 DEF Disconnect, IInv, TypeOK
  <2>5. QED
    BY <2>1, <2>2, <2>3, <2>4
<1>2. UpKept /\ UpInThePast'
  <2>1. clock \in Nat /\ clock' \in Nat /\ clock' >= clock
    BY <1>1, ConstantsAssumption DEF Crash, Tick, Connect, Disconnect, IInv, TypeOK, Time
  <2>2. \A s \in Stations : up[s] \in Nat /\ up[s] <= clock
    <3>1. Time \subseteq Nat
      BY ConstantsAssumption DEF Time
    <3>2. QED
      BY <3>1 DEF IInv, TypeOK, UpInThePast
  <2>3. \A s \in Stations : up'[s] = up[s] \/ up'[s] = clock
    BY DEF Crash, Tick, Connect, Disconnect, IInv, TypeOK, stationVars
  <2>4. QED
    BY <2>1, <2>2, <2>3 DEF UpKept, UpInThePast
<1>3. row' = row /\ (job' = job \/ job' = [p \in Slots |-> Idle])
  BY DEF Crash, Tick, Connect, Disconnect
<1>4. QED
  BY <1>1, <1>2, <1>3, WorldStep

LEMMA NextInv == IInv /\ [Next]_vars => IInv'
<1> SUFFICES ASSUME IInv, [Next]_vars PROVE IInv'
  OBVIOUS
<1>1. ASSUME NEW p \in Slots, Step(p) \/ Ask(p) \/ SweepDown(p) \/ SweepUp(p) \/ FailStatement(p)
      PROVE  IInv'
  <2>1. CASE \/ Own(p) \/ Read(p) \/ FindExisting(p) \/ SweepDown(p) \/ SweepUp(p)
             \/ \E o \in Orders, m \in Members :
                   \/ \E op \in PersonOps : Request(p, op, o, m)
                   \/ \E op \in MyWorkOps : MyWork(p, op, o, m)
    BY <2>1, ReadInv
  <2>2. CASE Report(p)
    <3>1. job[p].op = "down" /\ job[p].s \in Stations /\ Insert(p, job[p].s, "CONNECTIVITY_LOSS")
      BY <2>2 DEF Report, Running, IInv, Good
    <3>2. reports' \in [Stations -> Nat]
      <4>1. reports \in [Stations -> Nat] /\ reports' = [reports EXCEPT ![job[p].s] = @ + 1]
        BY <2>2 DEF Report, IInv, TypeOK
      <4>2. reports[job[p].s] + 1 \in Nat
        BY <3>1, <4>1
      <4>3. QED
        BY <4>1, <4>2
    <3>3. QED
      BY <3>1, <3>2, InsertInv DEF Source
  <2>3. ASSUME NEW s \in Stations, Create(p, s) PROVE IInv'
    <3>1. reports' \in [Stations -> Nat]
      BY <2>3 DEF Create, IInv, TypeOK
    <3>2. QED
      BY <2>3, <3>1, InsertInv DEF Create, Source
  <2>4. QED
    BY <1>1, <2>1, <2>2, <2>3, WriteInv, ResolveInv, LogEventInv, FailStatementInv DEF Step, Ask
<1>2. CASE Crash \/ Tick \/ \E s \in Stations : Connect(s) \/ Disconnect(s)
  BY <1>2, WorldInv
<1>3. CASE UNCHANGED vars
  <2>1. TypeOK' /\ UpKept /\ UpInThePast' /\ row' = row /\ job' = job
    BY <1>3, ConstantsAssumption DEF vars, stationVars, IInv, TypeOK, UpKept, UpInThePast, Time
  <2>2. QED
    BY <2>1, WorldStep
<1>4. QED
  BY <1>1, <1>2, <1>3 DEF Next

-----------------------------------------------------------------------------
(* The theorems.                                                           *)

\* Every variable keeps its type, with any number of overlapping handlers.
THEOREM TypeCorrect == Spec => []TypeOK
<1>1. Spec => []IInv
  BY InitInv, NextInv, PTL DEF Spec
<1>2. IInv => TypeOK
  BY DEF IInv
<1>3. QED
  BY <1>1, <1>2, PTL

\* The note of the automatic resolution is on an order only if it reports a
\* lost connection and the station has connected since: rows listed by a sweep
\* may be changed by others before they are written, their source and their
\* creation time may not.
THEOREM RecoveredCorrect == Spec => []RecoveredMeansReconnected
<1>1. Spec => []IInv
  BY InitInv, NextInv, PTL DEF Spec
<1>2. IInv => RecoveredMeansReconnected
  BY DEF IInv
<1>3. QED
  BY <1>1, <1>2, PTL

\* What a step of [Next]_vars may do to a row, for every order and any overlap.
LEMMA RowChange ==
    ASSUME IInv, [Next]_vars, row' # row
    PROVE  \E p \in Slots, o \in Orders, r \in Row :
              /\ row' = [row EXCEPT ![o] = r]
              /\ \/ /\ Write(p) /\ o = job[p].o /\ r = Applied(row[o], job[p])
                    /\ Valid(job[p].seen, job[p].op) /\ job[p].op \in PersonOps
                 \/ /\ Resolve(p, o) /\ r = Applied(row[o], job[p])
                    /\ job[p].op = "up" /\ IsOutage(o)
                 \/ row[o].status = "NONE" /\ r.status = "OPEN" /\ r.source \in Source
<1>1. PICK p \in Slots : \/ Write(p) \/ \E o \in Orders : Resolve(p, o)
                         \/ \E s \in Stations, source \in Source : Insert(p, s, source)
  <2>1. \/ Crash \/ Tick \/ \E s \in Stations : Connect(s) \/ Disconnect(s)
        => row' = row
    BY DEF Crash, Tick, Connect, Disconnect
  <2>2. ASSUME NEW p \in Slots,
               \/ Own(p) \/ Read(p) \/ LogEvent(p) \/ FindExisting(p) \/ SweepDown(p)
               \/ SweepUp(p) \/ FailStatement(p)
        PROVE  row' = row
    BY <2>2 DEF Own, Read, LogEvent, FindExisting, SweepDown, SweepUp, FailStatement
  <2>3. ASSUME NEW p \in Slots, NEW op, NEW o \in Orders, NEW m \in Members,
               Request(p, op, o, m) \/ MyWork(p, op, o, m)
        PROVE  row' = row
    BY <2>3 DEF Request, MyWork
  <2>4. ASSUME NEW p \in Slots, Report(p)
        PROVE  \E s \in Stations, source \in Source : Insert(p, s, source)
    <3>1. job[p].s \in Stations /\ Insert(p, job[p].s, "CONNECTIVITY_LOSS")
      BY <2>4 DEF Report, Running, IInv, Good
    <3>2. QED
      BY <3>1 DEF Source
  <2>5. ASSUME NEW p \in Slots, NEW s \in Stations, Create(p, s)
        PROVE  \E source \in Source : Insert(p, s, source)
    BY <2>5 DEF Create, Source
  <2>6. ~ UNCHANGED vars
    BY DEF vars
  <2>7. QED
    BY <2>1, <2>2, <2>3, <2>4, <2>5, <2>6 DEF Next, Step, Ask
<1>2. job[p] \in Job /\ Good(job[p])
  BY DEF IInv, TypeOK
<1>3. CASE Write(p)
  <2>1. job[p].op \in PersonOps /\ job[p].at = "write"
    BY <1>3 DEF Write, Running
  <2>2. PICK o \in Orders : o = job[p].o
    BY <1>2, <2>1 DEF Good
  <2>3. Valid(job[p].seen, job[p].op) /\ row[o] \in Row
    BY <1>2, <2>1, <2>2 DEF Good, IInv, TypeOK
  <2>4. Applied(row[o], job[p]) \in Row
    BY <1>2, <2>1, <2>3, AppliedRow
  <2>5. row' = [row EXCEPT ![o] = Applied(row[o], job[p])]
    BY <1>3, <2>2 DEF Write
  <2>6. QED
    BY <1>3, <2>1, <2>2, <2>3, <2>4, <2>5
<1>4. ASSUME NEW o \in Orders, Resolve(p, o)
      PROVE  /\ Applied(row[o], job[p]) \in Row
             /\ row' = [row EXCEPT ![o] = Applied(row[o], job[p])]
             /\ job[p].op = "up" /\ IsOutage(o)
  <2>1. job[p].op = "up" /\ o \in job[p].todo /\ row[o] \in Row
    BY <1>4 DEF Resolve, Running, IInv, TypeOK
  <2>2. Applied(row[o], job[p]) \in Row
    BY <1>2, <2>1, AppliedRow
  <2>3. MayRecover(o)
    BY <1>2, <2>1 DEF Good
  <2>4. QED
    BY <1>4, <2>1, <2>2, <2>3 DEF Resolve, MayRecover
<1>5. ASSUME NEW s \in Stations, NEW source \in Source, Insert(p, s, source)
      PROVE  \E o \in Orders, r \in Row : /\ row' = [row EXCEPT ![o] = r]
                                          /\ row[o].status = "NONE" /\ r.status = "OPEN"
                                          /\ r.source \in Source
  <2>1. PICK o \in Unused(s) : o = CHOOSE q \in Unused(s) : TRUE
    BY <1>5 DEF Insert
  <2>2. o \in Orders /\ row[o].status = "NONE"
    BY <2>1 DEF Unused
  <2> DEFINE r == [NoRow EXCEPT !.status = "OPEN", !.source = source,
                                !.created = IF source = "MANUAL" THEN 0 ELSE clock]
  <2>3. clock \in Time /\ 0 \in Time
    BY ConstantsAssumption DEF IInv, TypeOK, Time
  <2>4. r \in Row /\ r.status = "OPEN" /\ r.source = source
    BY <2>3, NoRowType DEF NoRow, Row, Status, NonTerminal
  <2>5. row' = [row EXCEPT ![o] = r]
    BY <1>5, <2>1 DEF Insert
  <2> HIDE DEF r
  <2>6. QED
    BY <2>2, <2>4, <2>5
<1>6. QED
  BY <1>1, <1>3, <1>4, <1>5

\* No overlap of handlers takes an assigned order back to OPEN, whatever
\* status the assignment was computed from.
THEOREM NeverBackToOpen == Spec => NeverUnassigned
<1> DEFINE Kept == \A o \in Orders : row[o].status \notin {"NONE", "OPEN"}
                                        => row'[o].status \notin {"NONE", "OPEN"}
<1>1. Spec => []IInv
  BY InitInv, NextInv, PTL DEF Spec
<1>2. ASSUME IInv, [Next]_vars PROVE Kept
  <2>1. CASE row' = row
    BY <2>1
  <2>2. CASE row' # row
    <3>1. PICK p \in Slots, o \in Orders, r \in Row :
              /\ row' = [row EXCEPT ![o] = r]
              /\ \/ /\ r = Applied(row[o], job[p])
                    /\ Valid(job[p].seen, job[p].op) /\ job[p].op \in PersonOps
                 \/ r = Applied(row[o], job[p]) /\ job[p].op = "up"
                 \/ row[o].status = "NONE"
      BY <1>2, <2>2, RowChange
    <3>2. row[o] \in Row /\ job[p] \in Job /\ row \in [Orders -> Row]
      BY <1>2 DEF IInv, TypeOK
    <3>3. row[o].status \notin {"NONE", "OPEN"} => r.status \notin {"NONE", "OPEN"}
      BY <3>1, <3>2, AppliedRow
    <3>4. QED
      BY <3>1, <3>2, <3>3
  <2>3. QED
    BY <2>1, <2>2
<1>3. IInv /\ [Next]_vars => [Kept]_vars
  BY <1>2
<1> HIDE DEF Kept
<1>4. Spec => [][Kept]_vars
  BY <1>1, <1>3, PTL DEF Spec
<1>5. QED
  BY <1>4 DEF NeverUnassigned, Kept

-----------------------------------------------------------------------------
(* Handlers of different orders: what was read still holds when it is      *)
(* written.                                                                *)

\* The transitions whose status depends on the one read; a comment and a schedule
\* write other columns.
Deciding == {"assign", "start", "resolve", "cancel"}

\* The orders a handler has read and will move.
Holds(j) ==
    {o \in Orders : \/ j.op \in Deciding /\ j.at = "write" /\ o = j.o
                    \/ j.op = "up" /\ o \in j.todo}

\* No two handlers hold the same order; they may overlap as they like otherwise.
Apart == \A p, q \in Slots : p # q => Holds(job[p]) \intersect Holds(job[q]) = {}

\* A step of one handler leaves the others where they are.
LEMMA OthersStay ==
    ASSUME IInv, NEW p \in Slots,
           Step(p) \/ Ask(p) \/ SweepDown(p) \/ SweepUp(p) \/ FailStatement(p)
    PROVE  \A q \in Slots : q # p => job'[q] = job[q]
<1>1. job \in [Slots -> Job]
  BY DEF IInv, TypeOK
<1>2. \A j : Continue(p, j) => \A q \in Slots : q # p => job'[q] = job[q]
  BY <1>1 DEF Continue
<1>3. \/ \E j : Continue(p, j)
      \/ AfterOne(p)
  <2>1. CASE Ask(p) \/ SweepUp(p)
    BY <2>1 DEF Ask, Request, MyWork, Start, Create, Insert, SweepUp
  <2>2. CASE SweepDown(p)
    BY <2>2 DEF SweepDown, NextStation, Finish
  <2>3. CASE FailStatement(p)
    BY <2>3 DEF FailStatement, Finish
  <2>4. CASE Step(p)
    BY <2>4 DEF Step, Own, Read, Write, LogEvent, FindExisting, Report, Insert, Resolve, Finish
  <2>5. QED
    BY <2>1, <2>2, <2>3, <2>4
<1>4. AfterOne(p) => \E j : Continue(p, j)
  BY DEF AfterOne, NextStation, Finish
<1>5. QED
  BY <1>2, <1>3, <1>4

Fresh(j) ==
    /\ j.op \in Deciding /\ j.at = "write" => row[j.o].status = j.seen
    /\ j.op = "up" => \A o \in j.todo : row[o].status \in NonTerminal

SeqInv == IInv /\ \A p \in Slots : Fresh(job[p])

\* The handler that takes the step.
LEMMA StepStaysFresh ==
    ASSUME SeqInv, IInv', NEW q \in Slots,
           Step(q) \/ Ask(q) \/ SweepDown(q) \/ SweepUp(q) \/ FailStatement(q)
    PROVE  Fresh(job[q])'
<1> DEFINE NotDeciding(j) == j.op # "up" /\ (j.op \in PersonOps => j.at # "write")
<1>1. IInv /\ IInv' /\ TypeOK /\ TypeOK' /\ job \in [Slots -> Job] /\ Idle \in Job
  BY IdleType DEF SeqInv, IInv, TypeOK
<1>3. job[q] \in Job /\ Fresh(job[q]) /\ job'[q] \in Job
  BY <1>1 DEF SeqInv, TypeOK
<1>4. CASE NotDeciding(job'[q])
  BY <1>4 DEF Fresh, PersonOps, Deciding
<1>5. CASE job'[q] = job[q] /\ row' = row
  BY <1>3, <1>5 DEF Fresh
<1>6. \A j : Continue(q, j) => job'[q] = j
  BY <1>1 DEF Continue
<1>7. NotDeciding(Idle)
  BY DEF Idle, PersonOps
<1>8. ASSUME AfterOne(q), row' = row PROVE Fresh(job[q])'
  <2>2. \/ job'[q] = Idle \/ job'[q].op = "down"
        \/ job[q].op = "up" /\ job'[q] = [job[q] EXCEPT !.at = "write", !.o = None]
    BY <1>6, <1>8 DEF AfterOne, NextStation, Finish, Idle
  <2>3. CASE job'[q] = Idle \/ job'[q].op = "down"
    BY <1>4, <1>7, <2>3 DEF PersonOps
  <2>4. CASE job[q].op = "up" /\ job'[q] = [job[q] EXCEPT !.at = "write", !.o = None]
    <3>1. job'[q].op = "up" /\ job'[q].todo = job[q].todo
      BY <1>3, <2>4 DEF Job
    <3>2. QED
      BY <1>3, <1>8, <2>4, <3>1 DEF Fresh, PersonOps, Deciding
  <2>5. QED
    BY <2>2, <2>3, <2>4
<1> HIDE DEF NotDeciding
<1>9. QED
  <2>1. CASE Finish(q)
    BY <1>4, <1>6, <1>7, <2>1 DEF Finish
  <2>2. CASE AfterOne(q) /\ row' = row
    BY <1>8, <2>2
  <2>3. ASSUME NEW op \in PersonOps, NEW o, NEW m, Request(q, op, o, m)
        PROVE  Fresh(job[q])'
    <3>1. job'[q].at = "read" /\ job'[q].op = op
      BY <1>6, <2>3 DEF Request, Start, Idle
    <3>2. QED
      BY <1>4, <3>1 DEF NotDeciding, PersonOps
  <2>4. ASSUME NEW op \in MyWorkOps, NEW o, NEW m, MyWork(q, op, o, m)
        PROVE  Fresh(job[q])'
    <3>1. job'[q].at = "own" /\ job'[q].op = op
      BY <1>6, <2>4 DEF MyWork, Start, Idle
    <3>2. QED
      BY <1>4, <3>1 DEF NotDeciding, MyWorkOps, FieldOps, PersonOps
  <2>5. CASE Own(q) /\ ~Finish(q)
    <3> DEFINE at == IF job[q].op \in FieldOps THEN "event" ELSE "read"
    <3>1. job[q].op \in MyWorkOps /\ Continue(q, [job[q] EXCEPT !.at = at, !.who = None])
      BY <2>5 DEF Own, Running
    <3>2. job'[q] = [job[q] EXCEPT !.at = at, !.who = None] /\ at \in {"event", "read"}
      BY <1>6, <3>1
    <3>3. job'[q].at \in {"event", "read"} /\ job'[q].op = job[q].op
      BY <1>3, <3>2 DEF Job
    <3>4. QED
      BY <1>4, <3>1, <3>3 DEF NotDeciding, MyWorkOps, FieldOps, PersonOps
  <2>6. CASE Read(q) /\ ~Finish(q)
    <3>1. /\ job'[q].op = job[q].op /\ job[q].op \in PersonOps /\ job'[q].o = job[q].o
          /\ job'[q].seen = row[job[q].o].status /\ row' = row
      BY <1>3, <1>6, <2>6 DEF Read, Running, Job
    <3>2. QED
      BY <3>1 DEF Fresh, PersonOps, Deciding
  <2>7. CASE Write(q)
    <3>1. job'[q].at = "event" /\ job'[q].op = job[q].op /\ job[q].op \in PersonOps
      BY <1>3, <1>6, <2>7 DEF Write, Running, Job
    <3>2. QED
      BY <1>4, <3>1 DEF NotDeciding, PersonOps
  <2>8. CASE FindExisting(q) /\ ~AfterOne(q)
    <3>1. job'[q].op = "down"
      BY <1>3, <1>6, <2>8 DEF FindExisting, Running, Job
    <3>2. QED
      BY <1>4, <3>1 DEF NotDeciding, PersonOps
  <2>9. ASSUME NEW s, NEW source, Insert(q, s, source) PROVE Fresh(job[q])'
    <3>1. job'[q].op \in {"create", "down"}
      BY <1>3, <1>6, <2>9 DEF Insert, Job
    <3>2. QED
      BY <1>4, <3>1 DEF NotDeciding, PersonOps
  <2>10. ASSUME NEW o \in Orders, Resolve(q, o) PROVE Fresh(job[q])'
    <3>1. /\ job[q].op = "up" /\ job'[q].op = "up" /\ job'[q].todo = job[q].todo \ {o}
          /\ row' = [row EXCEPT ![o] = Applied(row[o], job[q])]
      BY <1>3, <1>6, <2>10 DEF Resolve, Running, Job
    <3>2. \A x \in job[q].todo : x \in Orders /\ row[x].status \in NonTerminal
      BY <1>3, <3>1 DEF Fresh, Job
    <3>3. \A x \in job'[q].todo : row'[x].status \in NonTerminal
      BY <1>1, <3>1, <3>2 DEF TypeOK
    <3>4. QED
      BY <3>1, <3>3 DEF Fresh, PersonOps, Deciding
  <2>11. CASE SweepDown(q)
    <3>1. PICK since : NextStation(q, since) /\ row' = row
      BY <2>11 DEF SweepDown
    <3>2. CASE Finish(q)
      BY <2>1, <3>2
    <3>3. CASE ~Finish(q)
      <4>1. job'[q].op = "down"
        BY <1>6, <3>1, <3>3 DEF NextStation, Idle
      <4>2. QED
        BY <1>4, <4>1 DEF NotDeciding, PersonOps
    <3>4. QED
      BY <3>2, <3>3
  <2>12. CASE SweepUp(q)
    <3>1. /\ job'[q].op = "up" /\ job'[q].todo = {o \in Orders : Recovered(o)} /\ row' = row
      BY <1>6, <2>12 DEF SweepUp, Start, Idle
    <3>2. \A o \in job'[q].todo : row'[o].status \in NonTerminal
      BY <3>1 DEF Recovered
    <3>3. QED
      BY <3>1, <3>2 DEF Fresh, PersonOps, Deciding
  <2>13. QED
    BY <2>1, <2>2, <2>3, <2>4, <2>5, <2>6, <2>7, <2>8, <2>9, <2>10, <2>11, <2>12
    DEF Step, Ask, Own, Read, LogEvent, FindExisting, Report, Create, FailStatement

\* An order that a handler holds is only moved by that handler.
LEMMA HeldByOne ==
    ASSUME SeqInv, Apart, NEW p \in Slots, NEW q \in Slots, p # q,
           Step(p) \/ Ask(p) \/ SweepDown(p) \/ SweepUp(p) \/ FailStatement(p),
           NEW x \in Holds(job[q])
    PROVE  row'[x].status = row[x].status
<1>1. IInv /\ row \in [Orders -> Row] /\ x \in Orders /\ Good(job[q])
  BY DEF SeqInv, IInv, TypeOK, Holds
<1>2. x \notin Holds(job[p]) /\ row[x].status # "NONE"
  BY <1>1 DEF Apart, Holds, Good, MayRecover, PersonOps, Deciding
<1>3. CASE Write(p)
  <2>1. job[p].op \in PersonOps /\ job[p].at = "write"
        /\ row' = [row EXCEPT ![job[p].o] = Applied(row[job[p].o], job[p])]
    BY <1>3 DEF Write, Running
  <2>2. CASE job[p].o # x
    BY <1>1, <2>1, <2>2
  <2>3. CASE job[p].o = x
    <3>1. job[p].op \in {"comment", "schedule"}
      BY <1>1, <1>2, <2>1, <2>3 DEF Holds, PersonOps, Deciding
    <3>2. row[x] \in Row /\ row'[x] = Applied(row[x], job[p])
      BY <1>1, <2>1, <2>3
    <3>3. QED
      BY <3>1, <3>2 DEF Applied, NewStatus, Row
  <2>4. QED
    BY <2>2, <2>3
<1>4. ASSUME NEW o \in Orders, Resolve(p, o) PROVE row'[x].status = row[x].status
  BY <1>1, <1>2, <1>4 DEF Resolve, Running, Holds
<1>5. ASSUME NEW s, NEW source, Insert(p, s, source) PROVE row'[x].status = row[x].status
  <2>1. PICK o \in Unused(s) : o = CHOOSE y \in Unused(s) : TRUE
    BY <1>5 DEF Insert
  <2>2. o # x /\ \E r : row' = [row EXCEPT ![o] = r]
    BY <1>2, <1>5, <2>1 DEF Insert, Unused
  <2>3. QED
    BY <1>1, <2>2
<1>6. CASE row' = row
  BY <1>6
<1>7. QED
  BY <1>3, <1>4, <1>5, <1>6
  DEF Step, Ask, Own, Read, LogEvent, FindExisting, Report, Create, FailStatement, SweepDown, SweepUp,
      Request, MyWork

LEMMA SeqNext ==
    ASSUME Apart, SeqInv, [Next]_vars
    PROVE  SeqInv'
<1>1. IInv /\ IInv' /\ job \in [Slots -> Job]
  BY NextInv DEF SeqInv, IInv, TypeOK
<1>2. SUFFICES ASSUME NEW q \in Slots PROVE Fresh(job[q])'
  BY <1>1 DEF SeqInv
<1>3. job[q] \in Job /\ Fresh(job[q]) /\ Good(job[q])
  BY <1>1 DEF SeqInv, IInv
<1>4. CASE job'[q] = job[q] /\ \A x \in Holds(job[q]) : row'[x].status = row[x].status
  BY <1>3, <1>4 DEF Fresh, Holds, Good, Job, PersonOps, Deciding
<1>5. ASSUME NEW p \in Slots,
             Step(p) \/ Ask(p) \/ SweepDown(p) \/ SweepUp(p) \/ FailStatement(p)
      PROVE  Fresh(job[q])'
  <2>1. CASE p = q
    BY <1>1, <1>5, <2>1, StepStaysFresh
  <2>2. CASE p # q
    <3>1. job'[q] = job[q]
      BY <1>1, <1>5, <2>2, OthersStay
    <3>2. \A x \in Holds(job[q]) : row'[x].status = row[x].status
      BY <1>5, <2>2, HeldByOne
    <3>3. QED
      BY <1>4, <3>1, <3>2
  <2>3. QED
    BY <2>1, <2>2
<1>6. CASE Crash
  <2>1. job'[q] = Idle /\ Idle.op = "idle"
    BY <1>6 DEF Crash, Idle
  <2>2. QED
    BY <2>1 DEF Fresh, PersonOps, Deciding
<1>7. CASE Tick \/ UNCHANGED vars \/ \E s \in Stations : Connect(s) \/ Disconnect(s)
  <2>1. job' = job /\ row' = row
    BY <1>7 DEF Tick, Connect, Disconnect, vars
  <2>2. QED
    BY <1>4, <2>1
<1>8. QED
  BY <1>5, <1>6, <1>7 DEF Next

-----------------------------------------------------------------------------
(* The refinement.                                                         *)

status == [o \in Orders |-> row[o].status]
outage == [o \in Orders |-> IsOutage(o)]

LEMMA LifecycleStep ==
    ASSUME SeqInv, [Next]_vars
    PROVE  [Lifecycle!Next]_<<status, outage>>
<1>1. IInv /\ row \in [Orders -> Row]
  BY DEF SeqInv, IInv, TypeOK
<1>2. CASE row' = row
  BY <1>2 DEF status, outage, IsOutage
<1>3. CASE row' # row
  <2>1. PICK p \in Slots, o \in Orders, r \in Row :
              /\ row' = [row EXCEPT ![o] = r]
              /\ \/ /\ Write(p) /\ o = job[p].o /\ r = Applied(row[o], job[p])
                    /\ Valid(job[p].seen, job[p].op) /\ job[p].op \in PersonOps
                 \/ /\ Resolve(p, o) /\ r = Applied(row[o], job[p])
                    /\ job[p].op = "up" /\ IsOutage(o)
                 \/ row[o].status = "NONE" /\ r.status = "OPEN" /\ r.source \in Source
    BY <1>1, <1>3, RowChange
  <2>2. row[o] \in Row /\ job[p] \in Job /\ Fresh(job[p])
    BY <1>1 DEF SeqInv, IInv, TypeOK
  <2>3. status' = [status EXCEPT ![o] = r.status]
    BY <1>1, <2>1 DEF status
  <2>4. outage' = [outage EXCEPT ![o] = (r.source = "CONNECTIVITY_LOSS")]
    BY <1>1, <2>1 DEF outage, IsOutage
  <2>5. status[o] = row[o].status /\ outage[o] = IsOutage(o)
    BY DEF status, outage
  <2>6. CASE r = Applied(row[o], job[p])
    <3>1. r.source = row[o].source /\ r.status = NewStatus(job[p], row[o].status)
      BY <2>2, <2>6 DEF Applied, Row
    <3>2. outage' = outage
      BY <2>4, <2>5, <3>1 DEF outage, IsOutage
    <3>3. CASE job[p].op = "up" /\ Resolve(p, o) /\ IsOutage(o)
      <4>1. row[o].status \in NonTerminal /\ r.status = "RESOLVED"
        BY <2>2, <3>1, <3>3 DEF Fresh, Resolve, NewStatus
      <4>2. Lifecycle!Recover(o)
        BY <2>3, <2>5, <3>2, <3>3, <4>1 DEF Lifecycle!Recover, Lifecycle!Open, NonTerminal, status, outage
      <4>3. QED
        BY <4>2 DEF Lifecycle!Next
    <3>4. CASE Write(p) /\ o = job[p].o /\ Valid(job[p].seen, job[p].op) /\ job[p].op \in PersonOps
      <4>1. job[p].op \in Deciding => job[p].seen = row[o].status /\ Valid(row[o].status, job[p].op)
        BY <2>2, <3>4 DEF Fresh, Write, Running
      <4>2. r.status = row[o].status \/ r.status \in Lifecycle!Moves(row[o].status)
        BY <3>1, <3>4, <4>1 DEF NewStatus, Valid, PersonOps, Deciding, NonTerminal, Lifecycle!Moves
      <4>3. CASE r.status = row[o].status
        BY <2>3, <2>5, <3>2, <4>3 DEF status
      <4>4. CASE r.status \in Lifecycle!Moves(row[o].status)
        BY <2>3, <2>5, <3>2, <4>4 DEF Lifecycle!Next, Lifecycle!Move, status, outage
      <4>5. QED
        BY <4>2, <4>3, <4>4
    <3>5. CASE row[o].status = "NONE" /\ r.status = "OPEN" /\ r.source \in Source
      BY <2>3, <2>4, <2>5, <3>5 DEF Lifecycle!Next, Lifecycle!Create, status, outage
    <3>6. QED
      BY <2>1, <3>3, <3>4, <3>5
  <2>7. CASE row[o].status = "NONE" /\ r.status = "OPEN"
    BY <2>3, <2>4, <2>5, <2>7 DEF Lifecycle!Next, Lifecycle!Create, status, outage
  <2>8. QED
    BY <2>1, <2>6, <2>7
<1>4. QED
  BY <1>2, <1>3

\* Handlers that do not hold the same order implement its lifecycle, whatever
\* else overlaps: a closed order stays closed, and every move is one of the
\* transition table.
THEOREM ApartImplementsLifecycle == Spec /\ []Apart => ImplementsLifecycle
<1>1. Init => SeqInv
  BY InitInv DEF SeqInv, Init, Fresh, Idle, Deciding
<1>2. Init => Lifecycle!Init
  <2> SUFFICES ASSUME Init PROVE Lifecycle!Init
    OBVIOUS
  <2>1. \A o \in Orders : row[o].status = "NONE" /\ IsOutage(o) = FALSE
    BY DEF Init, IsOutage, NoRow
  <2>2. QED
    BY <2>1 DEF Lifecycle!Init
<1>3. SeqInv /\ Apart /\ [Next]_vars => SeqInv'
  BY SeqNext
<1>4. SeqInv /\ [Next]_vars => [Lifecycle!Next]_<<status, outage>>
  BY LifecycleStep
<1>5. QED
  BY <1>1, <1>2, <1>3, <1>4, PTL DEF Spec, ImplementsLifecycle, Lifecycle!Spec, status, outage

-----------------------------------------------------------------------------
(* One order per outage.                                                   *)

LEMMA RowsAreKept ==
    ASSUME IInv, [Next]_vars
    PROVE  RowsKept
<1>1. CASE row' = row
  BY <1>1 DEF RowsKept
<1>2. CASE row' # row
  <2>1. PICK p \in Slots, o \in Orders, r \in Row :
              /\ row' = [row EXCEPT ![o] = r]
              /\ \/ /\ r = Applied(row[o], job[p])
                    /\ Valid(job[p].seen, job[p].op) /\ job[p].op \in PersonOps
                 \/ r = Applied(row[o], job[p]) /\ job[p].op = "up"
                 \/ row[o].status = "NONE"
    BY <1>2, RowChange
  <2>2. row[o] \in Row /\ job[p] \in Job /\ row \in [Orders -> Row]
    BY DEF IInv, TypeOK
  <2>3. row[o].status # "NONE" =>
           r.status # "NONE" /\ r.source = row[o].source /\ r.created = row[o].created
    BY <2>1, <2>2, AppliedRow
  <2>4. QED
    BY <2>1, <2>2, <2>3 DEF RowsKept
<1>3. QED
  BY <1>1, <1>2

\* An order of the current outage of the station.
Recorded(s) == \E o \in Orders : row[o].status # "NONE" /\ Covers(o, s, down[s])

\* What a sweep has listed is no later than the outage under way, and a sweep
\* that found no order may rely on it.
Listed(j) ==
    /\ \A s \in Stations : j.since[s] <= down[s]
    /\ j.op = "down" /\ j.at = "write" => reports[j.s] = 0

DownInThePast == \A s \in Stations : down[s] <= clock

OutageInv ==
    /\ IInv
    /\ DownInThePast
    /\ \A s \in Stations : reports[s] = 0 \/ (reports[s] = 1 /\ Recorded(s))
    /\ \A p \in Slots : Listed(job[p])

\* While the outage is the same, its order stays.
LEMMA RecordedStays ==
    ASSUME RowsKept, NEW s \in Stations, down' = down, Recorded(s)
    PROVE  Recorded(s)'
BY DEF RowsKept, Recorded, Covers, IsOutage

\* Where a sweep goes next, nothing is listed that was not.
LEMMA AfterOneListed ==
    ASSUME IInv, NEW p \in Slots, AfterOne(p), Listed(job[p]),
           UNCHANGED <<down, reports>>
    PROVE  Listed(job[p])'
<1>1. /\ job[p] \in Job /\ Good(job[p]) /\ down \in [Stations -> Time]
      /\ \A j : Continue(p, j) => job'[p] = j
  BY DEF IInv, TypeOK, Continue
<1>2. /\ \A s \in Stations : 0 <= down[s]
      /\ Idle.since = [s \in Stations |-> 0] /\ Idle.op = "idle"
  BY <1>1, ConstantsAssumption DEF Time, Idle
<1>3. CASE Finish(p)
  <2>1. job'[p] = Idle
    BY <1>1, <1>3 DEF Finish
  <2>2. QED
    BY <1>2, <2>1 DEF Listed
<1>4. ASSUME NEW s \in Stations, job[p].op = "down",
             Continue(p, [Idle EXCEPT !.op = "down", !.at = "find", !.s = s,
                                      !.since = [job[p].since EXCEPT ![job[p].s] = 0]])
      PROVE  Listed(job[p])'
  <2>1. job'[p].since = [job[p].since EXCEPT ![job[p].s] = 0] /\ job'[p].at = "find"
    BY <1>1, <1>4 DEF Idle
  <2>2. job[p].since \in [Stations -> Time]
    BY <1>1 DEF Job
  <2>3. \A x \in Stations : job'[p].since[x] <= down[x]
    BY <1>2, <2>1, <2>2 DEF Listed
  <2>4. QED
    BY <2>1, <2>3 DEF Listed
<1>5. CASE job[p].op = "up" /\ Continue(p, [job[p] EXCEPT !.at = "write", !.o = None])
  <2>1. job'[p].since = job[p].since /\ job'[p].op = "up"
    BY <1>1, <1>5 DEF Job
  <2>2. QED
    BY <2>1 DEF Listed
<1>6. QED
  BY <1>3, <1>4, <1>5 DEF AfterOne, NextStation

\* The steps of a handler, except the insert of a sweep.
LEMMA HandlerListed ==
    ASSUME OutageInv, NEW p \in Slots, UNCHANGED <<down, reports>>,
           Step(p) \/ Ask(p) \/ SweepDown(p) \/ SweepUp(p) \/ FailStatement(p)
    PROVE  Listed(job[p])' \/ Report(p)
<1>1. /\ job[p] \in Job /\ Good(job[p]) /\ Listed(job[p]) /\ IInv
      /\ down \in [Stations -> Time] /\ reports \in [Stations -> Nat]
      /\ \A j : Continue(p, j) => job'[p] = j
  BY DEF OutageInv, IInv, TypeOK, Continue
<1>2. /\ \A s \in Stations : 0 <= down[s]
      /\ Idle.since = [s \in Stations |-> 0]
  BY <1>1, ConstantsAssumption DEF Time, Idle
<1>16. SUFFICES ASSUME ~Report(p) PROVE Listed(job[p])'
  OBVIOUS
<1>3. CASE job'[p].since = job[p].since /\ ~(job'[p].op = "down" /\ job'[p].at = "write")
  BY <1>1, <1>3 DEF Listed
<1>4. CASE job'[p].since = Idle.since /\ ~(job'[p].op = "down" /\ job'[p].at = "write")
  BY <1>2, <1>4 DEF Listed
<1>5. CASE AfterOne(p)
  BY <1>1, <1>5, AfterOneListed
<1>6. CASE Finish(p)
  <2>1. job'[p] = Idle
    BY <1>1, <1>6 DEF Finish
  <2>2. QED
    BY <1>4, <2>1 DEF Idle
<1>7. ASSUME NEW op \in PersonOps, NEW o, NEW m, Request(p, op, o, m)
      PROVE  Listed(job[p])'
  <2>1. job'[p].since = Idle.since /\ job'[p].at = "read"
    BY <1>1, <1>7 DEF Request, Start, Idle
  <2>2. QED
    BY <1>4, <2>1
<1>8. ASSUME NEW op \in MyWorkOps, NEW o, NEW m, MyWork(p, op, o, m)
      PROVE  Listed(job[p])'
  <2>1. job'[p].since = Idle.since /\ job'[p].at = "own"
    BY <1>1, <1>8 DEF MyWork, Start, Idle
  <2>2. QED
    BY <1>4, <2>1
<1>9. CASE Own(p) /\ ~Finish(p)
  <2>1. job'[p].since = job[p].since /\ job'[p].at # "write"
    BY <1>1, <1>9 DEF Own, Job
  <2>2. QED
    BY <1>3, <2>1
<1>10. CASE (Read(p) \/ Write(p)) /\ ~Finish(p)
  <2>1. job'[p].since = job[p].since /\ job'[p].op # "down"
    BY <1>1, <1>10 DEF Read, Write, Running, PersonOps, Job
  <2>2. QED
    BY <1>3, <2>1
<1>11. ASSUME NEW s, Create(p, s) PROVE Listed(job[p])'
  <2>1. job'[p].since = job[p].since /\ job'[p].at = "event"
    BY <1>1, <1>11 DEF Create, Insert, Job
  <2>2. QED
    BY <1>3, <2>1
<1>12. ASSUME NEW o, Resolve(p, o) PROVE Listed(job[p])'
  <2>1. job'[p].since = job[p].since /\ job'[p].at = "event"
    BY <1>1, <1>12 DEF Resolve, Job
  <2>2. QED
    BY <1>3, <2>1
<1>13. CASE SweepUp(p)
  <2>1. job'[p].since = Idle.since /\ job'[p].op = "up"
    BY <1>1, <1>13 DEF SweepUp, Start, Idle
  <2>2. QED
    BY <1>4, <2>1
<1>14. CASE SweepDown(p) /\ ~Finish(p)
  <2>1. job'[p].since = [s \in Stations |-> IF LongDown(s) THEN down[s] ELSE 0]
        /\ job'[p].at = "find"
    BY <1>1, <1>14 DEF SweepDown, NextStation, Idle
  <2>2. \A s \in Stations : job'[p].since[s] <= down[s]
    BY <1>1, <1>2, <2>1, ConstantsAssumption DEF Time
  <2>3. QED
    BY <2>1, <2>2 DEF Listed
<1>15. CASE FindExisting(p) /\ ~AfterOne(p)
  <2>1. /\ job[p].op = "down" /\ job[p].s \in Stations
        /\ job'[p].since = job[p].since /\ job'[p].s = job[p].s
    BY <1>1, <1>15 DEF FindExisting, Running, Good, Job
  <2>2. PICK s \in Stations : s = job[p].s
    BY <2>1
  <2>3. \A o \in Orders : ~ Covers(o, s, job[p].since[s])
    BY <1>15, <2>2 DEF FindExisting
  <2>4. job[p].since[s] <= down[s] /\ job[p].since[s] \in Nat /\ down[s] \in Nat
    BY <1>1, ConstantsAssumption DEF Listed, Job, Time
  <2>5. \A o \in Orders : row[o].created \in Nat
    BY <1>1, ConstantsAssumption DEF IInv, TypeOK, Row, Time
  <2>6. ~ Recorded(s)
    BY <2>3, <2>4, <2>5 DEF Recorded, Covers
  <2>7. reports[s] = 0
    BY <2>6 DEF OutageInv
  <2>8. QED
    BY <1>1, <2>1, <2>2, <2>7 DEF Listed
<1>17. QED
  BY <1>5, <1>6, <1>7, <1>8, <1>9, <1>10, <1>11, <1>12, <1>13, <1>14, <1>15, <1>16
  DEF Step, Ask, LogEvent, FailStatement

\* One sweep of offline stations at a time: the interval is longer than a sweep.
\* Requests and the automatic resolution may overlap with it and with each other.
OneSweep == \A p, q \in Slots : job[p].op = "down" /\ job[q].op = "down" => p = q

LEMMA OutageNext ==
    ASSUME OneSweep, OutageInv, [Next]_vars
    PROVE  OutageInv'
<1>1. /\ IInv /\ IInv' /\ RowsKept
      /\ clock \in Nat /\ clock' \in Nat /\ down \in [Stations -> Nat]
      /\ reports \in [Stations -> Nat] /\ job \in [Slots -> Job]
      /\ \A p \in Slots, s \in Stations : job[p].since[s] \in Nat
  BY NextInv, RowsAreKept, ConstantsAssumption DEF OutageInv, IInv, TypeOK, Time, Job
<1>2. CASE UNCHANGED <<down, reports>> /\ clock' >= clock /\ \A p \in Slots : Listed(job[p])'
  <2>1. DownInThePast'
    BY <1>1, <1>2 DEF OutageInv, DownInThePast
  <2>2. ASSUME NEW s \in Stations
        PROVE  reports'[s] = 0 \/ (reports'[s] = 1 /\ Recorded(s)')
    BY <1>1, <1>2, RecordedStays DEF OutageInv
  <2>3. QED
    BY <1>1, <1>2, <2>1, <2>2 DEF OutageInv
<1>3. ASSUME NEW p \in Slots, Report(p) PROVE OutageInv'
  <2>1. PICK s \in Stations : s = job[p].s
    BY <1>1, <1>3 DEF IInv, Good, Report, Running
  <2>2. reports[s] = 0 /\ reports' = [reports EXCEPT ![s] = 1]
    <3>1. job[p].op = "down" /\ job[p].at = "write" /\ Listed(job[p])
      BY <1>3 DEF OutageInv, Report, Running
    <3>2. reports[s] = 0
      BY <2>1, <3>1 DEF Listed
    <3>3. reports' = [reports EXCEPT ![s] = reports[s] + 1]
      BY <1>3, <2>1 DEF Report
    <3>4. reports[s] + 1 = 1
      BY <3>2
    <3>5. QED
      BY <3>2, <3>3, <3>4
  <2>3. PICK o \in Unused(s) : o = CHOOSE q \in Unused(s) : TRUE
    BY <1>3, <2>1 DEF Report, Insert
  <2> DEFINE r == [NoRow EXCEPT !.status = "OPEN", !.source = "CONNECTIVITY_LOSS",
                                !.created = clock]
  <2>4. row' = [row EXCEPT ![o] = r] /\ UNCHANGED <<conn, up, down, clock>>
    BY <1>3, <2>1, <2>3 DEF Report, Insert, stationVars
  <2>5. o \in Orders /\ StationOf[o] = s /\ row \in [Orders -> Row]
    BY <1>1, <2>3 DEF Unused, IInv, TypeOK
  <2>6. row'[o] = r
    BY <2>4, <2>5
  <2>7. r.status = "OPEN" /\ r.source = "CONNECTIVITY_LOSS" /\ r.created = clock
    BY DEF NoRow
  <2> HIDE DEF r
  <2>8. Recorded(s)'
    <3>1. row'[o].status # "NONE" /\ row'[o].source = "CONNECTIVITY_LOSS"
          /\ row'[o].created = clock /\ clock >= down[s]
      BY <1>1, <2>6, <2>7 DEF OutageInv, DownInThePast
    <3>2. QED
      BY <2>4, <2>5, <3>1 DEF Recorded, Covers, IsOutage
  <2>9. \A x \in Stations : reports'[x] = 0 \/ (reports'[x] = 1 /\ Recorded(x)')
    BY <1>1, <2>2, <2>4, <2>8, RecordedStays DEF OutageInv
  <2>10. job'[p].since = job[p].since /\ job'[p].at = "event"
    <3> DEFINE j == [job[p] EXCEPT !.op = "down", !.at = "event", !.o = o]
    <3>1. Continue(p, j)
      BY <1>3, <2>1, <2>3 DEF Report, Insert
    <3>2. job'[p] = j /\ job[p] \in Job
      BY <1>1, <3>1 DEF Continue
    <3>3. QED
      BY <3>2 DEF Job
  <2>11. ASSUME NEW q \in Slots PROVE Listed(job[q])'
    <3>1. Listed(job[q]) /\ down' = down
      BY <2>4 DEF OutageInv
    <3>2. CASE q = p
      BY <2>10, <3>1, <3>2 DEF Listed
    <3>3. CASE q # p
      <4>1. job'[q] = job[q]
        BY <1>1, <1>3, <3>3, OthersStay DEF Step
      <4>2. job[q].op # "down"
        BY <1>3, <3>3 DEF OneSweep, Report, Running
      <4>3. QED
        BY <3>1, <4>1, <4>2 DEF Listed
    <3>4. QED
      BY <3>2, <3>3
  <2>12. DownInThePast'
    BY <2>4 DEF OutageInv, DownInThePast
  <2>13. QED
    BY <1>1, <2>9, <2>11, <2>12 DEF OutageInv
<1>4. ASSUME NEW p \in Slots, ~Report(p),
             Step(p) \/ Ask(p) \/ SweepDown(p) \/ SweepUp(p) \/ FailStatement(p)
      PROVE  OutageInv'
  <2>1. UNCHANGED <<stationVars, clock, reports>>
    BY <1>4 DEF Step, Ask, Own, Read, Write, LogEvent, FindExisting, Resolve, Create, Insert,
                Request, MyWork, SweepDown, SweepUp, FailStatement, stationVars
  <2>2. UNCHANGED <<down, reports>> /\ clock' = clock
    BY <2>1 DEF stationVars
  <2>3. Listed(job[p])'
    BY <1>4, <2>2, HandlerListed
  <2>4. ASSUME NEW q \in Slots PROVE Listed(job[q])'
    <3>1. CASE q = p
      BY <2>3, <3>1
    <3>2. CASE q # p
      <4>1. job'[q] = job[q] /\ Listed(job[q])
        BY <1>1, <1>4, <3>2, OthersStay DEF OutageInv
      <4>2. QED
        BY <2>2, <4>1 DEF Listed
    <3>3. QED
      BY <3>1, <3>2
  <2>5. QED
    BY <1>1, <1>2, <2>2, <2>4
<1>5. ASSUME NEW s \in Stations, Disconnect(s) PROVE OutageInv'
  <2>1. /\ UNCHANGED <<job, row, clock>>
        /\ down' = [down EXCEPT ![s] = clock] /\ reports' = [reports EXCEPT ![s] = 0]
    BY <1>5 DEF Disconnect
  <2>2. /\ \A x \in Stations : down[x] <= down'[x] /\ down'[x] <= clock'
        /\ \A x \in Stations : x # s => down'[x] = down[x] /\ reports'[x] = reports[x]
        /\ reports'[s] = 0 /\ down' \in [Stations -> Nat]
    BY <1>1, <2>1 DEF OutageInv, DownInThePast
  <2>3. ASSUME NEW x \in Stations, x # s, Recorded(x) PROVE Recorded(x)'
    BY <2>1, <2>2, <2>3 DEF Recorded, Covers, IsOutage
  <2>4. \A x \in Stations : reports'[x] = 0 \/ (reports'[x] = 1 /\ Recorded(x)')
    BY <2>2, <2>3 DEF OutageInv
  <2>5. ASSUME NEW p \in Slots PROVE Listed(job[p])'
    <3>1. Listed(job[p]) /\ job'[p] = job[p]
      BY <2>1 DEF OutageInv
    <3>2. \A x \in Stations : job[p].since[x] <= down'[x]
      BY <1>1, <2>2, <3>1 DEF Listed
    <3>3. job[p].op = "down" /\ job[p].at = "write" => reports'[job[p].s] = 0
      <4>1. SUFFICES ASSUME job[p].op = "down", job[p].at = "write"
                     PROVE  reports'[job[p].s] = 0
        OBVIOUS
      <4>2. job[p].s \in Stations /\ reports[job[p].s] = 0
        BY <1>1, <3>1, <4>1 DEF IInv, Good, Listed
      <4>3. QED
        BY <2>2, <4>2
    <3>4. QED
      BY <3>1, <3>2, <3>3 DEF Listed
  <2>6. DownInThePast'
    BY <2>2 DEF DownInThePast
  <2>7. QED
    BY <1>1, <2>4, <2>5, <2>6 DEF OutageInv
<1>6. CASE Crash
  <2>1. UNCHANGED <<down, reports, clock>> /\ \A p \in Slots : job'[p] = Idle
    BY <1>6 DEF Crash
  <2>2. \A p \in Slots : Listed(job[p])'
    <3>1. Idle.op = "idle" /\ Idle.since = [s \in Stations |-> 0]
      BY DEF Idle
    <3>2. \A s \in Stations : Idle.since[s] <= down[s]
      BY <1>1, <3>1
    <3>3. QED
      BY <2>1, <3>1, <3>2 DEF Listed
  <2>3. QED
    BY <1>1, <1>2, <2>1, <2>2
<1>7. CASE Tick \/ UNCHANGED vars \/ \E s \in Stations : Connect(s)
  <2>1. UNCHANGED <<down, reports, job>> /\ clock' >= clock
    BY <1>1, <1>7 DEF Tick, vars, Connect, stationVars
  <2>2. \A p \in Slots : Listed(job[p])'
    BY <2>1 DEF OutageInv, Listed
  <2>3. QED
    BY <1>1, <1>2, <2>1, <2>2
<1>8. QED
  BY <1>3, <1>4, <1>5, <1>6, <1>7 DEF Next

\* With sweeps one after the other, a station gets at most one order per
\* disconnection, whatever requests overlap with them, over crashes, failed
\* statements and reconnections that happen while a sweep is under way.
THEOREM SweepReportsOnce == Spec /\ []OneSweep => []OneOrderPerOutage
<1>1. Init => OutageInv
  <2> SUFFICES ASSUME Init PROVE OutageInv
    OBVIOUS
  <2>1. /\ clock = 1 /\ down = [s \in Stations |-> 0] /\ reports = [s \in Stations |-> 0]
        /\ job = [p \in Slots |-> Idle]
    BY DEF Init
  <2>2. Idle.op = "idle" /\ Idle.since = [s \in Stations |-> 0]
    BY DEF Idle
  <2>3. \A s \in Stations : down[s] = 0 /\ reports[s] = 0 /\ Idle.since[s] = 0
    BY <2>1, <2>2
  <2>4. DownInThePast
    <3>1. 0 <= 1
      OBVIOUS
    <3>2. \A s \in Stations : down[s] <= clock
      BY <2>1, <2>3, <3>1, Zenon
    <3>3. QED
      BY <3>2 DEF DownInThePast
  <2>5. Listed(Idle)
    BY <2>2, <2>3 DEF Listed
  <2>6. QED
    BY InitInv, <2>1, <2>3, <2>4, <2>5 DEF OutageInv
<1>2. OutageInv /\ OneSweep /\ [Next]_vars => OutageInv'
  BY OutageNext
<1>3. OutageInv => OneOrderPerOutage
  <2>1. 0 <= 1 /\ 1 <= 1
    OBVIOUS
  <2>2. QED
    BY <2>1, Zenon DEF OutageInv, OneOrderPerOutage
<1>4. QED
  BY <1>1, <1>2, <1>3, PTL DEF Spec

-----------------------------------------------------------------------------
(* What a sweep for outages leaves behind it.                              *)

\* A sweep has listed disconnections of the past, and the order it is about to
\* tell the timeline of covers the one it is for.
SweepKnows(j) ==
    /\ \A s \in Stations : j.since[s] <= clock
    /\ j.op = "down" /\ j.at = "event" => Covers(j.o, j.s, j.since[j.s]) /\ row[j.o].status # "NONE"

SweepInv ==
    /\ IInv
    /\ DownInThePast
    /\ \A p \in Slots : SweepKnows(job[p])

LEMMA IdleKnows == ASSUME IInv PROVE SweepKnows(Idle)
<1>1. Idle.since = [s \in Stations |-> 0] /\ Idle.op = "idle"
  BY DEF Idle
<1>2. 0 <= clock
  BY ConstantsAssumption DEF IInv, TypeOK, Time
<1>3. QED
  BY <1>1, <1>2 DEF SweepKnows

\* A sweep may rely on its order while time passes: rows keep what they are about.
LEMMA KnowsStays ==
    ASSUME IInv, RowsKept, clock' \in Nat, clock' >= clock, NEW j \in Job, Good(j), SweepKnows(j)
    PROVE  SweepKnows(j)'
<1>1. \A s \in Stations : j.since[s] \in Nat /\ clock \in Nat
  BY ConstantsAssumption DEF IInv, TypeOK, Job, Time
<1>2. \A s \in Stations : j.since[s] <= clock'
  BY <1>1 DEF SweepKnows
<1>3. ASSUME j.op = "down", j.at = "event"
      PROVE  Covers(j.o, j.s, j.since[j.s])' /\ row'[j.o].status # "NONE"
  <2>1. j.o \in Orders /\ Covers(j.o, j.s, j.since[j.s]) /\ row[j.o].status # "NONE"
    BY <1>3 DEF Good, SweepKnows
  <2>2. /\ row'[j.o].status # "NONE"
        /\ row'[j.o].source = row[j.o].source /\ row'[j.o].created = row[j.o].created
    BY <2>1 DEF RowsKept
  <2>3. QED
    BY <2>1, <2>2 DEF Covers, IsOutage
<1>4. QED
  BY <1>2, <1>3 DEF SweepKnows

\* A handler that has no outage to tell of, and lists nothing new.
LEMMA KnowsNothing ==
    ASSUME IInv, NEW p \in Slots, clock' = clock, SweepKnows(job[p]),
           ~(job'[p].op = "down" /\ job'[p].at = "event"),
           \/ job'[p].since = job[p].since
           \/ job'[p].since = Idle.since
    PROVE  SweepKnows(job[p])'
<1>1. \A s \in Stations : job[p].since[s] <= clock /\ Idle.since[s] <= clock
  BY IdleKnows DEF SweepKnows
<1>2. \A s \in Stations : job'[p].since[s] <= clock'
  BY <1>1
<1>3. QED
  BY <1>2 DEF SweepKnows

LEMMA AfterOneKnows ==
    ASSUME IInv, NEW p \in Slots, AfterOne(p), SweepKnows(job[p]), clock' = clock
    PROVE  SweepKnows(job[p])'
<1>1. /\ job[p] \in Job /\ \A j : Continue(p, j) => job'[p] = j
  BY DEF IInv, TypeOK, Continue
<1>2. CASE Finish(p)
  <2>1. job'[p] = Idle
    BY <1>1, <1>2 DEF Finish
  <2>2. job'[p].since = Idle.since /\ job'[p].op # "down"
    BY <2>1 DEF Idle
  <2>3. QED
    BY <2>2, KnowsNothing
<1>3. CASE job[p].op = "up" /\ Continue(p, [job[p] EXCEPT !.at = "write", !.o = None])
  <2>1. job'[p] = [job[p] EXCEPT !.at = "write", !.o = None]
    BY <1>1, <1>3
  <2>2. job'[p].since = job[p].since /\ job'[p].op # "down"
    BY <1>1, <1>3, <2>1 DEF Job
  <2>3. QED
    BY <2>2, KnowsNothing
<1>4. ASSUME NEW s, Continue(p, [Idle EXCEPT !.op = "down", !.at = "find", !.s = s,
                                          !.since = [job[p].since EXCEPT ![job[p].s] = 0]])
      PROVE  SweepKnows(job[p])'
  <2>1. job'[p].since = [job[p].since EXCEPT ![job[p].s] = 0] /\ job'[p].at = "find"
    BY <1>1, <1>4 DEF Idle
  <2>2. \A x \in Stations : job'[p].since[x] = 0 \/ job'[p].since[x] = job[p].since[x]
    BY <1>1, <2>1 DEF Job
  <2>3. \A x \in Stations : job[p].since[x] <= clock /\ 0 <= clock
    BY ConstantsAssumption DEF IInv, TypeOK, Time, SweepKnows
  <2>4. \A x \in Stations : job'[p].since[x] <= clock'
    BY <2>2, <2>3
  <2>5. QED
    BY <2>1, <2>4 DEF SweepKnows
<1>5. QED
  BY <1>2, <1>3, <1>4 DEF AfterOne, NextStation

\* The insert of a sweep: the order is as new as the sweep, or newer.
LEMMA ReportKnows ==
    ASSUME SweepInv, TypeOK', NEW p \in Slots, Report(p)
    PROVE  SweepKnows(job[p])'
<1>1. job[p] \in Job /\ job[p].op = "down" /\ job[p].s \in Stations /\ SweepKnows(job[p])
      /\ row \in [Orders -> Row] /\ job \in [Slots -> Job]
  BY DEF SweepInv, IInv, TypeOK, Good, Report, Running
<1>2. PICK s \in Stations : s = job[p].s
  BY <1>1
<1>3. PICK o \in Unused(s) : o = CHOOSE q \in Unused(s) : TRUE
  BY <1>2 DEF Report, Insert
<1> DEFINE r == [NoRow EXCEPT !.status = "OPEN", !.source = "CONNECTIVITY_LOSS", !.created = clock]
           j == [job[p] EXCEPT !.op = "down", !.at = "event", !.o = o]
<1>4. row' = [row EXCEPT ![o] = r] /\ Continue(p, j) /\ clock' = clock
  BY <1>2, <1>3 DEF Report, Insert
<1>5. o \in Orders /\ StationOf[o] = s
  BY <1>3 DEF Unused
<1>6. r.status = "OPEN" /\ r.source = "CONNECTIVITY_LOSS" /\ r.created = clock
  BY DEF NoRow
<1>7. j.o = o /\ j.s = job[p].s /\ j.since = job[p].since
  BY <1>1 DEF Job
<1> HIDE DEF r, j
<1>8. row'[o] = r /\ job'[p] = j
  BY <1>1, <1>4, <1>5 DEF Continue
<1>9. \A x \in Stations : job'[p].since[x] <= clock'
  BY <1>1, <1>4, <1>7, <1>8 DEF SweepKnows
<1>10. clock >= job[p].since[s]
  <2>1. job[p].since[s] <= clock /\ job[p].since[s] \in Nat /\ clock \in Nat
    BY <1>1, ConstantsAssumption DEF SweepInv, IInv, TypeOK, SweepKnows, Job, Time
  <2>2. QED
    BY <2>1
<1>11. job'[p].o = o /\ job'[p].s = s /\ job'[p].since[s] = job[p].since[s]
  BY <1>2, <1>7, <1>8
<1>12. row'[o].status = "OPEN" /\ row'[o].source = "CONNECTIVITY_LOSS" /\ row'[o].created = clock
  BY <1>6, <1>8
<1>13. QED
  BY <1>5, <1>9, <1>10, <1>11, <1>12 DEF SweepKnows, Covers, IsOutage

LEMMA HandlerKnows ==
    ASSUME SweepInv, TypeOK', NEW p \in Slots, clock' = clock,
           Step(p) \/ Ask(p) \/ SweepDown(p) \/ SweepUp(p) \/ FailStatement(p)
    PROVE  SweepKnows(job[p])'
<1>1. /\ job[p] \in Job /\ SweepKnows(job[p]) /\ IInv
      /\ \A j : Continue(p, j) => job'[p] = j
  BY DEF SweepInv, IInv, TypeOK, Continue
<1>2. CASE AfterOne(p)
  BY <1>1, <1>2, AfterOneKnows
<1>3. CASE Finish(p)
  <2>1. job'[p].since = Idle.since /\ job'[p].op # "down"
    BY <1>1, <1>3 DEF Finish, Idle
  <2>2. QED
    BY <1>1, <2>1, KnowsNothing
<1>4. ASSUME NEW op \in PersonOps, NEW o, NEW m, Request(p, op, o, m) PROVE SweepKnows(job[p])'
  <2>1. job'[p].since = Idle.since /\ job'[p].at = "read"
    BY <1>1, <1>4 DEF Request, Start, Idle
  <2>2. QED
    BY <1>1, <2>1, KnowsNothing
<1>5. ASSUME NEW op \in MyWorkOps, NEW o, NEW m, MyWork(p, op, o, m) PROVE SweepKnows(job[p])'
  <2>1. job'[p].since = Idle.since /\ job'[p].at = "own"
    BY <1>1, <1>5 DEF MyWork, Start, Idle
  <2>2. QED
    BY <1>1, <2>1, KnowsNothing
<1>6. CASE Own(p) /\ ~Finish(p)
  <2>1. job'[p].since = job[p].since /\ job'[p].op = job[p].op
    BY <1>1, <1>6 DEF Own, Job
  <2>2. job[p].op # "down"
    BY <1>6 DEF Own, Running, MyWorkOps, FieldOps
  <2>3. QED
    BY <1>1, <2>1, <2>2, KnowsNothing
<1>7. CASE (Read(p) \/ Write(p)) /\ ~Finish(p)
  <2>1. job'[p].since = job[p].since /\ job'[p].op # "down"
    BY <1>1, <1>7 DEF Read, Write, Running, PersonOps, Job
  <2>2. QED
    BY <1>1, <2>1, KnowsNothing
<1>8. ASSUME NEW s, Create(p, s) PROVE SweepKnows(job[p])'
  <2>1. job'[p].since = job[p].since /\ job'[p].op = "create"
    BY <1>1, <1>8 DEF Create, Insert, Job
  <2>2. QED
    BY <1>1, <2>1, KnowsNothing
<1>9. ASSUME NEW o, Resolve(p, o) PROVE SweepKnows(job[p])'
  <2>1. job'[p].since = job[p].since /\ job'[p].op = "up"
    BY <1>1, <1>9 DEF Resolve, Running, Job
  <2>2. QED
    BY <1>1, <2>1, KnowsNothing
<1>10. CASE SweepUp(p)
  <2>1. job'[p].since = Idle.since /\ job'[p].op = "up"
    BY <1>1, <1>10 DEF SweepUp, Start, Idle
  <2>2. QED
    BY <1>1, <2>1, KnowsNothing
<1>11. CASE SweepDown(p) /\ ~Finish(p)
  <2>1. job'[p].since = [s \in Stations |-> IF LongDown(s) THEN down[s] ELSE 0]
        /\ job'[p].at = "find"
    BY <1>1, <1>11 DEF SweepDown, NextStation, Idle
  <2>2. \A s \in Stations : down[s] <= clock /\ 0 <= clock
    BY ConstantsAssumption DEF SweepInv, DownInThePast, IInv, TypeOK, Time
  <2>3. \A s \in Stations : job'[p].since[s] <= clock'
    BY <2>1, <2>2
  <2>4. QED
    BY <2>1, <2>3 DEF SweepKnows
<1>12. CASE FindExisting(p) /\ ~AfterOne(p)
  <2>1. job'[p] = [job[p] EXCEPT !.at = "write"]
    BY <1>1, <1>12 DEF FindExisting
  <2>2. job'[p].since = job[p].since /\ job'[p].at = "write"
    BY <1>1, <2>1 DEF Job
  <2>3. QED
    BY <1>1, <2>2, KnowsNothing
<1>13. QED
  BY <1>2, <1>3, <1>4, <1>5, <1>6, <1>7, <1>8, <1>9, <1>10, <1>11, <1>12, ReportKnows
  DEF Step, Ask, LogEvent, FailStatement

LEMMA SweepNext == ASSUME SweepInv, [Next]_vars PROVE SweepInv'
<1>1. IInv /\ IInv' /\ RowsKept /\ TypeOK' /\ clock \in Nat /\ clock' \in Nat /\ job \in [Slots -> Job]
  BY NextInv, RowsAreKept, ConstantsAssumption DEF SweepInv, IInv, TypeOK, Time
<1>2. ASSUME NEW p \in Slots, job'[p] = job[p], clock' >= clock PROVE SweepKnows(job[p])'
  <2>1. PICK j \in Job : j = job[p]
    BY <1>1
  <2>2. Good(j) /\ SweepKnows(j) /\ job'[p] = j
    BY <1>2, <2>1 DEF SweepInv, IInv
  <2>3. SweepKnows(j)'
    BY <1>1, <1>2, <2>2, KnowsStays
  <2>4. QED
    BY <2>2, <2>3
<1>3. ASSUME NEW p \in Slots,
             Step(p) \/ Ask(p) \/ SweepDown(p) \/ SweepUp(p) \/ FailStatement(p)
      PROVE  SweepInv'
  <2>1. UNCHANGED <<stationVars, clock>>
    BY <1>3 DEF Step, Ask, Own, Read, Write, LogEvent, FindExisting, Report, Resolve, Create, Insert,
                Request, MyWork, SweepDown, SweepUp, FailStatement, stationVars
  <2>2. down' = down /\ clock' = clock
    BY <2>1 DEF stationVars
  <2>3. SweepKnows(job[p])'
    BY <1>1, <1>3, <2>2, HandlerKnows
  <2>4. ASSUME NEW q \in Slots, q # p PROVE SweepKnows(job[q])'
    <3>1. job'[q] = job[q]
      BY <1>1, <1>3, <2>4, OthersStay
    <3>2. QED
      BY <1>1, <1>2, <2>2, <3>1
  <2>5. DownInThePast'
    BY <2>2 DEF SweepInv, DownInThePast
  <2>6. QED
    BY <1>1, <2>3, <2>4, <2>5 DEF SweepInv
<1>4. ASSUME NEW s \in Stations, Disconnect(s) PROVE SweepInv'
  <2>1. job' = job /\ clock' = clock /\ down' = [down EXCEPT ![s] = clock]
    BY <1>4 DEF Disconnect
  <2>2. DownInThePast'
    BY <1>1, <2>1 DEF SweepInv, DownInThePast, IInv, TypeOK
  <2>3. QED
    BY <1>1, <1>2, <2>1, <2>2 DEF SweepInv
<1>5. CASE Crash
  <2>1. down' = down /\ clock' = clock /\ job' = [p \in Slots |-> Idle]
    BY <1>5 DEF Crash
  <2>2. SweepKnows(Idle)'
    <3>1. Idle.since = [s \in Stations |-> 0] /\ Idle.op = "idle"
      BY DEF Idle
    <3>2. QED
      BY <1>1, <3>1 DEF SweepKnows
  <2>3. \A p \in Slots : SweepKnows(job[p])'
    BY <2>1, <2>2
  <2>4. QED
    BY <1>1, <2>1, <2>3 DEF SweepInv, DownInThePast
<1>6. CASE Tick \/ UNCHANGED vars \/ \E s \in Stations : Connect(s)
  <2>1. down' = down /\ job' = job /\ clock' >= clock
    BY <1>1, <1>6 DEF Tick, vars, Connect, stationVars
  <2>2. DownInThePast'
    BY <1>1, <2>1 DEF SweepInv, DownInThePast, IInv, TypeOK, Time
  <2>3. QED
    BY <1>1, <1>2, <2>1, <2>2 DEF SweepInv
<1>7. QED
  BY <1>3, <1>4, <1>5, <1>6 DEF Next

\* A sweep crosses a station off its list when an order covers the disconnection
\* it has listed, or no row is left for one: whatever other handlers, sweeps and
\* reconnections come between its statements, no outage is passed over silently
\* (sweepOfflineStations); only a crash or a failed statement does that.
THEOREM ListedIsReported ==
  Spec => [][\A p \in Slots, s \in Stations :
                /\ job[p].op = "down" /\ job[p].since[s] # 0
                /\ ~(job'[p].op = "down" /\ job'[p].since[s] = job[p].since[s])
                /\ faults' = faults
                => Unused(s) = {} \/ \E o \in Orders : Covers(o, s, job[p].since[s])]_vars
<1> DEFINE A == \A p \in Slots, s \in Stations :
                /\ job[p].op = "down" /\ job[p].since[s] # 0
                /\ ~(job'[p].op = "down" /\ job'[p].since[s] = job[p].since[s])
                /\ faults' = faults
                => Unused(s) = {} \/ \E o \in Orders : Covers(o, s, job[p].since[s])
<1>1. Init => SweepInv
  <2> SUFFICES ASSUME Init PROVE SweepInv
    OBVIOUS
  <2>1. IInv /\ clock = 1 /\ (\A s \in Stations : down[s] = 0) /\ \A p \in Slots : job[p] = Idle
    BY InitInv DEF Init
  <2>2. DownInThePast
    <3>1. 0 <= 1
      OBVIOUS
    <3>2. \A s \in Stations : down[s] <= clock
      BY <2>1, <3>1, Zenon
    <3>3. QED
      BY <3>2 DEF DownInThePast
  <2>3. QED
    BY <2>1, <2>2, IdleKnows DEF SweepInv
<1>2. ASSUME SweepInv, Next PROVE A
  <2> SUFFICES ASSUME NEW p \in Slots, NEW s \in Stations, job[p].op = "down", job[p].since[s] # 0,
                      ~(job'[p].op = "down" /\ job'[p].since[s] = job[p].since[s]), faults' = faults
               PROVE  Unused(s) = {} \/ \E o \in Orders : Covers(o, s, job[p].since[s])
    OBVIOUS
  <2>1. /\ job[p] \in Job /\ job \in [Slots -> Job] /\ faults \in Nat
        /\ Good(job[p]) /\ SweepKnows(job[p])
        /\ \A j : Continue(p, j) => job'[p] = j
    BY <1>2, ConstantsAssumption DEF SweepInv, IInv, TypeOK, Continue
  <2>2. job'[p] # job[p]
    OBVIOUS
  <2>3. Step(p) \/ Ask(p) \/ SweepDown(p) \/ SweepUp(p)
    <3>1. ASSUME NEW q \in Slots, q # p,
                 Step(q) \/ Ask(q) \/ SweepDown(q) \/ SweepUp(q) \/ FailStatement(q)
          PROVE  FALSE
      BY <1>2, <2>2, <3>1, OthersStay DEF SweepInv
    <3>2. ~ Crash /\ ~ Tick /\ ~ FailStatement(p) /\ \A x \in Stations : ~ Connect(x) /\ ~ Disconnect(x)
      BY <2>1, <2>2 DEF Crash, Tick, FailStatement, Connect, Disconnect
    <3>3. QED
      BY <1>2, <3>1, <3>2 DEF Next
  <2>4. LogEvent(p) \/ FindExisting(p) \/ Report(p)
    <3>1. job[p] # Idle
      BY DEF Idle
    <3>2. ~ Own(p) /\ ~ Read(p) /\ ~ Write(p) /\ \A o : ~ Resolve(p, o)
      BY DEF Own, Read, Write, Resolve, Running, MyWorkOps, FieldOps, PersonOps
    <3>3. ~ Ask(p) /\ ~ SweepDown(p) /\ ~ SweepUp(p)
      BY <3>1 DEF Ask, Create, Request, MyWork, Start, SweepDown, SweepUp
    <3>4. QED
      BY <2>3, <3>2, <3>3 DEF Step
  <2>5. ~ Report(p)
    <3>1. SUFFICES ASSUME Report(p) PROVE FALSE
      OBVIOUS
    <3>2. PICK o : Continue(p, [job[p] EXCEPT !.op = "down", !.at = "event", !.o = o])
      BY <3>1 DEF Report, Insert
    <3>3. job'[p] = [job[p] EXCEPT !.op = "down", !.at = "event", !.o = o]
      BY <2>1, <3>2
    <3>4. job'[p].op = "down" /\ job'[p].since = job[p].since
      BY <2>1, <3>3 DEF Job
    <3>5. QED
      BY <3>4
  <2>6. AfterOne(p)
    <3>1. SUFFICES ASSUME ~ AfterOne(p) PROVE FALSE
      OBVIOUS
    <3>2. job'[p] = [job[p] EXCEPT !.at = "write"]
      BY <2>1, <2>4, <2>5, <3>1 DEF LogEvent, FindExisting
    <3>3. job'[p].op = "down" /\ job'[p].since = job[p].since
      BY <2>1, <3>2 DEF Job
    <3>4. QED
      BY <3>3
  <2>7. s = job[p].s
    <3>1. SUFFICES ASSUME s # job[p].s PROVE FALSE
      OBVIOUS
    <3> DEFINE since == [job[p].since EXCEPT ![job[p].s] = 0]
    <3>2. since[s] = job[p].since[s] /\ since[s] # 0
      BY <2>1, <3>1 DEF Job
    <3>3. NextStation(p, since)
      BY <2>6 DEF AfterOne
    <3> HIDE DEF since
    <3>4. Idle.since[s] = 0
      BY DEF Idle
    <3>5. PICK x : Continue(p, [Idle EXCEPT !.op = "down", !.at = "find", !.s = x, !.since = since])
      BY <3>2, <3>3, <3>4 DEF NextStation
    <3>6. job'[p].op = "down" /\ job'[p].since = since
      BY <2>1, <3>5 DEF Idle
    <3>7. QED
      BY <3>2, <3>6
  <2>8. CASE LogEvent(p)
    <3>1. job[p].o \in Orders /\ Covers(job[p].o, job[p].s, job[p].since[job[p].s])
      BY <2>1, <2>8 DEF LogEvent, Good, SweepKnows
    <3>2. QED
      BY <2>7, <3>1
  <2>9. CASE FindExisting(p)
    <3>1. CASE job'[p] = [job[p] EXCEPT !.at = "write"]
      <4>1. job'[p].op = "down" /\ job'[p].since = job[p].since
        BY <2>1, <3>1 DEF Job
      <4>2. QED
        BY <4>1
    <3>2. CASE job'[p] # [job[p] EXCEPT !.at = "write"]
      BY <2>1, <2>7, <2>9, <3>2 DEF FindExisting
    <3>3. QED
      BY <3>1, <3>2
  <2>10. QED
    BY <2>4, <2>5, <2>8, <2>9
<1>3. SweepInv /\ [Next]_vars => SweepInv'
  BY SweepNext
<1>4. SweepInv /\ [Next]_vars => [A]_vars
  BY <1>2
<1>5. QED
  BY <1>1, <1>3, <1>4, PTL DEF Spec

-----------------------------------------------------------------------------
(* The timeline.                                                           *)

\* The handlers whose event tells a status.
Telling == Deciding \union {"create", "down", "up"}

Owes(p, o) == job[p].o = o /\ job[p].at = "event" /\ job[p].op \in Telling

\* The orders a handler holds, or has moved without telling.
Hands(p) == Holds(job[p]) \union {o \in Orders : Owes(p, o)}

\* No two handlers have the same order in hand: none is moved before its last move
\* is told.
Disjoint == \A p, q \in Slots : p # q => Hands(p) \intersect Hands(q) = {}

\* What the timeline of an order lacks is the event its writer will insert.
Accounted(o) ==
    /\ (\A p \in Slots : ~ Owes(p, o)) => told[o] = row[o].status
    /\ \A p \in Slots : Owes(p, o) =>
          row[o].status # "NONE" /\ Told(told[o], job[p].op) = row[o].status

TimelineInv ==
    /\ SeqInv
    /\ faults = 0 => \A o \in Orders : Accounted(o)

Alone(q) == \A p \in Slots : p # q => job'[p] = job[p]

\* An order that a step of a handler does not touch.
LEMMA Untouched ==
    ASSUME NEW q \in Slots, Alone(q), NEW x \in Orders, Accounted(x),
           row'[x] = row[x], told'[x] = told[x], ~ Owes(q, x), ~ Owes(q, x)'
    PROVE  Accounted(x)'
<1>1. ASSUME NEW p \in Slots PROVE (Owes(p, x)' <=> Owes(p, x)) /\ (Owes(p, x) => job'[p].op = job[p].op)
  BY DEF Owes, Alone
<1>2. QED
  BY <1>1 DEF Accounted

\* Between two statements nothing is told and nothing is written.
LEMMA QuietTimeline ==
    ASSUME NEW q \in Slots, Alone(q), UNCHANGED <<row, told>>,
           job[q].at # "event" \/ job[q].op \notin Telling,
           job'[q].at # "event" \/ job'[q].op \notin Telling,
           \A o \in Orders : Accounted(o)
    PROVE  \A o \in Orders : Accounted(o)'
<1>1. \A o \in Orders : ~ Owes(q, o) /\ ~ Owes(q, o)'
  BY DEF Owes
<1>2. QED
  BY <1>1, Untouched

\* The handler has written one order, which nobody else had moved, and owes its
\* event.
LEMMA OwedEvent ==
    ASSUME NEW q \in Slots, Alone(q), NEW o \in Orders, NEW r \in Row,
           row \in [Orders -> Row], row' = [row EXCEPT ![o] = r], told' = told,
           job[q].at # "event", job'[q].at = "event", job'[q].o = o, job'[q].op \in Telling,
           \A p \in Slots : p # q => ~ Owes(p, o),
           r.status # "NONE", Told(row[o].status, job'[q].op) = r.status,
           \A x \in Orders : Accounted(x)
    PROVE  \A x \in Orders : Accounted(x)'
<1> SUFFICES ASSUME NEW x \in Orders PROVE Accounted(x)'
  OBVIOUS
<1>1. \A p \in Slots : ~ Owes(p, o)
  BY DEF Owes
<1>2. CASE x = o
  <2>1. row'[o] = r /\ told'[o] = row[o].status
    BY <1>1 DEF Accounted
  <2>2. Owes(q, o)'
    BY DEF Owes
  <2>3. ASSUME NEW p \in Slots, Owes(p, o)' PROVE p = q
    BY <1>1, <2>3 DEF Owes, Alone
  <2>4. QED
    BY <1>2, <2>1, <2>2, <2>3 DEF Accounted
<1>3. CASE x # o
  <2>1. row'[x] = row[x] /\ told'[x] = told[x]
    BY <1>3
  <2>2. ~ Owes(q, x) /\ ~ Owes(q, x)'
    BY <1>3 DEF Owes
  <2>3. QED
    BY <2>1, <2>2, Untouched
<1>4. QED
  BY <1>2, <1>3

LEMMA ListFrom == Idle.at = "list" /\ Idle.op = "idle"
BY DEF Idle

LEMMA AfterOneOwesNothing ==
    ASSUME IInv, NEW q \in Slots, AfterOne(q)
    PROVE  job'[q].at # "event"
<1>1. job[q] \in Job /\ \A j : Continue(q, j) => job'[q] = j
  BY DEF IInv, TypeOK, Continue
<1>2. QED
  <2>1. CASE Finish(q)
    BY <1>1, <2>1, ListFrom DEF Finish
  <2>2. ASSUME NEW s, NEW since,
               Continue(q, [Idle EXCEPT !.op = "down", !.at = "find", !.s = s, !.since = since])
        PROVE  job'[q].at # "event"
    <3>1. job'[q].at = "find"
      BY <1>1, <2>2 DEF Idle
    <3>2. QED
      BY <3>1
  <2>3. CASE Continue(q, [job[q] EXCEPT !.at = "write", !.o = None])
    BY <1>1, <2>3 DEF Job
  <2>4. QED
    BY <2>1, <2>2, <2>3 DEF AfterOne, NextStation

LEMMA HandlerTells ==
    ASSUME Disjoint, SeqInv, NEW q \in Slots, \A o \in Orders : Accounted(o),
           Step(q) \/ Ask(q) \/ SweepDown(q) \/ SweepUp(q)
    PROVE  \A o \in Orders : Accounted(o)'
<1>1. /\ IInv /\ row \in [Orders -> Row] /\ told \in [Orders -> Status]
      /\ job[q] \in Job /\ Good(job[q]) /\ Fresh(job[q])
      /\ \A j : Continue(q, j) => job'[q] = j
  BY DEF SeqInv, IInv, TypeOK, Continue
<1>a. Alone(q)
  BY <1>1, OthersStay DEF Alone
<1>b. ASSUME NEW o \in Holds(job[q]), NEW p \in Slots, p # q PROVE ~ Owes(p, o)
  BY <1>b DEF Disjoint, Hands, Holds
<1>2. CASE UNCHANGED <<row, told>> /\ job'[q].at # "event" /\ job[q].at # "event"
  BY <1>2, <1>a, QuietTimeline
<1>3. CASE UNCHANGED <<row, told>> /\ job[q].at # "event" /\ (Finish(q) \/ AfterOne(q))
  <2>1. job'[q].at # "event"
    BY <1>1, <1>3, ListFrom, AfterOneOwesNothing DEF Finish
  <2>2. QED
    BY <1>2, <1>3, <2>1
<1>4. ASSUME NEW op, NEW o, NEW m, Request(q, op, o, m) \/ MyWork(q, op, o, m)
      PROVE  \A x \in Orders : Accounted(x)'
  <2>1. job[q].at = "list" /\ job'[q].at # "event" /\ UNCHANGED <<row, told>>
    <3>1. job[q] = Idle /\ UNCHANGED <<row, told>>
      BY <1>4 DEF Request, MyWork, Start
    <3>2. CASE Request(q, op, o, m)
      <4>1. job'[q].at = "read"
        BY <1>1, <3>2 DEF Request, Start, Idle
      <4>2. QED
        BY <3>1, <4>1, ListFrom
    <3>3. CASE MyWork(q, op, o, m)
      <4>1. job'[q].at = "own"
        BY <1>1, <3>3 DEF MyWork, Start, Idle
      <4>2. QED
        BY <3>1, <4>1, ListFrom
    <3>4. QED
      BY <1>4, <3>2, <3>3
  <2>2. QED
    BY <1>2, <2>1
<1>5. CASE Own(q) /\ ~Finish(q)
  <2>1. job[q].at = "own" /\ job[q].op \in MyWorkOps /\ UNCHANGED <<row, told>>
    BY <1>5 DEF Own, Running
  <2>2. job'[q].op = job[q].op /\ job'[q].o = job[q].o
        /\ job'[q].at = IF job[q].op \in FieldOps THEN "event" ELSE "read"
    BY <1>1, <1>5 DEF Own, Job
  <2>3. CASE job[q].op \in FieldOps
    <3>1. job[q].at # "event" /\ job'[q].op \notin Telling
      BY <2>1, <2>2, <2>3 DEF FieldOps, Telling, Deciding
    <3>2. QED
      BY <1>a, <2>1, <3>1, QuietTimeline
  <2>4. QED
    BY <1>2, <2>1, <2>2, <2>3
<1>6. CASE Read(q) /\ ~Finish(q)
  <2>1. job[q].at = "read" /\ job'[q].at = "write" /\ UNCHANGED <<row, told>>
    BY <1>1, <1>6 DEF Read, Running, Job
  <2>2. QED
    BY <1>2, <2>1
<1>7. CASE Write(q)
  <2>1. job[q].op \in PersonOps /\ job[q].at = "write" /\ told' = told
    BY <1>7 DEF Write, Running
  <2>2. PICK o \in Orders : o = job[q].o
    BY <1>1, <2>1 DEF Good
  <2> DEFINE r == Applied(row[o], job[q])
  <2>3. r \in Row
    BY <1>1, <2>1, <2>2, AppliedRow DEF Good
  <2>4. row' = [row EXCEPT ![o] = r]
    BY <1>7, <2>2 DEF Write
  <2>5. job'[q].at = "event" /\ job'[q].o = o /\ job'[q].op = job[q].op
    BY <1>1, <1>7, <2>2 DEF Write, Job
  <2>6. row[o] \in Row /\ row[o].status # "NONE"
    BY <1>1, <2>1, <2>2 DEF Good
  <2>7. r.status = NewStatus(job[q], row[o].status) /\ r.status # "NONE"
    <3>1. r.status = NewStatus(job[q], row[o].status)
      BY <2>6 DEF Applied, Row
    <3>2. r.status # "NONE"
      BY <1>1, <2>1, <2>6, AppliedRow DEF Good
    <3>3. QED
      BY <3>1, <3>2
  <2>8. CASE job[q].op \in Deciding
    <3>1. row[o].status = job[q].seen
      BY <1>1, <2>1, <2>2, <2>8 DEF Fresh
    <3>2. Told(row[o].status, job'[q].op) = r.status
      BY <2>5, <2>7, <2>8, <3>1 DEF Told, NewStatus, Deciding
    <3>3. \A p \in Slots : p # q => ~ Owes(p, o)
      BY <1>b, <2>1, <2>2, <2>8 DEF Holds
    <3>4. job'[q].op \in Telling /\ job[q].at # "event"
      BY <2>1, <2>5, <2>8 DEF Telling
    <3> HIDE DEF r
    <3>5. QED
      BY <1>1, <1>a, <2>1, <2>3, <2>4, <2>5, <2>7, <3>2, <3>3, <3>4, OwedEvent
  <2>9. CASE job[q].op \notin Deciding
    <3>1. job[q].op \in {"comment", "schedule"}
      BY <2>1, <2>9 DEF PersonOps, Deciding
    <3>2. r.status = row[o].status /\ job'[q].op \notin Telling
      BY <2>5, <2>7, <3>1 DEF NewStatus, Telling, Deciding
    <3>3. job[q].at # "event"
      BY <2>1
    <3> HIDE DEF r
    <3>4. ASSUME NEW x \in Orders, Accounted(x) PROVE Accounted(x)'
      <4>1. ~ Owes(q, x) /\ ~ Owes(q, x)'
        BY <3>2, <3>3 DEF Owes
      <4>2. \A p \in Slots : (Owes(p, x)' <=> Owes(p, x)) /\ (Owes(p, x) => job'[p].op = job[p].op)
        BY <1>a, <4>1 DEF Owes, Alone
      <4>3. row'[x].status = row[x].status /\ told'[x] = told[x]
        BY <1>1, <2>1, <2>4, <3>2
      <4>4. QED
        BY <3>4, <4>2, <4>3 DEF Accounted
    <3>5. QED
      BY <3>4
  <2>10. QED
    BY <2>8, <2>9
<1>8. ASSUME NEW o \in Orders, Resolve(q, o)
      PROVE  \A x \in Orders : Accounted(x)'
  <2>1. job[q].op = "up" /\ job[q].at = "write" /\ told' = told
    BY <1>8 DEF Resolve, Running
  <2> DEFINE r == Applied(row[o], job[q])
  <2>2. r \in Row /\ row[o] \in Row
    BY <1>1, <2>1, AppliedRow
  <2>3. row' = [row EXCEPT ![o] = r]
    BY <1>8 DEF Resolve
  <2>4. job'[q].at = "event" /\ job'[q].o = o /\ job'[q].op = "up"
    BY <1>1, <1>8, <2>1 DEF Resolve, Job
  <2>5. r.status = "RESOLVED"
    BY <2>1, <2>2 DEF Applied, NewStatus, Row
  <2>6. Told(row[o].status, job'[q].op) = r.status
    BY <2>4, <2>5 DEF Told
  <2>7. \A p \in Slots : p # q => ~ Owes(p, o)
    BY <1>8, <1>b, <2>1 DEF Holds, Resolve
  <2>8. job'[q].op \in Telling /\ job[q].at # "event" /\ r.status # "NONE"
    BY <2>1, <2>4, <2>5 DEF Telling
  <2> HIDE DEF r
  <2>9. QED
    BY <1>1, <1>a, <2>1, <2>2, <2>3, <2>4, <2>6, <2>7, <2>8, OwedEvent
<1>9. ASSUME NEW s, NEW source \in Source, Insert(q, s, source), job[q].at # "event"
      PROVE  \A x \in Orders : Accounted(x)'
  <2>1. PICK o \in Unused(s) : o = CHOOSE y \in Unused(s) : TRUE
    BY <1>9 DEF Insert
  <2>2. o \in Orders
    BY <2>1 DEF Unused
  <2> DEFINE r == [NoRow EXCEPT !.status = "OPEN", !.source = source,
                                !.created = IF source = "MANUAL" THEN 0 ELSE clock]
  <2>3. clock \in Time /\ 0 \in Time
    BY <1>1, ConstantsAssumption DEF IInv, TypeOK, Time
  <2>4. r \in Row /\ r.status = "OPEN"
    BY <2>3, NoRowType DEF NoRow, Row, Status, NonTerminal
  <2>5. row' = [row EXCEPT ![o] = r] /\ told' = told
    BY <1>9, <2>1 DEF Insert
  <2>6. job'[q].at = "event" /\ job'[q].o = o /\ job'[q].op \in {"create", "down"}
    BY <1>1, <1>9, <2>1 DEF Insert, Job
  <2>7. Told(row[o].status, job'[q].op) = r.status
    BY <2>4, <2>6 DEF Told
  <2>8. \A p \in Slots : ~ Owes(p, o)
    BY <2>1, <2>2 DEF Accounted, Unused
  <2>9. job'[q].op \in Telling /\ r.status # "NONE"
    BY <2>4, <2>6 DEF Telling
  <2> HIDE DEF r
  <2>10. QED
    BY <1>1, <1>9, <1>a, <2>2, <2>4, <2>5, <2>6, <2>7, <2>8, <2>9, OwedEvent
<1>10. ASSUME NEW s, Create(q, s) PROVE \A x \in Orders : Accounted(x)'
  <2>1. job[q].at # "event" /\ Insert(q, s, "MANUAL")
    BY <1>10, ListFrom DEF Create
  <2>2. QED
    BY <1>9, <2>1 DEF Source
<1>11. CASE Report(q)
  <2>1. job[q].at # "event" /\ Insert(q, job[q].s, "CONNECTIVITY_LOSS")
    BY <1>11 DEF Report, Running
  <2>2. QED
    BY <1>9, <2>1 DEF Source
<1>12. CASE FindExisting(q)
  <2>1. job[q].at = "find" /\ UNCHANGED <<row, told>>
    BY <1>12 DEF FindExisting, Running
  <2>2. AfterOne(q) \/ job'[q].at = "write"
    BY <1>1, <1>12 DEF FindExisting, Job
  <2>3. QED
    BY <1>2, <1>3, <2>1, <2>2
<1>13. CASE SweepDown(q) \/ SweepUp(q)
  <2>1. job[q].at = "list" /\ job'[q].at # "event" /\ UNCHANGED <<row, told>>
    BY <1>1, <1>13, ListFrom DEF SweepDown, SweepUp, Start, NextStation, Finish, Idle
  <2>2. QED
    BY <1>2, <2>1
<1>14. CASE LogEvent(q)
  <2>1. job[q].op # "idle" /\ job[q].at = "event" /\ row' = row /\ job'[q].at # "event"
    BY <1>1, <1>14, AfterOneOwesNothing DEF LogEvent
  <2>2. PICK o \in Orders : o = job[q].o
    BY <1>1, <2>1 DEF Good
  <2>3. told' = [told EXCEPT ![o] = Told(told[o], job[q].op)]
    BY <1>14, <2>2 DEF LogEvent
  <2>4. CASE job[q].op \in Telling
    <3>1. Owes(q, o) /\ o \in Hands(q)
      BY <2>1, <2>2, <2>4 DEF Owes, Hands
    <3>2. \A p \in Slots : ~ Owes(p, o)'
      <4>1. \A p \in Slots : p # q => ~ Owes(p, o)
        BY <3>1 DEF Disjoint, Hands
      <4>2. QED
        BY <1>a, <2>1, <4>1 DEF Owes, Alone
    <3>3. told'[o] = row'[o].status
      BY <1>1, <2>1, <2>3, <3>1 DEF Accounted
    <3>4. ASSUME NEW x \in Orders, x # o PROVE Accounted(x)'
      <4>1. ~ Owes(q, x) /\ ~ Owes(q, x)'
        BY <2>1, <2>2, <3>4 DEF Owes
      <4>2. row'[x] = row[x] /\ told'[x] = told[x]
        BY <1>1, <2>1, <2>3, <3>4
      <4>3. QED
        BY <1>a, <4>1, <4>2, Untouched
    <3>5. QED
      BY <3>2, <3>3, <3>4 DEF Accounted
  <2>5. CASE job[q].op \notin Telling
    <3>1. Told(told[o], job[q].op) = told[o]
      BY <2>5 DEF Told, Telling, Deciding
    <3>2. told' = told
      BY <1>1, <2>3, <3>1
    <3>3. QED
      BY <1>a, <2>1, <2>5, <3>2, QuietTimeline
  <2>6. QED
    BY <2>4, <2>5
<1>15. CASE Finish(q) /\ (Own(q) \/ Read(q))
  <2>1. job[q].at # "event" /\ UNCHANGED <<row, told>>
    BY <1>15 DEF Own, Read, Running
  <2>2. QED
    BY <1>3, <1>15, <2>1
<1>16. QED
  BY <1>4, <1>5, <1>6, <1>7, <1>8, <1>10, <1>11, <1>12, <1>13, <1>14, <1>15 DEF Step, Ask

LEMMA TimelineNext ==
    ASSUME Disjoint, TimelineInv, [Next]_vars
    PROVE  TimelineInv'
<1>1. SeqInv /\ SeqInv' /\ faults \in Nat /\ MaxFaults \in Nat
  <2>1. Apart
    BY DEF Disjoint, Apart, Hands
  <2>2. QED
    BY <2>1, SeqNext, ConstantsAssumption DEF TimelineInv, SeqInv, IInv, TypeOK
<1>2. SUFFICES ASSUME faults' = 0 PROVE \A o \in Orders : Accounted(o)'
  BY <1>1 DEF TimelineInv
<1>3. CASE UNCHANGED <<row, told, job, faults>>
  <2>1. \A o \in Orders : Accounted(o)
    BY <1>2, <1>3 DEF TimelineInv
  <2>2. QED
    BY <1>3, <2>1 DEF Accounted, Owes
<1>4. ASSUME NEW q \in Slots, Step(q) \/ Ask(q) \/ SweepDown(q) \/ SweepUp(q)
      PROVE  \A o \in Orders : Accounted(o)'
  <2>1. faults' = faults
    BY <1>4 DEF Step, Ask, Own, Read, Write, LogEvent, FindExisting, Report, Resolve, Create,
                Insert, Request, MyWork, SweepDown, SweepUp
  <2>2. \A o \in Orders : Accounted(o)
    BY <1>2, <2>1 DEF TimelineInv
  <2>3. QED
    BY <1>1, <1>4, <2>2, HandlerTells
<1>5. ASSUME NEW q \in Slots, FailStatement(q) PROVE FALSE
  BY <1>1, <1>2, <1>5 DEF FailStatement
<1>6. CASE Crash
  <2>1. faults' = faults + 1
    BY <1>6 DEF Crash
  <2>2. QED
    BY <1>1, <1>2, <2>1
<1>7. CASE Tick \/ UNCHANGED vars \/ \E s \in Stations : Connect(s) \/ Disconnect(s)
  <2>1. UNCHANGED <<row, told, job, faults>>
    BY <1>7 DEF Tick, vars, Connect, Disconnect
  <2>2. QED
    BY <1>3, <2>1
<1>8. QED
  BY <1>4, <1>5, <1>6, <1>7 DEF Next

\* Without faults, and with no two handlers that have the same order in hand, the
\* timeline of every order tells its status once the handler that moved it is
\* done: no move is unrecorded, and none is recorded that did not happen.
THEOREM DisjointTimelineTells == Spec /\ []Disjoint => []TimelineTells
<1>1. Init => TimelineInv
  <2> SUFFICES ASSUME Init PROVE TimelineInv
    OBVIOUS
  <2>1. SeqInv
    BY InitInv DEF SeqInv, Init, Fresh, Idle, Deciding
  <2>2. \A p \in Slots : job[p].at = "list"
    BY ListFrom DEF Init
  <2>3. \A o \in Orders : told[o] = "NONE" /\ row[o].status = "NONE"
    BY DEF Init, NoRow
  <2>4. QED
    BY <2>1, <2>2, <2>3 DEF TimelineInv, Accounted, Owes
<1>2. TimelineInv /\ Disjoint /\ [Next]_vars => TimelineInv'
  BY TimelineNext
<1>3. TimelineInv => TimelineTells
  BY DEF TimelineInv, TimelineTells, Accounted, Busy, Owes
<1>4. QED
  BY <1>1, <1>2, <1>3, PTL DEF Spec

\* Handlers that never overlap satisfy every one of these conditions.
THEOREM OneHandler ==
  ASSUME \A p, q \in Slots : p = q
  PROVE  Spec => [](OneOrderPerOutage /\ TimelineTells) /\ ImplementsLifecycle
<1>1. Apart /\ OneSweep /\ Disjoint
  BY DEF Apart, OneSweep, Disjoint
<1>2. QED
  BY <1>1, ApartImplementsLifecycle, SweepReportsOnce, DisjointTimelineTells, PTL

=============================================================================
