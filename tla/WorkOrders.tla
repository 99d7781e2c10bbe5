----------------------------- MODULE WorkOrders -----------------------------
(***************************************************************************)
(* Work orders: the transitions a person asks for (WorkOrderService and,   *)
(* for technicians, MyWorkService), evidence from the field, and the two   *)
(* sweeps of WorkOrderAutomationService that open an order for a station   *)
(* that stays offline and close it when the station is back.               *)
(*                                                                         *)
(* A handler reads an order, decides, and later writes `where id`; then it *)
(* inserts the row of the timeline.  One action is the code between two    *)
(* awaits with the statement that ends it.  Handlers run in Slots: with    *)
(* one slot they are sequential.  Sockets come and go at any time.         *)
(***************************************************************************)
EXTENDS Naturals

CONSTANTS
    Stations,
    Orders,      \* rows that may come to exist
    StationOf,   \* order -> station
    Members,     \* technicians
    None,        \* null: no assignee, no order; as an actor, the operator
    Slots,       \* bound: handlers running at the same time
    Triggers,    \* which handlers start
    Threshold,   \* OFFLINE_THRESHOLD_MS, in ticks
    MaxClock,    \* bound: the clock, in ticks
    MaxFaults    \* bound: crashes and failed statements

PersonOps == {"assign", "start", "resolve", "cancel", "comment", "schedule"}
FieldOps  == {"checklist", "attach"}
MyWorkOps == {"start", "resolve", "comment"} \union FieldOps

ASSUME ConstantsAssumption ==
    /\ StationOf \in [Orders -> Stations]
    /\ None \notin Members \union Orders \union Stations
    /\ Triggers \subseteq PersonOps \union FieldOps \union {"create", "down", "up"}
    /\ MaxClock \in Nat \ {0} /\ Threshold \in Nat /\ MaxFaults \in Nat

-----------------------------------------------------------------------------
(* Types.  Time 0 is null.                                                 *)

Time == 0..MaxClock

Terminal    == {"RESOLVED", "CANCELLED"}
NonTerminal == {"OPEN", "ASSIGNED", "IN_PROGRESS"}
Status      == {"NONE"} \union NonTerminal \union Terminal

\* A WorkOrder row; notes is a person's or CONNECTIVITY_RECOVERED_COMMENT.
Source == {"CONNECTIVITY_LOSS", "MANUAL"}
Row == [status : Status, source : Source, created : Time, assignee : Members \union {None},
        notes : {"person", "recovered"}]

NoRow == [status |-> "NONE", source |-> "MANUAL", created |-> 0, assignee |-> None, notes |-> "person"]

\* A running handler: where it is suspended, who asks, the order and assignee of
\* the request, the status it decided on, what a sweep has listed.
Job == [op : PersonOps \union FieldOps \union {"idle", "create", "down", "up"},
        at : {"own", "read", "write", "event", "list", "find"},
        who : Members \union {None}, o : Orders \union {None},
        to : Members \union {None}, seen : Status,
        s : Stations \union {None}, since : [Stations -> Time], todo : SUBSET Orders]

VARIABLES
    row,      \* the WorkOrder table
    told,     \* order -> the status its timeline (WorkOrderEvent) tells
    conn,     \* station -> connectivityStatus
    up,       \* station -> lastConnectedAt
    down,     \* station -> lastDisconnectedAt
    job,      \* slot -> running handler
    clock,
    faults,
    reports   \* history: outage orders of a station since its last disconnection

stationVars == <<conn, up, down>>
vars == <<row, told, stationVars, job, clock, faults, reports>>

Idle == [op |-> "idle", at |-> "list", who |-> None, o |-> None, to |-> None,
         seen |-> "NONE", s |-> None, since |-> [s \in Stations |-> 0],
         todo |-> {}]

TypeOK ==
    /\ row \in [Orders -> Row]
    /\ told \in [Orders -> Status]
    /\ conn \in [Stations -> {"ONLINE", "OFFLINE", "UNKNOWN"}]
    /\ up \in [Stations -> Time] /\ down \in [Stations -> Time]
    /\ job \in [Slots -> Job]
    /\ clock \in Time
    /\ faults \in 0..MaxFaults
    /\ reports \in [Stations -> Nat]

Init ==
    /\ row = [o \in Orders |-> NoRow]
    /\ told = [o \in Orders |-> "NONE"]
    /\ conn = [s \in Stations |-> "UNKNOWN"]
    /\ up = [s \in Stations |-> 0] /\ down = [s \in Stations |-> 0]
    /\ job = [p \in Slots |-> Idle]
    /\ clock = 1
    /\ faults = 0
    /\ reports = [s \in Stations |-> 0]

-----------------------------------------------------------------------------
(* Helpers.                                                                *)

Running(p, ops, at) == job[p].op \in ops /\ job[p].at = at

Continue(p, j) == job' = [job EXCEPT ![p] = j]
Finish(p) == Continue(p, Idle)

IsOutage(o) == row[o].source = "CONNECTIVITY_LOSS"

\* Mutant: work may be resolved before it is started.
ValidUnstarted(from, op) ==
    /\ from \in NonTerminal
    /\ op = "start"   => from = "ASSIGNED"
    /\ op = "resolve" => from \in {"ASSIGNED", "IN_PROGRESS"}

\* VALID_TRANSITIONS, with the check of schedule.
Valid(from, op) ==
    /\ from \in NonTerminal
    /\ op = "start"   => from = "ASSIGNED"
    /\ op = "resolve" => from = "IN_PROGRESS"

\* Mutant: a new assignee starts over.
NewStatusStartOver(j, old) == IF j.seen = "OPEN" THEN "ASSIGNED" ELSE "OPEN"

\* The status column; that of assign is computed from the status read.
NewStatus(j, old) ==
    IF j.op = "assign" THEN (IF j.seen = "OPEN" THEN "ASSIGNED" ELSE j.seen)
    ELSE IF j.op = "start" THEN "IN_PROGRESS"
    ELSE IF j.op \in {"resolve", "up"} THEN "RESOLVED"
    ELSE IF j.op = "cancel" THEN "CANCELLED"
    ELSE old

\* The notes column: a comment comes with every request that needs one.
NewNotes(j, old) ==
    IF j.op = "up" THEN "recovered"
    ELSE IF j.op \in {"comment", "resolve", "cancel"} THEN "person"
    ELSE old

\* The columns of applyTransition, schedule and the automatic resolution that
\* a property is about.
Applied(r, j) ==
    [r EXCEPT !.status   = NewStatus(j, @),
              !.assignee = IF j.op = "assign" THEN j.to ELSE @,
              !.notes    = NewNotes(j, @)]

\* The status the timeline tells once the handler has inserted its event.
Told(t, op) ==
    IF op \in {"create", "down"} THEN "OPEN"
    ELSE IF op = "assign" THEN (IF t = "OPEN" THEN "ASSIGNED" ELSE t)
    ELSE IF op = "start" THEN "IN_PROGRESS"
    ELSE IF op \in {"resolve", "up"} THEN "RESOLVED"
    ELSE IF op = "cancel" THEN "CANCELLED"
    ELSE t

-----------------------------------------------------------------------------
(* Requests: a new order, a transition, a schedule, evidence.              *)

Start(p, op, j) == job[p] = Idle /\ op \in Triggers /\ Continue(p, j)

\* An operator's request; a missing or wrong field ends it before it reads.
Request(p, op, o, to) ==
    /\ op \in PersonOps
    /\ Start(p, op, [Idle EXCEPT !.op = op, !.at = "read", !.o = o,
                                 !.to = IF op = "assign" THEN to ELSE None])
    /\ UNCHANGED <<row, told, stationVars, clock, faults, reports>>

\* A technician's request under /my-work.
MyWork(p, op, o, who) ==
    /\ op \in MyWorkOps
    /\ Start(p, op, [Idle EXCEPT !.op = op, !.at = "own", !.o = o, !.who = who])
    /\ UNCHANGED <<row, told, stationVars, clock, faults, reports>>

\* getOwnWorkOrder, and the refusal of evidence for a closed order; what else
\* is wrong with a request (an empty finding, a file too large) ends it too.
Owned(r, j) ==
    /\ r.status # "NONE" /\ r.assignee = j.who
    /\ j.op \in FieldOps => r.status \notin Terminal

Own(p) ==
    /\ Running(p, MyWorkOps, "own")
    /\ \/ Finish(p)
       \/ /\ Owned(row[job[p].o], job[p])
          /\ Continue(p, [job[p] EXCEPT !.at = IF job[p].op \in FieldOps THEN "event" ELSE "read",
                                        !.who = None])
    /\ UNCHANGED <<row, told, stationVars, clock, faults, reports>>

\* The order is read and its status checked; what else is wrong with the
\* request (an assignee without a membership, no comment) ends it here too.
Read(p) ==
    /\ Running(p, PersonOps, "read")
    /\ LET from == row[job[p].o].status IN
          \/ Finish(p)
          \/ /\ Valid(from, job[p].op)
             /\ Continue(p, [job[p] EXCEPT !.at = "write", !.seen = from])
    /\ UNCHANGED <<row, told, stationVars, clock, faults, reports>>

\* update where id.
Write(p) ==
    /\ Running(p, PersonOps, "write")
    /\ row' = [row EXCEPT ![job[p].o] = Applied(@, job[p])]
    /\ Continue(p, [job[p] EXCEPT !.at = "event", !.to = None, !.seen = "NONE"])
    /\ UNCHANGED <<told, stationVars, clock, faults, reports>>

\* The loop of a sweep goes on after the last statement for one of its items.
NextStation(p, since) ==
    \/ since = Idle.since /\ Finish(p)
    \/ \E s \in Stations :
          /\ since[s] # 0
          /\ Continue(p, [Idle EXCEPT !.op = "down", !.at = "find", !.s = s, !.since = since])

AfterOne(p) ==
    \/ job[p].op = "down" /\ NextStation(p, [job[p].since EXCEPT ![job[p].s] = 0])
    \/ /\ job[p].op = "up" /\ job[p].todo # {}
       /\ Continue(p, [job[p] EXCEPT !.at = "write", !.o = None])
    \/ job[p].op # "down" /\ job[p].todo = {} /\ Finish(p)

LogEvent(p) ==
    /\ job[p].op # "idle" /\ job[p].at = "event"
    /\ told' = [told EXCEPT ![job[p].o] = Told(@, job[p].op)]
    /\ AfterOne(p)
    /\ UNCHANGED <<row, stationVars, clock, faults, reports>>

\* WorkOrderService.create, once the station is found.  createdAt is kept for
\* the orders of an outage: of the others nobody asks it.
Unused(s) == {o \in Orders : StationOf[o] = s /\ row[o].status = "NONE"}
Insert(p, s, source) ==
    /\ Unused(s) # {}
    /\ LET o == CHOOSE o \in Unused(s) : TRUE IN
          /\ row' = [row EXCEPT ![o] = [NoRow EXCEPT !.status = "OPEN", !.source = source,
                                            !.created = IF source = "MANUAL" THEN 0 ELSE clock]]
          /\ Continue(p, [job[p] EXCEPT !.op = IF source = "MANUAL" THEN "create" ELSE "down",
                                        !.at = "event", !.o = o])
    /\ UNCHANGED <<told, stationVars, clock, faults>>

Create(p, s) ==
    /\ job[p] = Idle /\ "create" \in Triggers
    /\ Insert(p, s, "MANUAL")
    /\ UNCHANGED reports

-----------------------------------------------------------------------------
(* The sweep of offline stations.                                          *)

\* ACTIVE stations that have been offline for longer than the threshold.
LongDown(s) == conn[s] = "OFFLINE" /\ down[s] # 0 /\ down[s] + Threshold < clock

SweepDown(p) ==
    /\ job[p] = Idle /\ "down" \in Triggers
    /\ \E s \in Stations : LongDown(s)
    /\ NextStation(p, [s \in Stations |-> IF LongDown(s) THEN down[s] ELSE 0])
    /\ UNCHANGED <<row, told, stationVars, clock, faults, reports>>

\* Mutants: the previous check, by status; any order the station ever had.
CoversOpen(o, s, since) ==
    IsOutage(o) /\ StationOf[o] = s /\ row[o].status \in NonTerminal
CoversEver(o, s, since) == IsOutage(o) /\ StationOf[o] = s

\* An order of this episode: created at or after the disconnection listed.
Covers(o, s, since) ==
    IsOutage(o) /\ StationOf[o] = s /\ row[o].created >= since

\* Bound: with no row left for the station, it is passed over.
FindExisting(p) ==
    /\ Running(p, {"down"}, "find")
    /\ IF \/ \E o \in Orders : Covers(o, job[p].s, job[p].since[job[p].s])
          \/ Unused(job[p].s) = {}
       THEN AfterOne(p)
       ELSE Continue(p, [job[p] EXCEPT !.at = "write"])
    /\ UNCHANGED <<row, told, stationVars, clock, faults, reports>>

Report(p) ==
    /\ Running(p, {"down"}, "write")
    /\ Insert(p, job[p].s, "CONNECTIVITY_LOSS")
    /\ reports' = [reports EXCEPT ![job[p].s] = @ + 1]

-----------------------------------------------------------------------------
(* The automatic resolution: resolveRecoveredConnectivityWorkOrders.       *)

\* Mutant: the station is connected, since whenever.
RecoveredOnline(o) ==
    IsOutage(o) /\ row[o].status \in NonTerminal /\ conn[StationOf[o]] = "ONLINE"

Recovered(o) ==
    /\ IsOutage(o) /\ row[o].status \in NonTerminal
    /\ conn[StationOf[o]] = "ONLINE" /\ up[StationOf[o]] > row[o].created

SweepUp(p) ==
    /\ Start(p, "up", [Idle EXCEPT !.op = "up", !.at = "write",
                                   !.todo = {o \in Orders : Recovered(o)}])
    /\ \E o \in Orders : Recovered(o)
    /\ UNCHANGED <<row, told, stationVars, clock, faults, reports>>

\* Mutant: the automatic resolution leaves no event.
ResolveSilently(p, o) ==
    /\ Running(p, {"up"}, "write") /\ o \in job[p].todo
    /\ row' = [row EXCEPT ![o] = Applied(@, job[p])]
    /\ Continue(p, IF job[p].todo = {o} THEN Idle ELSE [job[p] EXCEPT !.todo = @ \ {o}])
    /\ UNCHANGED <<told, stationVars, clock, faults, reports>>

Resolve(p, o) ==
    /\ Running(p, {"up"}, "write") /\ o \in job[p].todo
    /\ row' = [row EXCEPT ![o] = Applied(@, job[p])]
    /\ Continue(p, [job[p] EXCEPT !.at = "event", !.o = o, !.todo = @ \ {o}])
    /\ UNCHANGED <<told, stationVars, clock, faults, reports>>

-----------------------------------------------------------------------------
(* Faults, sockets and time.                                               *)

\* A statement is rejected: the sweep of offline stations goes on with the
\* next one, every other handler is over.
FailStatement(p) ==
    /\ job[p].op # "idle" /\ faults < MaxFaults
    /\ IF job[p].op = "down" THEN AfterOne(p) ELSE Finish(p)
    /\ faults' = faults + 1
    /\ UNCHANGED <<row, told, stationVars, clock, reports>>

\* The process restarts; onModuleInit of the ConnectivityCoordinator.
Crash ==
    /\ faults < MaxFaults
    /\ job' = [p \in Slots |-> Idle]
    /\ conn' = [s \in Stations |-> IF conn[s] = "ONLINE" THEN "UNKNOWN" ELSE conn[s]]
    /\ faults' = faults + 1
    /\ UNCHANGED <<row, told, up, down, clock, reports>>

\* handleConnectionEstablished, of a first socket or of one that replaces
\* another, and handleConnectionClosed.
Connect(s) ==
    /\ conn' = [conn EXCEPT ![s] = "ONLINE"]
    /\ up' = [up EXCEPT ![s] = clock]
    /\ UNCHANGED <<row, told, down, job, clock, faults, reports>>

Disconnect(s) ==
    /\ conn[s] = "ONLINE"
    /\ conn' = [conn EXCEPT ![s] = "OFFLINE"]
    /\ down' = [down EXCEPT ![s] = clock]
    /\ reports' = [reports EXCEPT ![s] = 0]
    /\ UNCHANGED <<row, told, up, job, clock, faults>>

Tick ==
    /\ clock < MaxClock
    /\ clock' = clock + 1
    /\ UNCHANGED <<row, told, stationVars, job, faults, reports>>

-----------------------------------------------------------------------------
Step(p) ==
    \/ Own(p) \/ Read(p) \/ Write(p) \/ LogEvent(p) \/ FindExisting(p) \/ Report(p)
    \/ \E o \in Orders : Resolve(p, o)

Ask(p) ==
    \/ \E s \in Stations : Create(p, s)
    \/ \E o \in Orders, m \in Members :
          \/ \E op \in PersonOps : Request(p, op, o, m)
          \/ \E op \in MyWorkOps : MyWork(p, op, o, m)

Next ==
    \/ \E p \in Slots : Step(p) \/ Ask(p) \/ SweepDown(p) \/ SweepUp(p) \/ FailStatement(p)
    \/ \E s \in Stations : Connect(s) \/ Disconnect(s)
    \/ Crash \/ Tick

Spec == Init /\ [][Next]_vars

\* The event loop resumes handlers; the interval timer fires whatever people
\* ask for, so that a free slot is not kept from the sweep for ever.
Fairness == (\A p \in Slots : WF_vars(Step(p))) /\ SF_vars(\E p \in Slots : SweepDown(p))

FairSpec == Spec /\ Fairness

-----------------------------------------------------------------------------
(* Properties.                                                             *)

Lifecycle == INSTANCE WorkOrderLifecycle WITH status <- [o \in Orders |-> row[o].status],
                                               outage <- [o \in Orders |-> IsOutage(o)]

\* With handlers one after the other, orders implement their lifecycle:
\* nothing but the transition table and the automatic resolution moves an
\* order, a closed one stays closed, no order leaves twice.
ImplementsLifecycle == Lifecycle!Spec

\* "One continuous offline episode must produce exactly one" order: at most
\* one per disconnection, whatever became of it, across crashes, failures
\* and reconnections that happen while a sweep runs.
OneOrderPerOutage == \A s \in Stations : reports[s] <= 1

\* The automatic note is never on an order of a person or a recommendation,
\* nor on one of an outage the station has not come back from since.
RecoveredMeansReconnected ==
    \A o \in Orders : row[o].notes = "recovered" => IsOutage(o) /\ up[StationOf[o]] > row[o].created

\* Without crashes and failed statements the timeline tells the status of
\* every order that nobody is writing: no change goes unrecorded, none is
\* recorded that did not happen.
Busy(o) == \E p \in Slots : job[p].o = o /\ job[p].at = "event"
TimelineTells == faults = 0 => \A o \in Orders : ~Busy(o) => told[o] = row[o].status

\* Evidence is only ever inserted for an order that is open and in somebody's
\* hands: nothing closes it between the check and the insert.
EvidenceOnlyWhileOpen ==
    \A p \in Slots : Running(p, FieldOps, "event") =>
       row[job[p].o].status \in NonTerminal /\ row[job[p].o].assignee # None

\* An assigned order never goes back to OPEN, however handlers overlap.
NeverUnassigned ==
    [][\A o \in Orders : row[o].status \notin {"NONE", "OPEN"} => row'[o].status \notin {"NONE", "OPEN"}]_vars

\* A station that stays offline past the threshold gets an order that covers
\* the outage, if a row is left for it in the instance.
RowLeft(s) == Unused(s) # {}
Reported(s) == \E o \in Orders : IsOutage(o) /\ StationOf[o] = s /\ row[o].created >= down[s]
OutageReported ==
    \A s \in Stations : (LongDown(s) /\ RowLeft(s)) ~> (~LongDown(s) \/ Reported(s) \/ ~RowLeft(s))

\* Not an invariant: "an operator should not have to manually close an outage
\* WorkOrder MOVOS already knows ended".  An order inserted by a sweep that
\* listed the station before it came back is not closed by its return.
Closable ==
    \A o \in Orders :
       IsOutage(o) /\ row[o].status \in NonTerminal /\ conn[StationOf[o]] = "ONLINE" => up[StationOf[o]] > row[o].created

=============================================================================
