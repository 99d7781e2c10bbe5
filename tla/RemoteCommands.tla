--------------------------- MODULE RemoteCommands ---------------------------
(***************************************************************************)
(* The remote-operations control plane of movos-api: the coroutine of      *)
(* RemoteCommandService.requestCommand, the in-memory pending-call         *)
(* registry that correlates a charger's answer with it, and                *)
(* RemoteCommandConfirmationService, which turns an ACCEPTED command into  *)
(* CONFIRMED or UNCONFIRMED.                                               *)
(*                                                                         *)
(* The process is one Node.js event loop: code runs without interruption   *)
(* from one `await` to the next, so every action below is one such         *)
(* segment, with the single database statement that ends it.  A command    *)
(* identifier stands for one HTTP request and the row it may create.       *)
(* Charging sessions are the environment here: their operations are        *)
(* atomic (ChargingSessions.tla takes them apart), and what is modelled is *)
(* which session events are observed, and when.                            *)
(***************************************************************************)
EXTENDS Naturals

CONSTANTS
    Starts,       \* requests of POST connectors/:id/remote-start
    Stops,        \* requests of POST sessions/:id/remote-stop
    Stations,
    Connectors,
    Sessions,     \* charging-session rows that may come to exist
    NoSession,    \* the null chargingSessionId
    StationOf,    \* connector -> its charging station
    ConnectorOf,  \* session -> the connector it is created on
    SkewedClocks, \* may a device timestamp disagree with the server's order?
    Faults,       \* which faults may happen: "restart", "database"
    MaxFaults     \* bound: how many of them

Commands == Starts \union Stops

ASSUME ConstantsAssumption ==
    /\ Starts \intersect Stops = {}
    /\ NoSession \notin Sessions
    /\ StationOf \in [Connectors -> Stations]
    /\ ConnectorOf \in [Sessions -> Connectors]
    /\ SkewedClocks \in BOOLEAN
    /\ Faults \subseteq {"restart", "database"}
    /\ MaxFaults \in Nat

-----------------------------------------------------------------------------
(* Types.                                                                  *)

\* "NONE" is a request that has no RemoteCommand row.
NonTerminal == {"REQUESTED", "SENT", "ACCEPTED"}
Terminal    == {"REJECTED", "TIMED_OUT", "CONFIRMED", "UNCONFIRMED"}
CommandState == {"NONE"} \union NonTerminal \union Terminal

\* remote-command-state-machine.ts, ALLOWED_TRANSITIONS.
AllowedTransition(from, to) ==
    \/ from = "REQUESTED" /\ to \in {"SENT", "REJECTED"}
    \/ from = "SENT"      /\ to \in {"ACCEPTED", "REJECTED", "TIMED_OUT"}
    \/ from = "ACCEPTED"  /\ to \in {"CONFIRMED", "UNCONFIRMED"}

Verdict == {"Accepted", "Rejected", "CallError"}
Outcome == {"none", "Timeout"} \union Verdict

\* Where the coroutine of a request is suspended.
Stage == {"idle",      \* not yet received
          "checked",   \* preconditions read and passed
          "clear",     \* no conflicting command was seen
          "created",   \* the REQUESTED row is written
          "awaiting",  \* pending call registered, frame handed to the socket
          "answered",  \* the promise is resolved (answer or timeout)
          "sent",      \* SENT is written
          "accepted",  \* ACCEPTED is written, the controller has not run yet
          "done"}      \* returned, thrown, or lost with the process

LiveSession   == {"ACTIVE", "OFFLINE"}
SessionStatus == {"NONE", "COMPLETED", "FAILED"} \union LiveSession

\* Registry entry of a station: absent, on a live socket, or on a dead one.
LinkState == {"none", "open", "dead"}

Observation == [kind : {"start", "stop"}, session : Sessions]
Reply       == [cmd : Commands, verdict : Verdict]
Task        == [kind : {"check", "confirm", "expire"}, cmd : Commands,
                at : {"start", "read", "write"},
                link : Sessions \union {NoSession}]

VARIABLES
    \* database
    state,      \* RemoteCommand.state
    connector,  \* RemoteCommand.connectorId, fixed when the target is resolved
    session,    \* RemoteCommand.chargingSessionId
    status,     \* ChargingSession.status
    \* memory of the process
    stage,      \* the coroutine of requestCommand and of the controller
    outcome,    \* what the awaited promise resolved to
    pending,    \* PendingCallRegistryService.pending
    timers,     \* RemoteCommandConfirmationService.timers
    tasks,      \* running checkImmediately / confirm / expire coroutines
    observed,   \* session handlers about to call on{Start,Stop}...Observed
    link,       \* ConnectionRegistryService.connections
    \* the wire
    calls,      \* CALL frames the charger has not answered
    replies,    \* CALLRESULT and CALLERROR frames of the charger
    \* history and bounds
    before,     \* sessions that existed when the row was created
    faults      \* restarts and database errors so far

database == <<state, connector, session, status>>
memory   == <<stage, outcome, pending, timers, tasks, observed, link>>
wire     == <<calls, replies>>
vars     == <<database, memory, wire, before, faults>>

TypeOK ==
    /\ state \in [Commands -> CommandState]
    /\ connector \in [Commands -> Connectors]
    /\ session \in [Commands -> Sessions \union {NoSession}]
    /\ status \in [Sessions -> SessionStatus]
    /\ stage \in [Commands -> Stage]
    /\ outcome \in [Commands -> Outcome]
    /\ pending \subseteq Commands
    /\ timers \subseteq Commands
    /\ tasks \subseteq Task
    /\ observed \subseteq Observation
    /\ link \in [Stations -> LinkState]
    /\ calls \subseteq Commands
    /\ replies \subseteq Reply
    /\ before \in [Commands -> SUBSET Sessions]
    /\ faults \in 0..MaxFaults

Init ==
    /\ state = [c \in Commands |-> "NONE"]
    /\ connector \in [Commands -> Connectors]
    /\ session = [c \in Commands |-> NoSession]
    /\ status = [s \in Sessions |-> "NONE"]
    /\ stage = [c \in Commands |-> "idle"]
    /\ outcome = [c \in Commands |-> "none"]
    /\ pending = {} /\ timers = {} /\ tasks = {} /\ observed = {}
    /\ link = [st \in Stations |-> "none"]
    /\ calls = {} /\ replies = {}
    /\ before = [c \in Commands |-> {}]
    /\ faults = 0

-----------------------------------------------------------------------------
(* Helpers.                                                                *)

\* The non-terminal RemoteCommand rows of a connector.
ActiveOn(k) == {c \in Commands : connector[c] = k /\ state[c] \in NonTerminal}

\* findNonTerminalSessionForConnector.
LiveOn(k) == {s \in Sessions : ConnectorOf[s] = k /\ status[s] \in LiveSession}

Created == {s \in Sessions : status[s] # "NONE"}

StationFor(c) == StationOf[connector[c]]

Move(c, at) == stage' = [stage EXCEPT ![c] = at]

\* transitionAndPersist: the transition is asserted on the row object the
\* caller holds (`known`), the write is `update where id`.
TransitionAndPersist(c, known, to) ==
    /\ AllowedTransition(known, to)
    /\ state' = [state EXCEPT ![c] = to]

ConfirmTask(c, s) == [kind |-> "confirm", cmd |-> c, at |-> "read", link |-> s]
CheckTask(c)  == [kind |-> "check", cmd |-> c, at |-> "start", link |-> NoSession]
ExpireTask(c) == [kind |-> "expire", cmd |-> c, at |-> "start", link |-> NoSession]

At(t, at) == [t EXCEPT !.at = at]

-----------------------------------------------------------------------------
(* requestCommand.                                                         *)

\* Preconditions of RemoteStart.  The connector's AVAILABLE status and the
\* credential only gate the request: they are the choice of taking the step.
RequestStart(c) ==
    /\ stage[c] = "idle"
    /\ c \in Starts
    /\ LiveOn(connector[c]) = {}
    /\ Move(c, "checked")
    /\ UNCHANGED <<database, outcome, pending, timers, tasks, observed, link,
                   wire, before, faults>>

\* Preconditions of RemoteStop: a stoppable session, whose connector is
\* the command's.
RequestStop(c, s) ==
    /\ stage[c] = "idle"
    /\ c \in Stops
    /\ status[s] \in LiveSession
    /\ Move(c, "checked")
    /\ session' = [session EXCEPT ![c] = s]
    /\ connector' = [connector EXCEPT ![c] = ConnectorOf[s]]
    /\ UNCHANGED <<state, status, outcome, pending, timers, tasks, observed,
                   link, wire, before, faults>>

AssertNoConflictingCommand(c) ==
    /\ stage[c] = "checked"
    /\ Move(c, IF ActiveOn(connector[c]) = {} THEN "clear" ELSE "done")
    /\ UNCHANGED <<database, outcome, pending, timers, tasks, observed, link,
                   wire, before, faults>>

\* Mutant: no unique index behind the check.
CreateCommandWithoutIndex(c) ==
    /\ stage[c] = "clear"
    /\ state' = [state EXCEPT ![c] = "REQUESTED"]
    /\ before' = [before EXCEPT ![c] = Created]
    /\ Move(c, "created")
    /\ UNCHANGED <<connector, session, status, outcome, pending, timers, tasks,
                   observed, link, wire, faults>>

\* The insert, with the partial unique index on the connector's non-terminal
\* rows: a P2002 becomes a ConflictException and no row exists.
CreateCommand(c) ==
    /\ stage[c] = "clear"
    /\ IF ActiveOn(connector[c]) = {}
       THEN /\ state' = [state EXCEPT ![c] = "REQUESTED"]
            /\ before' = [before EXCEPT ![c] = Created]
            /\ Move(c, "created")
       ELSE /\ Move(c, "done")
            /\ UNCHANGED <<state, before>>
    /\ UNCHANGED <<connector, session, status, outcome, pending, timers, tasks,
                   observed, link, wire, faults>>

\* rejectBeforeSend: no connection on record, or one whose protocol version does not
\* support the command, which is a choice of the station.
RejectBeforeSend(c) ==
    /\ stage[c] = "created"
    /\ TransitionAndPersist(c, "REQUESTED", "REJECTED")
    /\ Move(c, "done")
    /\ UNCHANGED <<connector, session, status, outcome, pending, timers, tasks,
                   observed, link, wire, before, faults>>

\* Lookup, registration of the pending call and send run in one segment.  A
\* socket that is no longer open swallows the frame.
SendCall(c) ==
    /\ stage[c] = "created"
    /\ link[StationFor(c)] # "none"
    /\ pending' = pending \union {c}
    /\ calls' = IF link[StationFor(c)] = "open" THEN calls \union {c} ELSE calls
    /\ Move(c, "awaiting")
    /\ UNCHANGED <<database, outcome, timers, tasks, observed, link, replies,
                   before, faults>>

\* The charger answers a CALL; a frame it never reads is never answered.
ChargerAnswers(c, v) ==
    /\ c \in calls
    /\ calls' = calls \ {c}
    /\ replies' = replies \union {[cmd |-> c, verdict |-> v]}
    /\ UNCHANGED <<database, memory, before, faults>>

\* Mutant: an answer is not matched with the registry.
ReceiveReplyUnmatched(r) ==
    /\ r \in replies
    /\ link[StationFor(r.cmd)] = "open"
    /\ replies' \in {replies, replies \ {r}}
    /\ pending' = pending \ {r.cmd}
    /\ outcome' = [outcome EXCEPT ![r.cmd] = r.verdict]
    /\ Move(r.cmd, "answered")
    /\ UNCHANGED <<database, timers, tasks, observed, link, calls, before, faults>>

\* An inbound CALLRESULT or CALLERROR.  The entry, if it is still there,
\* is removed with its timer and settles the promise; an unmatched answer is
\* only logged.  The charger may repeat the frame, so it may stay in flight.
ReceiveReply(r) ==
    /\ r \in replies
    /\ link[StationFor(r.cmd)] = "open"
    /\ replies' \in {replies, replies \ {r}}
    /\ IF r.cmd \in pending
       THEN /\ pending' = pending \ {r.cmd}
            /\ outcome' = [outcome EXCEPT ![r.cmd] = r.verdict]
            /\ Move(r.cmd, "answered")
       ELSE UNCHANGED <<pending, outcome, stage>>
    /\ UNCHANGED <<database, timers, tasks, observed, link, calls, before, faults>>

\* The entry's own setTimeout.
PendingTimeout(c) ==
    /\ c \in pending
    /\ pending' = pending \ {c}
    /\ outcome' = [outcome EXCEPT ![c] = "Timeout"]
    /\ Move(c, "answered")
    /\ UNCHANGED <<database, timers, tasks, observed, link, wire, before, faults>>

\* SENT is written only once the answer (or the timeout) is in.
PersistSent(c) ==
    /\ stage[c] = "answered"
    /\ TransitionAndPersist(c, "REQUESTED", "SENT")
    /\ Move(c, "sent")
    /\ UNCHANGED <<connector, session, status, outcome, pending, timers, tasks,
                   observed, link, wire, before, faults>>

\* Mutant: a CALLERROR is taken for an accepted CALLRESULT.
PersistErrorAsAccepted(c) ==
    /\ stage[c] = "sent"
    /\ \/ /\ outcome[c] = "Timeout"
          /\ TransitionAndPersist(c, "SENT", "TIMED_OUT")
          /\ Move(c, "done")
       \/ /\ outcome[c] = "Rejected"
          /\ TransitionAndPersist(c, "SENT", "REJECTED")
          /\ Move(c, "done")
       \/ /\ outcome[c] \in {"Accepted", "CallError"}
          /\ TransitionAndPersist(c, "SENT", "ACCEPTED")
          /\ Move(c, "accepted")
    /\ UNCHANGED <<connector, session, status, outcome, pending, timers, tasks,
                   observed, link, wire, before, faults>>

\* finalize with what the promise resolved to.
PersistOutcome(c) ==
    /\ stage[c] = "sent"
    /\ \/ /\ outcome[c] = "Timeout"
          /\ TransitionAndPersist(c, "SENT", "TIMED_OUT")
          /\ Move(c, "done")
       \/ /\ outcome[c] \in {"Rejected", "CallError"}
          /\ TransitionAndPersist(c, "SENT", "REJECTED")
          /\ Move(c, "done")
       \/ /\ outcome[c] = "Accepted"
          /\ TransitionAndPersist(c, "SENT", "ACCEPTED")
          /\ Move(c, "accepted")
    /\ UNCHANGED <<connector, session, status, outcome, pending, timers, tasks,
                   observed, link, wire, before, faults>>

\* Mutant: only the immediate check, no expiry.
RegisterAcceptedWithoutExpiry(c) ==
    /\ stage[c] = "accepted"
    /\ tasks' = tasks \union {CheckTask(c)}
    /\ Move(c, "done")
    /\ UNCHANGED <<database, outcome, pending, timers, observed, link, wire,
                   before, faults>>

\* Mutant: only the expiry, no immediate check.
RegisterAcceptedWithoutCheck(c) ==
    /\ stage[c] = "accepted"
    /\ timers' = timers \union {c}
    /\ Move(c, "done")
    /\ UNCHANGED <<database, outcome, pending, tasks, observed, link, wire,
                   before, faults>>

\* The controller's continuation: registerAccepted schedules the expiry
\* and starts the immediate check.
RegisterAccepted(c) ==
    /\ stage[c] = "accepted"
    /\ timers' = timers \union {c}
    /\ tasks' = tasks \union {CheckTask(c)}
    /\ Move(c, "done")
    /\ UNCHANGED <<database, outcome, pending, observed, link, wire, before, faults>>

-----------------------------------------------------------------------------
(* The confirmation service.                                               *)

\* confirm: the timer is cleared in the segment that found the evidence,
\* the row is read again afterwards.
Confirm(c, s, without) ==
    /\ timers' = timers \ {c}
    /\ tasks' = (tasks \ without) \union {ConfirmTask(c, s)}

\* startedAt (device clock) >= requestedAt (server clock).
StartedAfterRequest(s, c) ==
    IF SkewedClocks THEN BOOLEAN ELSE {s \notin before[c]}

\* Mutant: the target session of a stop is taken as it is.
EvidenceOfAnyStatus(c, s) ==
    \/ /\ c \in Starts
       /\ ConnectorOf[s] = connector[c]
       /\ status[s] = "ACTIVE"
       /\ TRUE \in StartedAfterRequest(s, c)
    \/ c \in Stops /\ s = session[c]

\* The session rows checkImmediately may find for a command.
Evidence(c, s) ==
    \/ /\ c \in Starts
       /\ ConnectorOf[s] = connector[c]
       /\ status[s] = "ACTIVE"
       /\ TRUE \in StartedAfterRequest(s, c)
    \/ /\ c \in Stops
       /\ s = session[c]
       /\ status[s] = "COMPLETED"

\* May the query of checkImmediately come back empty?
NoEvidence(c) ==
    \A s \in Sessions :
        Evidence(c, s) => c \in Starts /\ FALSE \in StartedAfterRequest(s, c)

CheckImmediately(t) ==
    /\ t \in tasks
    /\ t.kind = "check"
    /\ \/ \E s \in Sessions : Evidence(t.cmd, s) /\ Confirm(t.cmd, s, {t})
       \/ /\ NoEvidence(t.cmd)
          /\ tasks' = tasks \ {t}
          /\ UNCHANGED timers
    /\ UNCHANGED <<database, stage, outcome, pending, observed, link, wire,
                   before, faults>>

\* The ACCEPTED command the observers look up: by connector for a start, by
\* chargingSessionId for a stop.
Matching(o) ==
    {c \in Commands :
        /\ state[c] = "ACCEPTED"
        /\ \/ /\ o.kind = "start"
              /\ c \in Starts
              /\ connector[c] = ConnectorOf[o.session]
           \/ /\ o.kind = "stop"
              /\ c \in Stops
              /\ session[c] = o.session}

\* onStartTransactionObserved and onStopTransactionObserved.
OnTransactionObserved(o) ==
    /\ o \in observed
    /\ observed' = observed \ {o}
    /\ \/ \E c \in Matching(o) : Confirm(c, o.session, {})
       \/ Matching(o) = {} /\ UNCHANGED <<timers, tasks>>
    /\ UNCHANGED <<database, stage, outcome, pending, link, wire, before, faults>>

\* The window of an ACCEPTED command elapses.
ExpiryFires(c) ==
    /\ c \in timers
    /\ timers' = timers \ {c}
    /\ tasks' = tasks \union {ExpireTask(c)}
    /\ UNCHANGED <<database, stage, outcome, pending, observed, link, wire,
                   before, faults>>

\* The reads of a confirm or an expire coroutine: expire looks once more
\* than confirm before requireCommand; a row that is not ACCEPTED ends it.
ReadCommand(t) ==
    /\ t \in tasks
    /\ t.kind \in {"confirm", "expire"}
    /\ t.at # "write"
    /\ LET next == IF t.at = "start" THEN "read" ELSE "write"
       IN  tasks' = (tasks \ {t}) \union
                    IF state[t.cmd] = "ACCEPTED" THEN {At(t, next)} ELSE {}
    /\ UNCHANGED <<database, stage, outcome, pending, timers, observed, link,
                   wire, before, faults>>

\* confirmCommand: the snapshot read was ACCEPTED; a RemoteStart is linked to
\* the session that confirmed it.
ConfirmCommand(t) ==
    /\ t \in tasks
    /\ t.kind = "confirm" /\ t.at = "write"
    /\ TransitionAndPersist(t.cmd, "ACCEPTED", "CONFIRMED")
    /\ session' = IF t.cmd \in Starts
                  THEN [session EXCEPT ![t.cmd] = t.link] ELSE session
    /\ tasks' = tasks \ {t}
    /\ UNCHANGED <<connector, status, stage, outcome, pending, timers, observed,
                   link, wire, before, faults>>

\* markUnconfirmed.
MarkUnconfirmed(t) ==
    /\ t \in tasks
    /\ t.kind = "expire" /\ t.at = "write"
    /\ TransitionAndPersist(t.cmd, "ACCEPTED", "UNCONFIRMED")
    /\ tasks' = tasks \ {t}
    /\ UNCHANGED <<connector, session, status, stage, outcome, pending, timers,
                   observed, link, wire, before, faults>>

-----------------------------------------------------------------------------
(* Charging sessions and connections: the environment.                     *)

Observe(kind, s) == observed' = observed \union {[kind |-> kind, session |-> s]}

\* A StartTransaction on a free connector creates an ACTIVE session.
StartTransaction(s) ==
    /\ status[s] = "NONE"
    /\ LiveOn(ConnectorOf[s]) = {}
    /\ status' = [status EXCEPT ![s] = "ACTIVE"]
    /\ Observe("start", s)
    /\ UNCHANGED <<state, connector, session, stage, outcome, pending, timers,
                   tasks, link, wire, before, faults>>

\* A StartTransaction on an occupied connector returns the live session
\* (createSession, cases A and B) and is observed all the same.
RepeatedStartTransaction(s) ==
    /\ status[s] \in LiveSession
    /\ Observe("start", s)
    /\ UNCHANGED <<database, stage, outcome, pending, timers, tasks, link, wire,
                   before, faults>>

\* An unrecoverable OFFLINE session is failed and replaced in one transaction.
SupersedeSession(old, s) ==
    /\ status[old] = "OFFLINE" /\ status[s] = "NONE"
    /\ ConnectorOf[old] = ConnectorOf[s]
    /\ status' = [status EXCEPT ![old] = "FAILED", ![s] = "ACTIVE"]
    /\ Observe("start", s)
    /\ UNCHANGED <<state, connector, session, stage, outcome, pending, timers,
                   tasks, link, wire, before, faults>>

StopTransaction(s) ==
    /\ status[s] \in LiveSession
    /\ status' = [status EXCEPT ![s] = "COMPLETED"]
    /\ Observe("stop", s)
    /\ UNCHANGED <<state, connector, session, stage, outcome, pending, timers,
                   tasks, link, wire, before, faults>>

\* The connectivity coordinator takes a session OFFLINE and back.
SessionConnectivity(s) ==
    /\ status[s] \in LiveSession
    /\ status' = [status EXCEPT ![s] = IF @ = "ACTIVE" THEN "OFFLINE" ELSE "ACTIVE"]
    /\ UNCHANGED <<state, connector, session, memory, wire, before, faults>>

\* register, a socket dying unnoticed, unregister.
LinkChanges(st) ==
    /\ \E l \in LinkState :
          /\ <<link[st], l>> # <<"none", "dead">>
          /\ link' = [link EXCEPT ![st] = l]
    /\ UNCHANGED <<database, stage, outcome, pending, timers, tasks, observed,
                   wire, before, faults>>

-----------------------------------------------------------------------------
(* Faults.                                                                 *)

FaultHappens(f) ==
    /\ f \in Faults
    /\ faults < MaxFaults
    /\ faults' = faults + 1

\* The process restarts: the database is what is left.
Restart ==
    /\ FaultHappens("restart")
    /\ stage' = [c \in Commands |-> IF stage[c] = "idle" THEN "idle" ELSE "done"]
    /\ pending' = {} /\ timers' = {} /\ tasks' = {} /\ observed' = {}
    /\ link' = [st \in Stations |-> "none"]
    /\ UNCHANGED <<database, outcome, wire, before>>

\* The database call a coroutine is waiting for rejects.  A request throws to
\* its caller; a confirmation coroutine logs and ends; an observer's
\* handler answers the charger with an error.  The audit records after "created" and
\* "accepted" are no such calls: AuditService.record only logs that it failed.
DatabaseError ==
    /\ FaultHappens("database")
    /\ \/ \E c \in Commands :
             /\ stage[c] \in {"checked", "clear", "answered", "sent"}
             /\ Move(c, "done")
             /\ UNCHANGED <<tasks, observed>>
       \/ \E t \in tasks : tasks' = tasks \ {t} /\ UNCHANGED <<stage, observed>>
       \/ \E o \in observed : observed' = observed \ {o} /\ UNCHANGED <<stage, tasks>>
    /\ UNCHANGED <<database, outcome, pending, timers, link, wire, before>>

-----------------------------------------------------------------------------

RequestStep(c) ==
    \/ AssertNoConflictingCommand(c) \/ CreateCommand(c)
    \/ RejectBeforeSend(c) \/ SendCall(c)
    \/ PersistSent(c) \/ PersistOutcome(c) \/ RegisterAccepted(c)

TaskStep(t) ==
    \/ CheckImmediately(t) \/ ReadCommand(t)
    \/ ConfirmCommand(t) \/ MarkUnconfirmed(t)

\* What the process does by itself once it has been asked to: coroutines
\* resume, timers fire.
ServerStep ==
    \/ \E c \in Commands : RequestStep(c) \/ PendingTimeout(c) \/ ExpiryFires(c)
    \/ \E t \in tasks : TaskStep(t)
    \/ \E o \in observed : OnTransactionObserved(o)

EnvironmentStep ==
    \/ \E c \in Commands : RequestStart(c)
    \/ \E c \in Commands, s \in Sessions : RequestStop(c, s)
    \/ \E c \in Commands, v \in Verdict : ChargerAnswers(c, v)
    \/ \E r \in replies : ReceiveReply(r)
    \/ \E s \in Sessions : \/ StartTransaction(s) \/ RepeatedStartTransaction(s)
                           \/ StopTransaction(s) \/ SessionConnectivity(s)
    \/ \E old, s \in Sessions : SupersedeSession(old, s)
    \/ \E st \in Stations : LinkChanges(st)

Next == ServerStep \/ EnvironmentStep \/ Restart \/ DatabaseError

Spec == Init /\ [][Next]_vars

\* The event loop runs what is ready and timers fire; operators, chargers
\* and sockets promise nothing.
Fairness ==
    /\ \A c \in Commands :
          WF_vars(RequestStep(c)) /\ WF_vars(PendingTimeout(c)) /\ WF_vars(ExpiryFires(c))
    /\ \A t \in Task : WF_vars(TaskStep(t))
    /\ \A o \in Observation : WF_vars(OnTransactionObserved(o))

FairSpec == Spec /\ Fairness
-----------------------------------------------------------------------------
(* Properties.                                                             *)

\* The partial unique index RemoteCommand_one_active_per_connector and the
\* check before it: two operators who pass the check together never leave
\* two commands in progress on one connector, and no later write of any
\* coroutine puts a second one back in progress.
OneActivePerConnector ==
    \A c, d \in Commands :
        /\ state[c] \in NonTerminal
        /\ state[d] \in NonTerminal
        /\ connector[c] = connector[d]
        => c = d

\* A row says what the charger said: only an Accepted answer leads to
\* ACCEPTED and beyond, a refusal after SENT needs a refusing answer, and a
\* command is TIMED_OUT only if the timer won the race against the answer,
\* however late or repeated answers arrive.
OutcomeIsTheChargers ==
    \A c \in Commands :
        /\ state[c] \in {"ACCEPTED", "CONFIRMED", "UNCONFIRMED"}
              => outcome[c] = "Accepted"
        /\ state[c] = "TIMED_OUT" => outcome[c] = "Timeout"
        /\ state[c] = "REJECTED" => outcome[c] \in {"none", "Rejected", "CallError"}

\* PendingCallRegistryService: whoever settles the promise first removes the
\* entry, so a promise is settled at most once and never changes its mind.
SettledOnce ==
    [][\A c \in Commands : outcome[c] # "none" => outcome'[c] = outcome[c]]_vars

\* CONFIRMED is never inferred from ACCEPTED alone: a RemoteStart is linked to
\* a session of its connector that did start, a RemoteStop's session is
\* COMPLETED.
ConfirmedHasEvidence ==
    \A c \in Commands : state[c] = "CONFIRMED" =>
        /\ session[c] \in Sessions
        /\ ConnectorOf[session[c]] = connector[c]
        /\ IF c \in Starts THEN status[session[c]] # "NONE"
                           ELSE status[session[c]] = "COMPLETED"

\* The natural-completion race (checkImmediately): once an ACCEPTED RemoteStop
\* is registered and its session is COMPLETED, somebody is on the way to
\* confirm it, whichever of the two message flows came first; the timer alone
\* never decides.
StopConfirmationNotLost ==
    \A c \in Stops :
        /\ state[c] = "ACCEPTED" /\ stage[c] = "done" /\ faults = 0
        /\ status[session[c]] = "COMPLETED"
        => \/ [kind |-> "stop", session |-> session[c]] \in observed
           \/ \E t \in tasks : t.cmd = c /\ t.kind \in {"check", "confirm"}

\* Statuses a command can have once ACCEPTED was written.
WasAccepted == {"ACCEPTED", "CONFIRMED", "UNCONFIRMED"}

\* A request that resumes after an await finds its row as it left it.
RequestKnowsItsRow ==
    \A c \in Commands :
        /\ stage[c] \in {"idle", "checked", "clear"} => state[c] = "NONE"
        /\ stage[c] \in {"created", "awaiting", "answered"} => state[c] = "REQUESTED"
        /\ stage[c] = "sent" => state[c] = "SENT"
        /\ stage[c] = "accepted" => state[c] \in WasAccepted

RequestKnowsItsOutcome ==
    \A c \in Commands :
        /\ stage[c] \in {"idle", "checked", "clear", "created", "awaiting"}
              => outcome[c] = "none"
        /\ stage[c] \in {"answered", "sent"} => outcome[c] # "none"
        /\ stage[c] = "accepted" => outcome[c] = "Accepted"

WatchedWasAccepted ==
    /\ \A c \in timers : state[c] \in WasAccepted
    /\ \A t \in tasks : state[t.cmd] \in WasAccepted

\* No coroutine writes over a state it does not know of, the confirm/expire
\* race aside: until the controller hands a command over, nobody but its own
\* request moves the row off the state the request last wrote; a timer, check,
\* confirm or expire only ever runs for a row that was ACCEPTED.
RowsAsKnown ==
    RequestKnowsItsRow /\ RequestKnowsItsOutcome /\ WatchedWasAccepted

\* "Pending calls must not live forever": a request waits for an answer exactly
\* as long as the registry holds its entry, across answers, timeouts and
\* restarts.
AwaitingIsPending ==
    \A c \in Commands : stage[c] = "awaiting" <=> c \in pending

\* A registered ACCEPTED command always has an expiry timer or a coroutine
\* that will resolve it, although confirm clears the timer before it reads
\* the row.
AcceptedIsWatched ==
    \A c \in Commands :
        state[c] = "ACCEPTED" /\ stage[c] = "done" /\ faults = 0
        => c \in timers \/ \E t \in tasks : t.cmd = c /\ t.kind # "check"

\* Terminal states are final up to the confirm/expire race: a resolved
\* command is never in progress again, a REJECTED or TIMED_OUT one never
\* changes.
NeverReopened ==
    [][\A c \in Commands :
         /\ state[c] \in Terminal => state'[c] \in Terminal
         /\ state[c] \in {"REJECTED", "TIMED_OUT"} => state'[c] = state[c]]_vars

\* WO-058: a command "must eventually resolve honestly" -- every row reaches a
\* terminal state.
Resolved ==
    \A c \in Commands : state[c] \in NonTerminal ~> state[c] \in Terminal

\* The control plane implements a lock per connector, held by the request
\* whose command is in progress.
Holder == [k \in Connectors |-> ActiveOn(k)]
Lock == INSTANCE ConnectorLock WITH Owners <- Commands, Locks <- Connectors,
                                    holders <- Holder
ImplementsConnectorLock == Lock!Spec

-----------------------------------------------------------------------------
(* What the comments and documents of the code say and the code does not   *)
(* do.                                                                     *)

\* "an invalid transition fails loudly rather than silently overwriting
\* command state" (remote-command-state-machine.ts): every change of a row
\* is an allowed transition.
OnlyAllowedTransitions ==
    [][\A c \in Commands :
         \/ state'[c] = state[c]
         \/ AllowedTransition(state[c], state'[c])
         \/ state[c] = "NONE" /\ state'[c] = "REQUESTED"]_vars

\* "any session appearing afterward is provably the confirming one" (CAP-006):
\* the session that confirms a RemoteStart did not exist when the command was
\* requested.
ConfirmedByNewSession ==
    \A c \in Starts : state[c] = "CONFIRMED" => session[c] \notin before[c]

\* "whichever comes first" of the observed StartTransaction and the window:
\* a session that started on the connector after the request, and whose start
\* has been observed, is on the way to confirm the command.
StartConfirmationNotLost ==
    \A c \in Starts, s \in Sessions :
        /\ state[c] = "ACCEPTED" /\ stage[c] = "done" /\ faults = 0
        /\ ConnectorOf[s] = connector[c] /\ s \notin before[c] /\ status[s] # "NONE"
        => \/ [kind |-> "start", session |-> s] \in observed
           \/ \E t \in tasks : t.cmd = c /\ t.kind \in {"check", "confirm"}
=============================================================================
