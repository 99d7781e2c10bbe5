# Verification of movos-api

TLA+ models of MOVOS: of its back end (`apps/movos-api`), what happens between a
charging station, the server's memory and the database when sockets come and go,
messages overlap, operators act, timers fire and the process restarts; of its web
application (`apps/movos-web`), how a browser stays signed in and what the cards of a
page may ask for; of the station simulator, what a station believes it was told.

- [The system](#the-system) — inventory of components
- [Modules](#modules) — how state and actions correspond to the code
- [Runs](#runs) — what TLC checks, bounds, fairness
- [Where the code departs from its text](#where-the-code-departs-from-its-text)
- [Proofs](#proofs)
- [Not modelled](#not-modelled), [Plan](#plan)

To check: `tlc -config X.cfg MC<Module>.tla` with the module a configuration is
named after (`RemoteCommands_control.cfg` goes with `MCRemoteCommands.tla`), and
`tlapm <Module>_proofs.tla`.

## The system

The repository is a monorepo. `movos-api` is a NestJS server over PostgreSQL
(Prisma) that speaks OCPP 1.6J with charging stations over WebSocket and REST with
operators. `movos-web` is its user interface, and `simulator/` a station. The other
applications are a naming tool, its pages, and developer tooling.

One Node.js process serves everything. A handler runs without interruption from
one `await` to the next, and any number of handlers are suspended at an `await` at
the same time. Rows survive a restart; the maps and timers of the process do not.
Nearly every write is `update({ where: { id } })` after a check of a row read
earlier: the write does not look at the row again. The exceptions are the
SERIALIZABLE transaction of `createSession`, the transaction that accepts an
invitation, and unique indexes. Most of what is hard in this code follows.

| Component | State | Operations | Talks to | Hard part | Correct when |
|---|---|---|---|---|---|
| Remote commands (`ocpp/remote-commands/remote-command.service.ts`, `-state-machine.ts`, controller) | `RemoteCommand` rows | `requestCommand`, `confirmCommand`, `markUnconfirmed` | registry (send), pending calls (await), database | five awaits between the check and the end of a request | one command in progress per connector; the row says what the charger said; every command is resolved |
| Pending calls (`ocpp/outbound`) | map message id → entry with a timer | `register`, `resolve`, timeout | router, remote commands | answer against timeout, repeated answers | one settlement per promise |
| Confirmation (`remote-command-confirmation.service.ts`) | map command → expiry timer | `registerAccepted`, observers, `confirm`, `expire` | remote commands, transaction handlers | event against timer; event before ACCEPTED | CONFIRMED has evidence; evidence is not lost |
| Session lifecycle (`sessions/session-lifecycle.service.ts`) | `ChargingSession` rows | create, suspend, resume, stop, update energy | handlers, coordinator | stale read-then-write | one live session per connector; a finished session stays finished |
| Meter values (`sessions/meter-values.service.ts`) | `energyWh`, `MeterValue` rows | `record` | lifecycle | overlapping samples | final energy is the difference of the two readings |
| Transaction handlers (`ocpp/handlers/transaction-*.ts`) | – | StartTransaction, MeterValues, StopTransaction | lifecycle, meter values, confirmation | duplicates, overlap | idempotent |
| Connectivity coordinator (`ocpp/connectivity`) | `ChargingStation.connectivityStatus` | established, closed, startup | registry (events), lifecycle | handlers of a close and of the next connection overlap | status agrees with the socket; no session is left behind |
| Connection registry (`ocpp/connection-registry`) | map identity → socket, last message; sweep timer | register, touch, unregister, forceDisconnect, sweep | transport, router, coordinator | late close events, silent peers | the socket in use is the one on file; silence is bounded |
| Transport, router (`ocpp/transport`, `ocpp/routing`) | open sockets | upgrade, message, close | all of the above | order of events | – |
| Exchange (`ocpp/transport`, `ocpp/protocol`, `ocpp/handlers`, `sessions/transaction-id-generator.service.ts`, `simulator`) | frames, handlers, transaction ids, connector statuses; a station's outstanding calls | every call of a station, its answer, its loss; an operator's edit of a connector | lifecycle, connectors | a handler per frame; lost and late answers; a handler that throws; numbers drawn again; two writers of a connector's status | what a station was told stands; the connector shows what was reported, or set by an operator, last |
| Work orders and their automation (`work-orders`) | `WorkOrder` and event rows | transitions, schedule, evidence, two sweeps | coordinator's columns | a person against a sweep; a crash in a sweep | closed orders stay closed; one order per outage, and one for each |
| Actions (`recommendations`) and their cards (`movos-web`) | `Action` rows; cards, forms | create, transitions; poll, click | recommendations | a card is as old as its poll | one unfinished action per station; closed stays closed |
| Memberships, invitations (`memberships`, `guards`) | `Membership`, `MembershipInvitation`, `User` rows | add, update, invite, accept | auth | two requests together; a role read before it is used | an owner remains; privilege comes from an owner; one acceptance |
| Refresh sessions (`auth`) and the browser (`api-client.ts`, `auth-context.tsx`, `middleware.ts`) | `RefreshSession` rows; cookies, page state | login, refresh, logout; poll, reload, redirect | – | refreshes together; lost answers; a marker that outlives its session | nobody is signed out by his own refresh; who is signed out gets to `/login` |
| Station health, operational status, recommendations | none | computations over rows | – | none: each is one function of rows read by one query | – |
| Asset registry, location, credentials, attempts, audit, protocol log | rows | CRUD, appends | – | none, but that `Connector.status` is also written by StatusNotification (see Exchange) | – |

The complete list, with what is left out of each, is in `PROJECT.json`.

## Modules

| Module | Models |
|---|---|
| `ConnectorLock` | abstract: a lock per connector, taken when free, given back by its holder |
| `RemoteCommands` | remote commands, pending calls, confirmation, and the part of the router that correlates answers |
| `SessionLifecycle` | abstract: the transition table, one live session per connector |
| `ChargingSessions` | lifecycle, meter values, transaction handlers, coordinator, of one station |
| `ConnectionRegistry` | the registry, its sweep, and the events it reports, for several stations |
| `Exchange` | one station and the server: calls, answers, handlers, transaction ids, connector statuses |
| `WorkOrderLifecycle` | abstract: the statuses of a work order, who may close it |
| `WorkOrders` | work orders, field evidence, both sweeps, with the coordinator's columns |
| `Memberships` | members and invitations of one organization, with the guards |
| `Actions` | actions of one type of recommendation, and the pages that show its card |
| `BrowserSession` | refresh sessions, the cookies, and the pages of one browser |
| `MC<Module>` | instances for TLC: model values, functions from sessions to connectors, symmetry |
| `<Module>_proofs` | theorems |

Definitions named as mutants in a comment are not part of a specification: they
are plausible bugs of the definition that follows, kept to show that each property
notices one.

### RemoteCommands

A *command* identifier stands for one HTTP request and the row it may create.
`stage[c]` is the `await` at which `requestCommand` (then the controller) is
suspended; `state[c]` is the row, `"NONE"` without one. `pending` is the
pending-call map, `timers` the confirmation timers, `tasks` the coroutines of
`checkImmediately`, `confirm` and `expire`, each with the place it is suspended at,
`observed` the session handlers that are about to call an observer. `link` is what
the registry says of a station, with `"dead"` for a socket that swallows frames.
`calls` and `replies` are the wire: a frame may be lost (never answered), repeated,
or late.

One action is one segment: `CreateCommand` is the insert with its unique index,
`SendCall` the lookup, registration and send, `PersistSent` and `PersistOutcome` the
two writes after the answer, `RegisterAccepted` the controller's continuation. SENT
is written after the answer, as in the code. The connector's own status, the
credential and the role only gate a request and are the choice of taking
`RequestStart`. Sessions are the environment: atomic operations that emit
observations. `SkewedClocks` lets the comparison of a device's `startedAt` with the
server's `requestedAt` come out either way. `before` is a history variable: the
sessions that existed when the row was created.

### ChargingSessions

`job[p]` is a running handler in slot `p`: its kind, where it is suspended, the
session and reading it works on, and the row it has read. Writes use what was
read. `CreateSession` is the transaction, atomic at its commit; SERIALIZABLE may make
it fail instead when another handler runs. Billing-account resolution before it
writes nothing a property is about. PENDING, AUTHORIZED, STARTING and STOPPING are
collapsed, as the code collapses them; nothing outside tests suspends to SUSPENDED
or cancels. A row's `energy`, `start`, `stop` are the register readings the code
stores; `updated` is `updatedAt`. `meter` is the connector's register, which grows
and, if `MeterResets`, falls back to 0. The station status is written by the
coordinator only. A database error in a handler is not modelled here.

`Connect` may come while a socket is open: it replaces it. The close event of the
replaced socket is then unknown to the registry and starts no handler, which is why
`Disconnect` needs an open socket.

### ConnectionRegistry

Every method is synchronous, one action each. A socket is `open`, `dead` (its peer
is gone unnoticed), `closing` or `closed`; close events may come at any time. Time is
the age of a record and the time until the sweep, so behaviours are unbounded and
the state space finite: the sweep bounds the ages. The timer fires on time: jitter is
left out. What the coordinator does with an event is done at once; `ChargingSessions`
takes it apart. A revocation (`forceDisconnect`) is in this module only.

### Exchange

Both ends of the wire. The station's side is `OcppSimulator`: `made` and `outcome` are
the promises of its `call`, settled by an answer, a timeout or the loss of the socket.
`up` and `down` are the frames in flight, in order. Every frame has a handler of its own
(`job[c]`): `Authorize`, `Precheck` to `CreateInserts` (a StartTransaction), `Lookup` to
`WriteEnergy` (MeterValues), `Lookup` to `WriteStop` (a StopTransaction), `Report` and
`WriteStatus` (a StatusNotification). A handler keeps the socket its frame came from, and
answers only there. What a call is answered with depends on the version: the 1.6 adapter
maps results, the 2.0.1 adapter refuses every call. `MapToConnectorStatus` is the
conversion of nine reported statuses to those of a row.

`Connector.status` has a second writer, as the comment of `StatusNotificationHandler` says:
`ConnectorsService.update`, the operator's PATCH (`UpdateConnector`), at any time and
whatever handlers are under way. Its form always sends a status, the one the connector had
when the form was opened, even if another field was edited. `edited` is a history variable:
what an operator has set since a StatusNotification wrote last.

`handleMessage` is started with `void`: a handler that throws ends the process
(`CreateThrows`; `UpdateEnergy` and `StopSession` for a session that is over), which closes
the socket, forgets the handlers and lets the generator start from a number that depends on the time.
`CreateInserts(c, found)` may supersede one session, the one its query found, as
`findFirst` names no order. The reconciliation of a disconnection is `Suspend` of the
sessions in `suspending`: read before, written whatever became of them. `rows` is the
part of a session that answers depend on; `ChargingSessions` has it in full. An OFFLINE
session expires while the socket is closed or, if it was not recovered, on a later one
(`Expire`); a write of its row makes it fresh again (`Refreshed`, `Suspend`).

### WorkOrders

`row` is the table, `told` what the timeline says of an order. A handler is suspended
before its read, its write and its event, which are three statements: `Own` (the
ownership check of `/my-work`), `Read`, `Write`, `LogEvent`. `assign` computes the new
status from the status read (`seen`), the others write theirs. `SweepDown` lists the
stations that are offline for longer than the threshold, then for each looks for an order
of this episode (`FindExisting`) and inserts one (`Report`); `SweepUp` lists the orders of
stations that are back and closes them one by one (`Resolve`). The query of a sweep and
each statement after it are steps of their own, so sockets come and go in between. A
failed statement ends a request or the sweep upwards, and only the current station of
the sweep downwards, as the code's `try` does. `conn`, `up` and `down` are the columns the
coordinator writes; their times and the clock are ticks. `reports` is a history variable.

### Memberships

A person is an email. `Request` is the moment the guards admit a member: its role is
carried in the handler (`as`) to the end, as `req.membership` is. `ReadTarget` and
`CountOwners` are the two reads of an update, `Update` its write of both columns, one of
them as it was read. `ReadFresh` and `Commit` are the transaction that accepts an
invitation: it reads what is committed, and the unique indexes on the email and on the
membership end it when somebody was first. `SignUpElsewhere` is an invitation of another
organization. `grantor` and `joined` are history variables; `overlapped` remembers that an
update began while another was past its read.

### Actions

One type of recommendation, the rows about it, and pages that show its card. What makes
a station the worst of its type is the environment (`Evaluate`). `Find` and `Match` are
the two ways into `createFromRecommendation`, `Create` and `Apply` its writes, `ReadRow`
the start of `transition`. A page shows what its last `Poll` found, offers the buttons
`canAcknowledge` and `canAssign` allow, and sends one request at a time. Two poll answers
may also be applied in the wrong order; a card then is older than its last poll, and a
card may be any age here. RESOLVED and DISMISSED are one status, since nothing tells
them apart. `hot` is the cooldown. `overlapped` remembers that a request about a station
read while another one had read and not written.

### BrowserSession

`realm[t]` is the module state (`accessToken`, `refreshPromise`) and the React state
(`currentUser`, `isLoading`) of the page in a tab; `cookie` and `marker` are what all tabs
share. `req` is each request `execute` runs: sent, waiting for a refresh, sent again.
`call` is `POST /auth/refresh`: `ReadSession`, `RevokeSession` and `IssueSession` are the
statements of `AuthService.refresh`, `Granted` and `Denied` the delivery of the answer with
everything its waiters do in the same turn (resume, `redirectToLogin`, `resetSession`,
the redirects of `AppLayout` and the middleware). A page that is torn down leaves its
calls behind (`AnswerAbandoned`), whose cookie may still arrive. A token is random: a
new one is one that nobody holds. API and web are on different domains, as deployed, so
that the page writes the marker and the API the refresh cookie.

## Runs

Every cfg gives constants their values and replaces no definition. Deadlock is checked
except where the system may rest: `Memberships_overlap` (nobody is left who may ask, or
the bound on requests is reached), `BrowserSession_tab` (a browser at `/login`, the bound on
logins reached), `Actions_cards` and the runs of `Exchange` (the bounds on requests, calls
and connections reached).

| Run | Bounds | Shows |
|---|---|---|
| `RemoteCommands_control` | a start and a stop of one connector, one session, skewed clocks, one restart or failed write | `ImplementsConnectorLock`, `SettledOnce`, `OutcomeIsTheChargers`, `AcceptedIsWatched`, `RowsAsKnown`, `NeverReopened`, `ConfirmedHasEvidence`, `StopConfirmationNotLost` |
| `RemoteCommands_liveness` | one start, two sessions, no faults, fair | `Resolved` |
| `ChargingSessions_sequential` | one slot, two sessions on one connector and one on another, all handlers, meter resets, a restart | `CompletedEnergy`, `StationAgrees`, `NoneStranded`, `ImplementsLifecycle` |
| `ChargingSessions_concurrent` | two slots, three sessions on one connector | `CreatedOnlyOnFreeConnector`, `SupersedesOnlyExpired` |
| `ConnectionRegistry_registry` | two stations, three sockets and one, threshold 5, sweep 1, peers speak at the very threshold, fair | `RecordIsOpenSocket`, `SilenceBounded`, `ConnectedIsOnline`, `LivePeerKept`, `LossIsReported`, `DeadIsDetected` |
| `Exchange_station` | three calls, two handlers at a time, two connectors, two transaction numbers, two connections, one restart, one timeout, one status an operator sets; starts, meter values, stops and notifications of known and unknown connectors | `AnsweredStartStands`, `AnsweredStopStands`, `StatusFollows` |
| `Exchange_penalized` | three calls of any kind, either protocol version, one handler, one connection, no restart, no edits | violates `NotPenalized` |
| `WorkOrders_sweeps` | one slot, two orders of one station, one technician, four ticks, one crash or failed statement, fair | `OneOrderPerOutage`, `RecoveredMeansReconnected`, `TimelineTells`, `ImplementsLifecycle`, `OutageReported` |
| `WorkOrders_reopened` | two slots, no faults | violates `ImplementsLifecycle` |
| `Memberships_overlap` | two slots, three people of whom two are owners, one invitation, four requests | `AnOwnerRemains`, `PrivilegeFromOwner`, `AcceptedOnce` |
| `Actions_cards` | two pages, one station, two rows, four requests | `OneUnfinished`, `ClosedStays`, `RefusedOnlyWhenStale`, `CooldownKept` |
| `BrowserSession_tab` | one tab, one polling widget, two refresh calls, one login, one reload, four tokens, fair | `KeptWhileLive`, `CookieFollows`, `OneSessionPerLogin`, `EndsAtLogin` |

What the properties say, beyond their names:

- `ConfirmedHasEvidence`: a CONFIRMED row has a session event of its connector behind it.
- `StopConfirmationNotLost`: a completion that overtakes the answer of its RemoteStop is
  still found.
- `AcceptedIsWatched`: within one life of the process an ACCEPTED row has a timer or a
  coroutine that will resolve it.
- `RowsAsKnown`: a suspended coroutine's idea of the row is right, the confirm/expire pair
  aside.
- `LossIsReported`: whoever removes a record leaves no ONLINE behind, a revocation aside.
- `AnsweredStartStands`, `AnsweredStopStands`: a station that was given a transaction number
  has a session by it, on its connector; a station whose stop was answered has an ended
  session. Both after any restart, loss, repetition or stale reconciliation.
- `StatusFollows`: once a notification is answered, the connector shows what it reported, or
  what an operator has set after it was written; neither an older report nor an older edit
  comes back. Claimed of a notification that was sent when no other one of that connector was
  under way; the two stronger statements fail, see E1 below.
- `OneOrderPerOutage`, `OutageReported`: at most one order per disconnection, and one in the
  end for every outage past the threshold, whatever statement fails.
- `RecoveredMeansReconnected`: the note "recovered" is on an outage's order only if the
  station came back after the order was made.
- `TimelineTells`: without faults, the last event of an order tells its status.
- `PrivilegeFromOwner`: nobody becomes OWNER or ADMIN but by a decision of an OWNER,
  although the role that decides was read long before the write.
- `AcceptedOnce`: one membership per accepted invitation, none otherwise.
- `RefusedOnlyWhenStale`: a button that a card offers is refused only when the action has
  changed since the card was fetched.
- `CooldownKept`: no new action within the hour, except from a card fetched before.
- `KeptWhileLive`: a refresh of a live session is refused only if that session ended, not
  because another refresh was faster.
- `CookieFollows`: the cookie is never left at a token that was rotated away.
- `EndsAtLogin`: without a session the browser reaches `/login`; marker and middleware do
  not send it in circles.

**Why the bounds are enough.** Two requests are what a race for a connector
needs, two handlers what a race for a row needs; a third session lets an expired one
be replaced while another start is under way, or stand on a second connector that
the same disconnect must reach. One fault shows what a fault does to each suspended
handler, since it may come at every one of their stages. The window is zero or one
tick in a clock of a tick or two, so that a session within and one past it both
occur. Meter readings 0 and 1 tell rising, equal and falling registers apart. In the
registry, three sockets of one station give a replaced socket, its replacement and
the next, and the second station shows that the sweep picks by station; threshold
and sweep have the code's proportion (5 : 1), and the silence of a live peer equals
the threshold, as the 300 s heartbeat interval the server hands out equals
`STALE_THRESHOLD_MS`.

In the exchange, three calls are a start, what is done to its transaction, and its
repetition; two numbers and a restart let a number be drawn again; two connections let
an answer belong to a socket that is gone. A work order's clock of four ticks holds a
disconnection, a sweep, a return and a second disconnection; two orders are the one of
an outage and one of a person, or of two outages. Two owners and a third person are
what it takes to remove the last owner by two requests, and to hand a privilege on; four
requests reach an invitation whose maker has lost his role. Two pages and four requests
reach a closed action, its successor, and a card that still shows the first. A second
refresh call is the one that an abandoned page leaves behind; four tokens are those of a
login, a rotation, a lost one and a new one.

What the runs show for two or three, the theorems show for any number (see
[Proofs](#proofs)).

**Sequential and concurrent.** Some properties hold only when handlers do not overlap, and
are checked so: with one slot (`ChargingSessions_sequential`, `WorkOrders_sweeps`), or under a
history variable that says whether handlers have overlapped (`AnOwnerRemains`,
`OneUnfinished`, `ClosedStays`), or whether an answer was lost (`KeptWhileLive`,
`CookieFollows`, `OneSessionPerLogin`). The next section says what an overlap does to them.
What holds however handlers overlap is checked with two slots. Both kinds are proved; for the
first a condition suffices that is weaker than never overlapping and is named in the theorem.

**Fairness.** `RemoteCommands`: the event loop resumes every coroutine whose
promise is settled, and timers fire; weak fairness of the server's steps, none of
operators, chargers or sockets. With it a command is resolved because every wait for
a charger has a timer. `ConnectionRegistry`: time passes, the interval timer fires,
the WebSocket library completes a close it was asked for (it destroys the socket
after its close timeout), and a live peer sends its heartbeats — without the last, a
peer that never speaks is merely swept. `WorkOrders`: the event loop resumes a handler
that is suspended at a statement; strong fairness of the sweep, since with one slot
requests may occupy it again and again while the interval timer of the code fires
whatever requests do. Nobody has to ask for anything, no socket has to come or go, and
faults need not happen. `BrowserSession`: requests and refreshes are answered, widgets poll,
access tokens expire; nobody has to sign in, sign out or reload, and sessions need not
expire.

## Where the code departs from its text

Each violation run checks one statement quoted from a comment or a document.

| Run | Property | Statement | What happens |
|---|---|---|---|
| `WorkOrders_reopened` | `ImplementsLifecycle` | a closed order is not moved (the transition table) | `assign` writes the status it computed from an older read over RESOLVED or CANCELLED |
| `Exchange_penalized` | `NotPenalized` | "the connection itself must not be penalized for a device reporting on a transaction MOVOS doesn't (or no longer) recognizes" | MeterValues of a session that had ended before they arrived, with a reading above its final energy, throw (`TransactionUpdateHandler` looks at no status); nobody handles the rejection, and the process ends with every station's connection |

The properties of the next table are in the modules and in no run. Each fails in an
existing configuration that is changed as the first column says; its INVARIANTS and
PROPERTIES give way to the property named, and deadlock is not checked. *(I)* is an
INVARIANT, *(P)* a PROPERTY.

| Configuration | Property | Statement | What happens |
|---|---|---|---|
| R1 | `OnlyAllowedTransitions` (P) | "fails loudly rather than silently overwriting" | confirm and expire both read ACCEPTED, both write |
| R1 | `ConfirmedByNewSession` (I) | "any session appearing afterward is provably the confirming one" | a session that started between the precondition and the insert confirms |
| R1 | `StartConfirmationNotLost` (I) | "whichever comes first" | a start observed before ACCEPTED, then OFFLINE: nothing confirms it |
| R2 | `Resolved` (P) | "must eventually resolve honestly" | after a restart, or a failed write, the row stays in progress and blocks its connector |
| C1 | `OneLivePerConnector` (I) | "at most one session in one of these at a time" | a stale write revives a session beside a new one |
| C1 | `TerminalIsFinal` (P) | "a session cannot finish twice" | a stale write revives a completed session |
| C2 | `EnergyForward` (P) | "only ever moves forward" | the register reading is replaced by a difference of readings |
| C2 | `NoNegativeDelivery` (I) | "session transitions to FAILED" | it is COMPLETED with 0 |
| C2 | `WindowNeverExtended` (P) | "nothing can touch this row's `updatedAt` again" | MeterValues on the new socket do |
| C3 | `CompletedEnergy` (I) | "never trusting a device-reported energyWh directly" | a sample lands on the final energy |
| C3 | `EnergyForward` (P) | "only ever moves forward" | of two overlapping samples the older is written last |
| C4 | `NoneStranded` (I) | not "stuck forever, invisible to reconnect recovery" | a start or recovery commits after the list was read |
| C4 | `StationAgrees` (I) | "not currently connected", full stop | OFFLINE is written after ONLINE on an open socket |
| C4 | `ReconcileNeverThrows` (I) | "never a re-transition or a thrown error" | two disconnects overlap |
| G1 | `StatusCatchesUp` (P) | "can lag the registry by up to one sweep interval" | after a revocation it lags for ever |
| E1 | `ReportStands` (I) | the durable "current believed state" | an operator saves a connector's form, which sends the status it was opened with over the one reported since |
| E1 | `NewestReportStands` (I) | the same | two notifications of one connector are sent together, and the handler of the older writes last |
| W1 | `OneOrderPerOutage` (I) | "exactly one" order per outage | two sweeps overlap: the interval does not wait for the sweep before |
| W1 | `Closable` (I) | "an operator should not have to manually close an outage WorkOrder MOVOS already knows ended" | the station comes back after the sweep has listed it and before it inserts the order |
| W1 | `TimelineTells` (I) | the timeline is the history of an order | two writes, then their two events in the other order |
| W2 | `EvidenceOnlyWhileOpen` (I) | "No se puede registrar evidencia en una orden de trabajo cerrada." | the order is closed between the check and the insert |
| M1 | `OwnerAlways` (I) | "la organización debe conservar al menos un OWNER activo" | two owners demote each other, each counting the other |
| M1 | `OnePending` (I) | "Ya existe una invitación pendiente" | two invitations of one person overlap |
| B1 | `KeptWhileLive` (I) | "every other one would fail even though the session itself was perfectly valid" | two tabs share the cookie, not the promise: the slower refresh is refused and signs its tab out |
| B2 | `LogoutEndsSession` (I) | "Revoke the current session" | a refresh that has read the session issues the next one after the logout |
| A1 | `NotesWhereMeant` (P) | a card is about one station | cards are keyed by type: an open form survives the turn of its card to another station |

| Name | Configuration, and what is changed |
|---|---|
| R1 | `RemoteCommands_control`: `Stops = {}`, `SkewedClocks = FALSE`, `Faults = {}`, `MaxFaults = 0` |
| R2 | `RemoteCommands_liveness`: `Sessions = {s1}`, `Faults = {"restart", "database"}`, `MaxFaults = 1` |
| C1 | `ChargingSessions_concurrent`: `Sessions = {s1, s2}`, `MaxClock = 1`, `Window = 0` |
| C2 | C1 with `Sessions = {s1}`, `Slots = {p1}`, "meter" among `Triggers`, `MaxMeter = 2`, `MeterResets = TRUE` |
| C3 | C1 with `Sessions = {s1}`, `Triggers = {"start", "meter", "stop", "connect"}`, `MaxMeter = 2`, `MaxClock = 0` |
| C4 | C1 with `Sessions = {s1}`, `Triggers = {"start", "connect", "close"}`, `MaxClock = 0` |
| G1 | `ConnectionRegistry_registry`: `Stations = {st1}`, `Sockets = {w1}`, `StaleThreshold = 3`, `MaxSilence = 3` |
| E1 | `Exchange_station` as it is |
| W1 | `WorkOrders_reopened` as it is |
| W2 | `WorkOrders_reopened`: `Triggers = {"create", "assign", "cancel", "checklist"}` |
| M1 | `Memberships_overlap`: `Invitations = {i1, i2}`, `MaxRequests = 2` |
| B1 | `BrowserSession_tab`: `Tabs = {t1, t2}` |
| B2 | `BrowserSession_tab` as it is |
| A1 | `Actions_cards`: `Stations = {st1, st2}`, `Pages = {p1}`, `MaxSent = 3` |

What else the models show and no property states:

- A handler throws not only for late MeterValues: two StopTransactions of one session that
  overlap, a serialization conflict of `createSession`, and a transaction number that an
  earlier process has used already (the unique index) end the process as well.
  "A retransmitted StopTransaction for an already-COMPLETED session is a no-op" holds for
  one that comes after the first has ended.
- An Action that is inserted stays OPEN when the transition after it fails, although "no
  persisted Action is ever created while still OPEN". Two requests that overlap create two
  Actions "for the same live problem", and one that overlaps a closing reopens it.
- A crash, or a failed statement, between an order and its event leaves a change without
  history; that is why `TimelineTells` is about behaviours without faults.
- A reconnection looks for one OFFLINE session of the station, although a station with two
  connectors may have two: the second is resumed by nothing but a later disconnection and
  reconnection, or superseded.

## Proofs

TLAPS checks the theorems for all values of the constants that satisfy the named
assumption of each module (`ConstantsAssumption`, `SeedAssumption` of `Memberships`,
`ActionsAssumption`, `ExchangeAssumption`, `BrowserAssumption`): any number of stations,
sessions, rows, handlers, requests, pages and faults, and any bounds. Theorems that need
more say so in their statement, `Spec /\ []Cond => []P`, where `Cond` says of the behaviour
which overlaps it is free of: orders or sessions two handlers hold at once (`Apart`,
`EnergyApart`, `LinksApart`, `CloseAlone`, `OneSweep`, `Disjoint`), pages that refresh the
same session at once. The runs' one slot and one tab satisfy them all (`OneHandler`,
`OnePageApart`).
All safety properties that the passing runs check are proved.

**RemoteCommands_proofs.** One inductive invariant, `IInv`, carries all theorems:
types, `OneActivePerConnector`, `AwaitingIsPending`, `OutcomeIsTheChargers` and
`RowsAsKnown`. The last is what makes it inductive: a write by a request is harmless
only because the row still has the state the request knows (`RequestKnowsItsRow`),
the outcome it stores is the one it was given (`RequestKnowsItsOutcome`), and a timer
or a confirmation coroutine only exists for a row that was ACCEPTED
(`WatchedWasAccepted`). Steps are grouped: those of a request (`RequestInv`), of
confirmation coroutines (`TaskInv`), of the rest (`OtherInv`), faults (`FaultInv`); `Frame`
holds what is common to a step that leaves the commands' variables alone. From `IInv`:
`OneActive`, `NoOrphanedWait`, `HonestOutcome`, `NoStaleWrite`; from one step under `IInv`:
`TerminalIsLeftAlone`, `PromiseSettledOnce`, and `RefinesLock`: every step is a step of the
abstract lock or leaves it unchanged.

Two more invariants stand on it. `EInv`, of evidence: a coroutine that confirms is about a
row it was meant for, and the session event it goes by has happened; evidence is never
taken back (`Steady`), so a CONFIRMED row keeps it (`EvidenceCorrect`). `WInv`, of timers:
`registerAccepted` starts one before the request is done, and every coroutine that takes
a timer away is one that resolves the row (`WatchCorrect`).
`StopRaceCorrect` needs both and that a session has one stop in progress
(`OneStopOfASession`), which follows from `OneActivePerConnector`.
`InProgressIsDriven` is what `Resolved` rests on besides fairness: while there was no fault,
a row in progress that is not yet ACCEPTED has its own request at work (`NoneLeftStep`), and
an ACCEPTED one a timer or a coroutine (`AcceptedIsWatched`). R2 shows that a fault ends that.

**ConnectionRegistry_proofs.** `RecordCorrect` needs only types. `StaleInTime` needs the
link between ages and the timer: an age is at most the threshold plus the time since
the last sweep. `ConnectedCorrect` is its own invariant beside `RecordIsOpenSocket`: a
late close event finds another socket, or none, on file and reports nothing.
`LossCorrect` needs types.
`LivePeerNeverSwept` assumes `MaxSilence <= StaleThreshold`, and fails for `>=` in the
code's comparison.

**ChargingSessions_proofs.** `TypeCorrect` needs an invariant of what a handler knows at
each place it is suspended (`GoodJob`): a handler past its lookup holds a session.
`CreationTakesFreeConnector` and `SupersedesExpired` also need `ExistInv`: every session a
handler holds has a row. So no handler's stale write makes a row appear (`RowsStay`), and
a row that appears is the one an insert put there (`CreationStep`), decided on what the
transaction sees at that moment. Both hold for any number of slots.

Four more theorems are for any number of slots too, each under the one overlap that its
property does not survive (C1, C3, C4 above are that overlap), stated as `[]A` beside `Spec`.
`ApartImplementsLifecycle`: a transition that was checked on an older read is still allowed
at the write (`DecidedInv`) if no two handlers were about to write that session's status
(`Apart`); samples and starts may overlap with anything. `EnergyOfReadings`: only a sample and
the stop of one session, about to write together, can spoil the energy (`EnergyApart`); two
stops of one session cannot, because `meterStart` of a row never changes (`StartStays`).
`LinkAgrees`: the station follows its socket if no disconnect overlaps with another connection
event (`LinksApart`); frames and reconnections may. `CloseStrandsNone` and `CloseNeverThrows`:
what a disconnect has still to suspend is exactly what is ACTIVE (`Lists`), if only samples run
beside it (`CloseAlone`). With one slot all four assumptions hold by themselves
(`OneHandler`), so the run `sequential` is an instance of each.

**WorkOrders_proofs.** `RecoveredCorrect` is inductive with types and with what a sweep upwards
still has on its list: each such order reports an outage and its station has come back
since, and `lastConnectedAt` never falls (clock values only grow). `NeverBackToOpen` holds for
any number of slots: whatever an older read computed, it is never OPEN again.
The other three are for any number of slots under the overlap they do not survive.
`ApartImplementsLifecycle`: the order that a suspended handler is about to write, or that a
sweep upwards has still on its list, has the status that was read, if no two of them hold the
same order (`Apart`); notes, schedules and evidence may overlap with anything, and so may
handlers of different orders. `SweepReportsOnce` goes by what a sweep for outages has listed:
no later than the outage under way (`Listed`), so that an order the sweep does not find is not
there, and a station that returns and is lost again while the sweep runs starts a count of its
own; it needs that no other such sweep runs beside it (`OneSweep`).
`DisjointTimelineTells`: the timeline lacks at most the one event that the handler owes which
has the order in hand (`Accounted`), if none has it in hand with another (`Disjoint`, from
the read to the entry). They hold over any crashes and failed statements they speak of.
`ListedIsReported` needs no such condition: a sweep knows that the order it has just inserted
is no older than what it listed (`SweepKnows`), so that it crosses a station off only when an
order covers the outage, even with two sweeps at once.

**Memberships_proofs.** `PrivilegeCorrect` is about members, pending invitations and suspended
handlers at once: whoever is about to make somebody privileged was admitted as an OWNER
(`as`), whatever has become of his role, and a pending invitation to a privileged role was
made by one. The difficult case is an update of the status alone, which writes a role it
read before: that role was the member's, so its grantor stands, and a handler that an
ADMIN started has not read a privileged one. `InvitationUsedOnce` counts: `joined` is 0 until the
commit that sets the state, and a membership, once there, refuses the next commit.
`FinalOwnerCorrect` (`Guarded`): while no two updates have overlapped, at most one is past its
reads, and the row it is about to write leaves an OWNER, because those it counted are
still there: whoever is added or accepted meanwhile takes nothing away.

**Actions_proofs.** Invariant: types, `Within` (row numbers that pages and requests hold exist
and are about their station), `Allowed` (a request that is about to write read a status
its transition is valid for), `Alone` (without an overlap, what a request about to write has
read is still so), `Aware` (a page or request that is `fresh` knows of a cooldown under way).
`UnfinishedCorrect` and `ClosedCorrect` follow from `Alone`, `CooldownCorrect` from `Aware`,
`RefusedCorrect` from `Allowed` and what a card offers.

**Exchange_proofs.** Invariant: types, `Sent` (frames and handlers belong to calls that were
made), `Asked`, `StageInv` (what a handler past each stage has established: the row it will
answer with exists on the connector asked for; the row it stops is ended), `Ended` (an
ended row stays ended and on its connector) and `Answers` (the same for answers in flight and
outcomes). It holds for any number of calls, handlers, connections and restarts;
numbers that are drawn again are harmless because an insert needs an unused one
(`AnsweredStartCorrect`, `AnsweredStopCorrect`). `StatusCorrect` follows the latest
notification of a connector (`FollowsBy`): it is the only one under way, and as soon as a
result for it exists anywhere (in its handler, in a frame, at the station) the row has its
status, or what an operator has set since (`LastWritten`): the write clears `edited`, an edit
sets it (`UpdateConnectorFollows`). Every step but those two is `Discreet`: no result appears, no
handler starts.

**BrowserSession_proofs.** For any number of pages, whatever is lost or abandoned, a page, its
promise and the refresh that runs for it are tied together (`AllTied`): a page has one at a
time (`OneRefreshPerPage`), and whoever waits is waiting for that one, which is under way and
answers to this page (`WaitsForOwnRefresh`). As long as no answer may have been lost, no
refresh is abandoned either (`Page`). What becomes of the tokens needs that no two refreshes
present the same live session before it is revoked (`Apart`), since B1 shows what two pages
that do so lead to. Then what was presented, granted or brought by a login is live or over and
belongs to nobody else (`Presented`, `NewKnown`, `LoginKnown`), and whoever replaced the
cookie's session is on its way with the new one (`Followed`): the condition is used at one
step, the unconditional revocation. `ApartKept` and `ApartFollows` are read off that,
`ApartSessions` from `Bounded`, which counts the live sessions with those that refreshes and
logins are about to write. One page always satisfies the condition (`OnePageApart`).

**Only model-checked.** Liveness (`Resolved`, `DeadIsDetected`, `OutageReported`, `EndsAtLogin`):
fairness and `ENABLED` are beyond the prover. What they rest on besides is proved: somebody is
in charge of every command in progress (`InProgressIsDriven`), no record outlives the
threshold and a sweep (`StaleInTime`), a sweep passes no outage over (`ListedIsReported`), no
request waits for a refresh that is not under way (`WaitsForOwnRefresh`). That a property
fails when handlers overlap is shown by the configurations above, not by a theorem. Type
invariants are proved (`TypeCorrect` of each module) and therefore in no run.

## Not modelled

- Parsing, formatting, tenant checks, hashing, mails, logs and audit records: no
  property depends on them. Roles are modelled where they decide (`Memberships`).
- Several server processes: the code states the single-instance constraint.
- Database errors in session handlers; timer jitter; revocations in
  `ChargingSessions`. In `Exchange`, the wrap of the transaction number at 2^31; frames
  that are no OCPP at all, which leave every variable as it is; the transaction number 0
  that the simulator remembers of a refused start.
- In `Exchange`, edits of a connector's `externalId`, and two connectors of a station with the
  same one: the schema makes it unique per EVSE only, `findFirst` would pick either, and the
  status of the other would never be reported.
- What a throwing handler does in `ChargingSessions` besides ending itself: that the process
  ends is in `Exchange`, and `Restart` of `ChargingSessions` may come at any moment.
- In `RemoteCommands`, failures of audit records: `AuditService.record` catches and logs them.
- In `BrowserSession`, network errors and 5xx of `/auth/me` and `/auth/logout`, after which the
  page is signed out as after a 401; and a cookie that a browser keeps after a logout because
  `clearRefreshCookies` names no `SameSite` and `Secure`: the logout has revoked its session.
- `PendingCallRegistryService.cancelAll`, `cancelSession`, `failSession`,
  `activateSession`: nothing outside tests calls them.
- Station health, EVSE operational status and the five recommendations: each is a function
  of rows that one query reads, with no state between two calls; what is stale in them is
  the page's, and `Actions` has that for the recommendations.
- Asset CRUD other than the update of a connector's status, location, credentials, audit and
  protocol log: single statements, or appends that nothing reads to decide.
- The pages of `movos-web` beyond sessions and action cards: about half of the repository's
  lines are layout. The buttons of the work-order pages follow the transition table that
  `WorkOrders` has on the server, which accepts any request at any time.
- Naming engine, its pages, Forge CLI, shared types: unrelated to the operation of chargers.

## Plan

Written: all modules above, each with its runs and its theorems. What may follow:

1. `Connectivity`: the registry and the coordinator composed, so that events start
   handlers instead of being done at once.
2. The operator's views: operational status and station health as operators, against a
   reference definition; the three polled sources of the attention list, which may be of
   different ages.
3. A database error in a session handler, as `RemoteCommands` and `WorkOrders` have it.
