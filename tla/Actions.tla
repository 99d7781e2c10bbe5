------------------------------- MODULE Actions -------------------------------
(***************************************************************************)
(* What operators do about one type of recommendation: ActionService, and  *)
(* the cards of the operator's page that call it.                          *)
(*                                                                         *)
(* RecommendationService.getAll reports at most the worst station of the   *)
(* type; what makes a station the worst is left to the environment.  A     *)
(* page shows a copy of the recommendation with its relevant Action, as    *)
(* its last poll found them, and sends one request at a time.  A handler   *)
(* is taken apart at its awaits.                                           *)
(***************************************************************************)
EXTENDS Naturals, Sequences

CONSTANTS
    Stations,
    Pages,     \* pages of movos-web that operators have open
    MaxRows,   \* bound: Action rows
    MaxSent,   \* bound: requests of the pages
    None

ASSUME ActionsAssumption == MaxRows \in Nat /\ MaxSent \in Nat /\ None \notin Stations

\* "close" is to resolve or to dismiss, and CLOSED is RESOLVED or DISMISSED: both
\* want notes, both set resolvedAt, and nothing tells them apart.
Statuses    == {"OPEN", "ACKNOWLEDGED", "ASSIGNED", "CLOSED"}
Transitions == {"acknowledge", "assign", "snooze", "close"}

\* An Action; hot: it was closed less than COOLDOWN_MS ago.
Row == [station : Stations, status : Statuses, hot : BOOLEAN]

\* A card: the worst station, and its relevant Action (0: action is null).
Card == [station : Stations \union {None}, row : 0..MaxRows, status : Statuses]

\* A request under way: status as the card showed it (shown) and as the handler
\* read it (status); fresh: no Action was closed since the card was fetched.
Job == [at : {"idle", "find", "match", "create", "row", "apply", "conflict"},
        station : Stations \union {None}, row : 0..MaxRows, transition : Transitions,
        shown : Statuses, status : Statuses, fresh : BOOLEAN]

VARIABLES
    rows,       \* the Action table, in the order of createdAt
    worst,      \* the station getAll reports, if any
    card,       \* page -> what it shows
    form,       \* page -> the station its form for notes was opened for (mode)
    job,        \* page -> its request
    sent,       \* requests sent so far (bounded)
    fresh,      \* history: page -> nothing was closed since it last polled
    overlapped  \* history: two requests about a station have overlapped

vars == <<rows, worst, card, form, job, sent, fresh, overlapped>>

Empty == [station |-> None, row |-> 0, status |-> "OPEN"]
Idle  == [at |-> "idle", station |-> None, row |-> 0, transition |-> "snooze",
          shown |-> "OPEN", status |-> "OPEN", fresh |-> TRUE]

TypeOK ==
    /\ rows \in Seq(Row)
    /\ Len(rows) <= MaxRows
    /\ worst \in Stations \union {None}
    /\ card \in [Pages -> Card]
    /\ form \in [Pages -> Stations \union {None}]
    /\ job \in [Pages -> Job]
    /\ sent \in 0..MaxSent
    /\ fresh \in [Pages -> BOOLEAN]
    /\ overlapped \in BOOLEAN

Init ==
    /\ rows = << >>
    /\ worst = None
    /\ card = [p \in Pages |-> Empty]
    /\ form = [p \in Pages |-> None]
    /\ job = [p \in Pages |-> Idle]
    /\ sent = 0
    /\ fresh = [p \in Pages |-> TRUE]
    /\ overlapped = FALSE

-----------------------------------------------------------------------------
(* ActionService.                                                          *)

\* Mutant: a closed Action may be reopened.
ValidReopening(status) ==
    {t \in Transitions : /\ t = "acknowledge" => status \in {"OPEN", "CLOSED"}
                         /\ t = "assign" => status \in {"OPEN", "ACKNOWLEDGED"}}

\* VALID_TRANSITIONS
Valid(status) ==
    {t \in Transitions : /\ status # "CLOSED"
                         /\ t = "acknowledge" => status = "OPEN"
                         /\ t = "assign" => status \in {"OPEN", "ACKNOWLEDGED"}}

\* The status a transition writes over an Action read with this status.
After(transition, status) ==
    IF transition = "close" THEN "CLOSED"
    ELSE IF transition = "assign" THEN "ASSIGNED"
    ELSE IF transition = "acknowledge" \/ status = "OPEN" THEN "ACKNOWLEDGED"
    ELSE status

Unfinished(r) == rows[r].status # "CLOSED"
About(st)     == {r \in 1..Len(rows) : rows[r].station = st}
Latest(st)    == {r \in About(st) : \A q \in About(st) : q <= r}

\* Mutant: a closed Action is forgotten at once.
RelevantOpen(st) == {r \in Latest(st) : Unfinished(r)}

\* findRelevant: the latest Action, unless it is closed and its cooldown over.
Relevant(st) == {r \in Latest(st) : Unfinished(r) \/ rows[r].hot}

\* A handler reads while another one has read and not yet written.
Overlaps(p) ==
    \E q \in Pages \ {p} : /\ job[q].station = job[p].station
                           /\ job[q].at \in {"match", "create", "apply"}

\* Mutant: an assigned Action does not count as existing.
ExistingUnassigned(st) == {r \in Relevant(st) : Unfinished(r) /\ rows[r].status # "ASSIGNED"}

\* existing, when it is not terminal
Existing(st) == {r \in Relevant(st) : Unfinished(r)}

Find(p) ==
    /\ job[p].at = "find"
    /\ \/ \E r \in Existing(job[p].station) :
            job' = [job EXCEPT ![p] = [@ EXCEPT !.at = "row", !.row = r]]
       \/ /\ Existing(job[p].station) = {}
          /\ job' = [job EXCEPT ![p] = [@ EXCEPT !.at = "match"]]
    /\ overlapped' = (overlapped \/ Overlaps(p))
    /\ UNCHANGED <<rows, worst, card, form, sent, fresh>>

\* 404 when the recommendation is no longer live.
Match(p) ==
    /\ job[p].at = "match"
    /\ job' = [job EXCEPT ![p] = IF worst = job[p].station /\ job[p].transition \in Valid("OPEN")
                                 THEN [@ EXCEPT !.at = "create"] ELSE Idle]
    /\ UNCHANGED <<rows, worst, card, form, sent, fresh, overlapped>>

Create(p) ==
    /\ job[p].at = "create" /\ Len(rows) < MaxRows
    /\ rows' = Append(rows, [station |-> job[p].station, status |-> "OPEN", hot |-> FALSE])
    /\ job' = [job EXCEPT ![p] = [@ EXCEPT !.at = "apply", !.row = Len(rows) + 1, !.status = "OPEN"]]
    /\ UNCHANGED <<worst, card, form, sent, fresh, overlapped>>

\* transition: 409 when the status read does not allow it.
ReadRow(p) ==
    /\ job[p].at = "row"
    /\ LET status == rows[job[p].row].status IN
         job' = [job EXCEPT ![p] = [@ EXCEPT !.status = status,
                    !.at = IF job[p].transition \in Valid(status) THEN "apply" ELSE "conflict"]]
    /\ overlapped' = (overlapped \/ Overlaps(p))
    /\ UNCHANGED <<rows, worst, card, form, sent, fresh>>

Written(r, status, hot) == [station |-> rows[r].station, status |-> status, hot |-> hot]

\* applyTransition: an update where id; closing sets resolvedAt, which nothing
\* clears.  The page closes its form.
Apply(p) ==
    LET j == job[p]
        closes == j.transition = "close" IN
    /\ j.at = "apply"
    /\ rows' = [rows EXCEPT ![j.row] = Written(j.row, After(j.transition, j.status), rows[j.row].hot \/ closes)]
    /\ job' = [q \in Pages |-> IF q = p THEN Idle
                               ELSE [job[q] EXCEPT !.fresh = @ /\ ~closes]]
    /\ fresh' = [q \in Pages |-> fresh[q] /\ ~closes]
    /\ form' = [form EXCEPT ![p] = None]
    /\ UNCHANGED <<worst, card, sent, overlapped>>

\* The assignee is no active member, a statement fails, or the process dies;
\* the page keeps its form.  An Action already inserted stays OPEN.
Fail(p) ==
    /\ job[p].at # "idle"
    /\ job' = [job EXCEPT ![p] = Idle]
    /\ UNCHANGED <<rows, worst, card, form, sent, fresh, overlapped>>

-----------------------------------------------------------------------------
(* ActionButtons on a card of the operator's page.                         *)

\* Mutant: the button to acknowledge stays.
OfferedAlways(p) == {"acknowledge", "assign", "snooze"}

\* The transitions a click sends at once (canAcknowledge, canAssign).
Offered(p) ==
    {t \in {"acknowledge", "assign", "snooze"} :
        /\ t = "acknowledge" => card[p].status = "OPEN"
        /\ t = "assign" => card[p].status = "OPEN" \/ card[p].status = "ACKNOWLEDGED"}

Clickable(p) == card[p].station # None /\ job[p].at = "idle" /\ card[p].status # "CLOSED"

Send(p, t) ==
    /\ sent < MaxSent
    /\ sent' = sent + 1
    /\ job' = [job EXCEPT ![p] =
                 [at |-> IF card[p].row = 0 THEN "find" ELSE "row", station |-> card[p].station,
                  row |-> card[p].row, transition |-> t, shown |-> card[p].status,
                  status |-> "OPEN", fresh |-> fresh[p]]]

Click(p, t) ==
    /\ Clickable(p) /\ form[p] = None /\ t \in Offered(p)
    /\ Send(p, t)
    /\ UNCHANGED <<rows, worst, card, form, fresh, overlapped>>

\* setMode: a form for the notes.
OpenForm(p) ==
    /\ Clickable(p) /\ form[p] = None
    /\ form' = [form EXCEPT ![p] = card[p].station]
    /\ UNCHANGED <<rows, worst, card, job, sent, fresh, overlapped>>

Cancel(p) ==
    /\ Clickable(p) /\ form[p] # None
    /\ form' = [form EXCEPT ![p] = None]
    /\ UNCHANGED <<rows, worst, card, job, sent, fresh, overlapped>>

Confirm(p) ==
    /\ Clickable(p) /\ form[p] # None
    /\ Send(p, "close")
    /\ UNCHANGED <<rows, worst, card, form, fresh, overlapped>>

\* The recommendation as the controller enriches it, read anew: every 30
\* seconds and after a transition.  Cards have the type as their key, so a form
\* stays open when the card turns to another station.
Poll(p) ==
    /\ \/ worst = None /\ card' = [card EXCEPT ![p] = Empty]
       \/ /\ worst # None /\ Relevant(worst) = {}
          /\ card' = [card EXCEPT ![p] = [Empty EXCEPT !.station = worst]]
       \/ \E r \in Relevant(worst) :
            card' = [card EXCEPT ![p] = [station |-> worst, row |-> r, status |-> rows[r].status]]
    /\ form' = [form EXCEPT ![p] = IF worst = None THEN None ELSE @]
    /\ fresh' = [fresh EXCEPT ![p] = TRUE]
    /\ UNCHANGED <<rows, worst, job, sent, overlapped>>

\* The data behind the recommendation change.
Evaluate(w) ==
    /\ worst # w
    /\ worst' = w
    /\ UNCHANGED <<rows, card, form, job, sent, fresh, overlapped>>

\* COOLDOWN_MS have passed since resolvedAt.
CoolDown(r) ==
    /\ rows[r].hot
    /\ rows' = [rows EXCEPT ![r] = Written(r, rows[r].status, FALSE)]
    /\ UNCHANGED <<worst, card, form, job, sent, fresh, overlapped>>

Handler(p)  == Find(p) \/ Match(p) \/ Create(p) \/ ReadRow(p) \/ Apply(p) \/ Fail(p)
Operator(p) == Poll(p) \/ OpenForm(p) \/ Cancel(p) \/ Confirm(p)
               \/ \E t \in Transitions : Click(p, t)
World       == (\E w \in Stations \union {None} : Evaluate(w)) \/ (\E r \in 1..Len(rows) : CoolDown(r))

Next == World \/ \E p \in Pages : Handler(p) \/ Operator(p)

Spec == Init /\ [][Next]_vars

-----------------------------------------------------------------------------
(* Properties.                                                             *)

\* "instead of creating a duplicate row for the same live problem": while no two
\* requests about a station have overlapped, it has one unfinished Action at most,
\* whatever happened to the requests before.
OneUnfinished ==
    ~overlapped => \A st \in Stations : \A q, r \in About(st) : Unfinished(q) /\ Unfinished(r) => q = r

\* A terminal state has no transitions: a closed Action keeps its status, unless
\* an overlapping request writes a status it read before.
ClosedStays ==
    [][~overlapped' => \A r \in 1..Len(rows) : ~Unfinished(r) => rows'[r].status = rows[r].status]_vars

\* "this component only offers the buttons the current state actually allows": a
\* request is refused for the state of the Action only when that state has changed
\* since the card was fetched, overlapping or not.
RefusedOnlyWhenStale ==
    [][\A p \in Pages : job[p].at # "conflict" /\ job'[p].at = "conflict"
                          => job'[p].status # job[p].shown]_vars

\* The cooldown: a station whose last Action was closed less than an hour ago gets
\* another one only from a page that was fetched before it was closed.
CooldownKept ==
    [][\A p \in Pages : job[p].at = "create" /\ job'[p].at = "apply" /\ job[p].fresh
                          => \A r \in Latest(job[p].station) : ~rows[r].hot]_vars

\* The notes of a form go to the station it was opened for.
\* A card that has turned to another station since breaks it.
NotesWhereMeant ==
    [][\A p \in Pages : job[p].at = "idle" /\ job'[p].at # "idle" /\ form[p] # None
                          => job'[p].station = form[p]]_vars
=============================================================================
