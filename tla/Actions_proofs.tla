--------------------------- MODULE Actions_proofs ----------------------------
(***************************************************************************)
(* For any stations, pages and bounds: what two operators may rely on when *)
(* their requests do not overlap (one unfinished Action per station, a     *)
(* closed Action stays closed), and what a page may rely on always (a      *)
(* refusal means its card is stale, the cooldown is kept).                 *)
(***************************************************************************)
EXTENDS Actions, TLAPS, SequenceTheorems

\* Cards and requests point at Actions of their station.
CardWithin(p) ==
    /\ card[p].row <= Len(rows)
    /\ card[p].row # 0 => rows[card[p].row].station = card[p].station

JobWithin(p) ==
    /\ job[p].at # "idle" => job[p].station \in Stations
    /\ job[p].at \in {"row", "apply", "conflict"} =>
          job[p].row \in 1..Len(rows) /\ rows[job[p].row].station = job[p].station

Within == \A p \in Pages : CardWithin(p) /\ JobWithin(p)

\* A request asks for what its card allowed.
Allowed == \A p \in Pages : job[p].at # "idle" => job[p].transition \in Valid(job[p].shown)

Busy == {"match", "create", "apply"}

\* What a request knows as long as none has overlapped.
Knows(p) ==
    /\ job[p].at = "apply" => /\ rows[job[p].row].status = job[p].status
                              /\ job[p].status # "CLOSED"
    /\ job[p].at \in {"match", "create"} =>
          \A r \in 1..Len(rows) : rows[r].station = job[p].station => rows[r].status = "CLOSED"
    /\ job[p].at \in Busy =>
          \A q \in Pages \ {p} : job[q].at \in Busy => job[q].station # job[p].station

\* Only the last Action of a station is unfinished.
OnlyLatest ==
    \A q, r \in 1..Len(rows) : rows[q].station = rows[r].station /\ rows[q].status # "CLOSED" => r <= q

Alone == ~overlapped => OnlyLatest /\ \A p \in Pages : Knows(p)

Cooled(st) == \A r \in Latest(st) : ~rows[r].hot

\* What a card without an Action, and a request to create one, say of the cooldown.
Aware ==
    \A p \in Pages :
       /\ fresh[p] /\ card[p].row = 0 /\ card[p].station \in Stations => Cooled(card[p].station)
       /\ job[p].fresh /\ job[p].at \in {"find", "match", "create"} => Cooled(job[p].station)

IInv == TypeOK /\ Within /\ Allowed /\ Alone /\ Aware

-----------------------------------------------------------------------------
(* Facts about the table.                                                  *)

LEMMA RowsFacts ==
    ASSUME TypeOK
    PROVE  /\ Len(rows) \in Nat
           /\ \A r \in 1..Len(rows) : rows[r] \in Row
  BY LenProperties, ElementOfSeq DEF TypeOK

LEMMA IdleFacts == Idle \in Job /\ Empty \in Card
  BY ActionsAssumption DEF Idle, Empty, Job, Card, Transitions, Statuses

LEMMA AfterFacts ==
    ASSUME NEW t \in Transitions, NEW st \in Statuses
    PROVE  After(t, st) \in Statuses
  BY DEF After, Transitions, Statuses

\* A new Action takes the next place, and the others stay as they are.
LEMMA Created ==
    ASSUME TypeOK, NEW p \in Pages, Create(p), job[p].station \in Stations
    PROVE  /\ rows' \in Seq(Row)
           /\ Len(rows') = Len(rows) + 1
           /\ \A r \in 1..Len(rows) : rows'[r] = rows[r]
           /\ rows'[Len(rows) + 1] = [station |-> job[p].station, status |-> "OPEN", hot |-> FALSE]
<1> DEFINE new == [station |-> job[p].station, status |-> "OPEN", hot |-> FALSE]
<1>1. new \in Row
  BY DEF Row, Statuses
<1>2. rows \in Seq(Row) /\ rows' = Append(rows, new)
  BY DEF TypeOK, Create
<1> HIDE DEF new
<1>3. QED
  BY <1>1, <1>2, AppendProperties DEF new

\* A transition changes one Action, and not whom it is about.
LEMMA Applied ==
    ASSUME TypeOK, Within, NEW p \in Pages, Apply(p)
    PROVE  /\ rows' \in Seq(Row)
           /\ Len(rows') = Len(rows)
           /\ job[p].row \in 1..Len(rows)
           /\ \A r \in 1..Len(rows) :
                 IF r = job[p].row
                 THEN /\ rows'[r].station = rows[r].station
                      /\ rows'[r].status = After(job[p].transition, job[p].status)
                      /\ rows'[r].hot = (rows[r].hot \/ job[p].transition = "close")
                 ELSE rows'[r] = rows[r]
<1> DEFINE i == job[p].row
           row == [station |-> rows[i].station, status |-> After(job[p].transition, job[p].status),
                   hot |-> (rows[i].hot \/ job[p].transition = "close")]
<1>1. i \in 1..Len(rows) /\ rows[i] \in Row
  BY RowsFacts DEF Within, JobWithin, Apply
<1>2. job[p] \in Job
  BY DEF TypeOK
<1>3. row \in Row
  BY <1>1, <1>2, AfterFacts DEF Row, Job
<1>4. rows \in Seq(Row) /\ rows' = [rows EXCEPT ![i] = row]
  BY <1>1 DEF TypeOK, Apply, Written
<1> HIDE DEF row
<1>5. /\ rows' \in Seq(Row) /\ Len(rows') = Len(rows)
      /\ \A r \in 1..Len(rows) : rows'[r] = IF r = i THEN row ELSE rows[r]
  BY <1>1, <1>3, <1>4, ExceptSeq
<1>6. QED
  BY <1>1, <1>5 DEF row

\* The end of a cooldown changes one Action, and only that.
LEMMA Cools ==
    ASSUME TypeOK, NEW i \in 1..Len(rows), CoolDown(i)
    PROVE  /\ rows' \in Seq(Row)
           /\ Len(rows') = Len(rows)
           /\ \A r \in 1..Len(rows) : /\ rows'[r].station = rows[r].station
                                      /\ rows'[r].status = rows[r].status
                                      /\ rows'[r].hot => rows[r].hot
<1> DEFINE row == [station |-> rows[i].station, status |-> rows[i].status, hot |-> FALSE]
<1>1. rows[i] \in Row
  BY RowsFacts
<1>2. row \in Row
  BY <1>1 DEF Row
<1>3. rows \in Seq(Row) /\ rows' = [rows EXCEPT ![i] = row]
  BY <1>1 DEF TypeOK, CoolDown, Written
<1> HIDE DEF row
<1>4. /\ rows' \in Seq(Row) /\ Len(rows') = Len(rows)
      /\ \A r \in 1..Len(rows) : rows'[r] = IF r = i THEN row ELSE rows[r]
  BY <1>2, <1>3, ExceptSeq
<1>5. QED
  BY <1>4 DEF row

-----------------------------------------------------------------------------
(* TypeOK and Within are inductive together.                               *)

LEMMA TypeStep ==
    ASSUME TypeOK, Within, [Next]_vars
    PROVE  TypeOK'
<1> USE ActionsAssumption, IdleFacts
<1>1. ASSUME NEW p \in Pages, Find(p) PROVE TypeOK'
  <2>1. \A r \in Existing(job[p].station) : r \in 0..MaxRows
    BY RowsFacts DEF Existing, Relevant, Latest, About, TypeOK
  <2>2. job' \in [Pages -> Job]
    <3>1. CASE \E r \in Existing(job[p].station) :
                  job' = [job EXCEPT ![p] = [@ EXCEPT !.at = "row", !.row = r]]
      <4>1. PICK r \in Existing(job[p].station) :
                  job' = [job EXCEPT ![p] = [@ EXCEPT !.at = "row", !.row = r]]
        BY <3>1
      <4>2. [job[p] EXCEPT !.at = "row", !.row = r] \in Job
        BY <2>1 DEF TypeOK, Job
      <4>3. QED
        BY <4>1, <4>2 DEF TypeOK
    <3>2. CASE job' = [job EXCEPT ![p] = [@ EXCEPT !.at = "match"]]
      BY <3>2 DEF TypeOK, Job
    <3>3. QED
      BY <1>1, <3>1, <3>2 DEF Find
  <2>3. QED
    BY <1>1, <2>2 DEF Find, TypeOK
<1>2. ASSUME NEW p \in Pages, Match(p) PROVE TypeOK'
  <2>1. job' \in [Pages -> Job]
    <3>1. job[p] \in Job /\ Idle \in Job
      BY DEF TypeOK, Idle, Job, Statuses
    <3>2. [job[p] EXCEPT !.at = "create"] \in Job
      BY <3>1 DEF Job
    <3>3. job' = [job EXCEPT ![p] = Idle] \/ job' = [job EXCEPT ![p] = [job[p] EXCEPT !.at = "create"]]
      BY <1>2 DEF Match, TypeOK
    <3>4. QED
      BY <3>1, <3>2, <3>3 DEF TypeOK
  <2>2. QED
    BY <1>2, <2>1 DEF Match, TypeOK
<1>3. ASSUME NEW p \in Pages, Create(p) PROVE TypeOK'
  <2>1. job[p].station \in Stations
    BY <1>3 DEF Within, JobWithin, Create
  <2>2. rows' \in Seq(Row) /\ Len(rows') = Len(rows) + 1 /\ Len(rows) < MaxRows
    BY <1>3, <2>1, Created DEF Create
  <2>3. job' \in [Pages -> Job]
    <3>1. Len(rows) + 1 \in 0..MaxRows /\ "OPEN" \in Statuses
      BY <2>2, RowsFacts DEF Statuses
    <3>2. [job[p] EXCEPT !.at = "apply", !.row = Len(rows) + 1, !.status = "OPEN"] \in Job
      BY <3>1 DEF TypeOK, Job
    <3>3. QED
      BY <1>3, <3>2 DEF Create, TypeOK
  <2>4. Len(rows') <= MaxRows
    BY <2>2, RowsFacts
  <2>5. QED
    BY <1>3, <2>2, <2>3, <2>4 DEF Create, TypeOK
<1>4. ASSUME NEW p \in Pages, ReadRow(p) PROVE TypeOK'
  <2>1. rows[job[p].row].status \in Statuses
    BY <1>4, RowsFacts DEF Within, JobWithin, ReadRow, Row
  <2>2. job' \in [Pages -> Job]
    <3>1. PICK at \in {"apply", "conflict"} :
            job' = [job EXCEPT ![p] = [job[p] EXCEPT !.status = rows[job[p].row].status, !.at = at]]
      BY <1>4 DEF ReadRow, TypeOK
    <3>2. [job[p] EXCEPT !.status = rows[job[p].row].status, !.at = at] \in Job
      BY <2>1 DEF TypeOK, Job
    <3>3. QED
      BY <3>1, <3>2 DEF TypeOK
  <2>3. QED
    BY <1>4, <2>2 DEF ReadRow, TypeOK
<1>5. ASSUME NEW p \in Pages, Apply(p) PROVE TypeOK'
  <2>1. rows' \in Seq(Row) /\ Len(rows') = Len(rows)
    BY <1>5, Applied
  <2>2. job' \in [Pages -> Job]
    BY <1>5 DEF Apply, TypeOK, Job
  <2>3. fresh' \in [Pages -> BOOLEAN]
    BY <1>5 DEF Apply, TypeOK
  <2>4. form' \in [Pages -> Stations \union {None}]
    BY <1>5 DEF Apply, TypeOK
  <2>5. QED
    BY <1>5, <2>1, <2>2, <2>3, <2>4 DEF Apply, TypeOK
<1>6. ASSUME NEW p \in Pages, Fail(p) PROVE TypeOK'
  BY <1>6 DEF Fail, TypeOK
<1>7. ASSUME NEW p \in Pages, NEW t \in Transitions, Send(p, t), card[p].station \in Stations \union {None},
             UNCHANGED <<rows, worst, card, form, fresh, overlapped>>
      PROVE TypeOK'
  <2>1. card[p] \in Card /\ fresh[p] \in BOOLEAN
    BY DEF TypeOK
  <2>2. job' \in [Pages -> Job]
    BY <1>7, <2>1 DEF Send, TypeOK, Job, Card, Statuses
  <2>3. sent' \in 0..MaxSent
    BY <1>7 DEF Send, TypeOK
  <2>4. QED
    BY <1>7, <2>2, <2>3 DEF TypeOK
<1>8. ASSUME NEW p \in Pages, OpenForm(p) \/ Cancel(p) PROVE TypeOK'
  <2>1. card[p].station \in Stations \union {None}
    BY DEF TypeOK, Card
  <2>2. form' \in [Pages -> Stations \union {None}]
    BY <1>8, <2>1 DEF OpenForm, Cancel, TypeOK
  <2>3. QED
    BY <1>8, <2>2 DEF OpenForm, Cancel, TypeOK
<1>9. ASSUME NEW p \in Pages, Poll(p) PROVE TypeOK'
  <2>1. \A r \in Relevant(worst) : r \in 0..MaxRows /\ rows[r].status \in Statuses
    BY RowsFacts DEF Relevant, Latest, About, TypeOK, Row
  <2>2. card' \in [Pages -> Card]
    <3>1. [Empty EXCEPT !.station = worst] \in Card
      BY DEF Empty, Card, TypeOK, Statuses
    <3>2. \A r \in Relevant(worst) : [station |-> worst, row |-> r, status |-> rows[r].status] \in Card
      BY <2>1 DEF Card, TypeOK
    <3>3. QED
      BY <1>9, <3>1, <3>2 DEF Poll, TypeOK
  <2>3. form' \in [Pages -> Stations \union {None}] /\ fresh' \in [Pages -> BOOLEAN]
    BY <1>9 DEF Poll, TypeOK
  <2>4. QED
    BY <1>9, <2>2, <2>3 DEF Poll, TypeOK
<1>10. ASSUME NEW w \in Stations \union {None}, Evaluate(w) PROVE TypeOK'
  BY <1>10 DEF Evaluate, TypeOK
<1>11. ASSUME NEW r \in 1..Len(rows), CoolDown(r) PROVE TypeOK'
  <2>1. rows' \in Seq(Row) /\ Len(rows') = Len(rows)
    BY <1>11, Cools
  <2>2. QED
    BY <1>11, <2>1 DEF CoolDown, TypeOK
<1>12. CASE UNCHANGED vars
  BY <1>12 DEF vars, TypeOK
<1>13. ASSUME NEW p \in Pages, NEW t \in Transitions, Click(p, t) \/ Confirm(p) PROVE TypeOK'
  <2>1. card[p].station \in Stations \union {None} /\ "close" \in Transitions
    BY DEF TypeOK, Card, Transitions
  <2>2. QED
    BY <1>7, <1>13, <2>1 DEF Click, Confirm
<1>14. QED
  BY <1>1, <1>2, <1>3, <1>4, <1>5, <1>6, <1>8, <1>9, <1>10, <1>11, <1>12, <1>13
     DEF Next, World, Handler, Operator, Transitions

RowsKept ==
    /\ Len(rows) <= Len(rows') /\ Len(rows') \in Nat
    /\ \A r \in 1..Len(rows) : rows'[r].station = rows[r].station

LEMMA RowsStep ==
    ASSUME TypeOK, Within, [Next]_vars
    PROVE  RowsKept
<1>1. TypeOK'
  BY TypeStep
<1>2. Len(rows) \in Nat
  BY RowsFacts
<1>3. ASSUME NEW p \in Pages, Create(p) PROVE RowsKept
  <2>1. job[p].station \in Stations
    BY <1>3 DEF Within, JobWithin, Create
  <2>2. Len(rows') = Len(rows) + 1 /\ \A r \in 1..Len(rows) : rows'[r] = rows[r]
    BY <1>3, <2>1, Created DEF Create
  <2>3. QED
    BY <1>2, <2>2 DEF RowsKept
<1>4. ASSUME NEW p \in Pages, Apply(p) PROVE RowsKept
  BY <1>2, <1>4, Applied DEF RowsKept
<1>5. ASSUME NEW r \in 1..Len(rows), CoolDown(r) PROVE RowsKept
  BY <1>2, <1>5, Cools DEF RowsKept
<1>6. CASE rows' = rows
  BY <1>2, <1>6 DEF RowsKept
<1>7. QED
  BY <1>3, <1>4, <1>5, <1>6 DEF Next, vars, World, Handler, Operator, Find, Match, ReadRow, Fail,
     Click, OpenForm, Cancel, Confirm, Poll, Evaluate

LEMMA CardKept ==
    ASSUME TypeOK, Within, RowsKept, NEW q \in Pages, card'[q] = card[q]
    PROVE  CardWithin(q)'
<1>1. card[q] \in Card /\ CardWithin(q) /\ Len(rows) \in Nat
  BY RowsFacts DEF TypeOK, Within
<1>2. QED
  BY <1>1 DEF CardWithin, RowsKept, Card

LEMMA JobKept ==
    ASSUME TypeOK, Within, RowsKept, NEW q \in Pages,
           job'[q].at = job[q].at, job'[q].row = job[q].row, job'[q].station = job[q].station
    PROVE  JobWithin(q)'
<1>1. JobWithin(q) /\ Len(rows) \in Nat
  BY RowsFacts DEF TypeOK, Within
<1>2. QED
  BY <1>1 DEF JobWithin, RowsKept

LEMMA WithinStep ==
    ASSUME TypeOK, Within, [Next]_vars
    PROVE  Within'
<1>0. RowsKept
  BY RowsStep
<1>a. /\ Len(rows) \in Nat
      /\ \A q \in Pages : job[q] \in Job /\ job[q].row \in Nat /\ JobWithin(q)
  BY RowsFacts, ActionsAssumption DEF TypeOK, Within, Job
<1>1. ASSUME NEW p \in Pages, Handler(p) PROVE Within'
  <2>1. \A q \in Pages : CardWithin(q)'
    BY <1>1, <1>0, CardKept DEF Handler, Find, Match, Create, ReadRow, Apply, Fail
  <2>2. ASSUME NEW q \in Pages \ {p} PROVE JobWithin(q)'
    <3>1. CASE Apply(p)
      <4>1. job'[q] = [job[q] EXCEPT !.fresh = @ /\ job[p].transition # "close"]
        BY <3>1 DEF Apply
      <4>2. job'[q].at = job[q].at /\ job'[q].row = job[q].row /\ job'[q].station = job[q].station
        BY <1>a, <4>1 DEF Job
      <4>3. QED
        BY <4>2, <1>0, JobKept
    <3>2. CASE ~Apply(p)
      <4>1. job'[q] = job[q]
        BY <1>1, <3>2 DEF Handler, Find, Match, Create, ReadRow, Fail, TypeOK
      <4>2. QED
        BY <4>1, <1>0, JobKept
    <3>3. QED
      BY <3>1, <3>2
  <2>3. JobWithin(p)'
    <3>1. CASE Find(p)
      <4>1. CASE job'[p] = [job[p] EXCEPT !.at = "match"]
        BY <1>a, <3>1, <4>1 DEF JobWithin, Find, Job
      <4>2. ASSUME NEW r \in Existing(job[p].station), job'[p] = [job[p] EXCEPT !.at = "row", !.row = r]
            PROVE  JobWithin(p)'
        <5>1. r \in 1..Len(rows) /\ rows[r].station = job[p].station
          BY DEF Existing, Relevant, Latest, About
        <5>2. job[p].station \in Stations
          BY <1>a, <3>1 DEF JobWithin, Find
        <5>3. QED
          BY <1>a, <3>1, <4>2, <5>1, <5>2 DEF JobWithin, Find, Job
      <4>3. QED
        BY <3>1, <4>1, <4>2 DEF Find, TypeOK
    <3>2. CASE Match(p)
      BY <1>a, <3>2 DEF JobWithin, Match, Job, Idle, TypeOK
    <3>3. CASE Create(p)
      <4>1. job[p].station \in Stations
        BY <1>a, <3>3 DEF JobWithin, Create
      <4>2. job'[p].at = "apply" /\ job'[p].row = Len(rows) + 1 /\ job'[p].station = job[p].station
        BY <1>a, <3>3 DEF Create, Job, TypeOK
      <4>3. rows'[Len(rows) + 1] = [station |-> job[p].station, status |-> "OPEN", hot |-> FALSE]
        BY <3>3, <4>1, Created DEF Create
      <4>5. Len(rows') = Len(rows) + 1
        BY <3>3, <4>1, Created DEF Create
      <4>4. QED
        BY <1>a, <4>1, <4>2, <4>3, <4>5 DEF JobWithin
    <3>4. CASE ReadRow(p)
      BY <1>a, <3>4 DEF JobWithin, ReadRow, Job, TypeOK
    <3>5. CASE Apply(p)
      BY <3>5 DEF JobWithin, Apply, Idle
    <3>6. CASE Fail(p)
      BY <3>6 DEF JobWithin, Fail, Idle, TypeOK
    <3>7. QED
      BY <1>1, <3>1, <3>2, <3>3, <3>4, <3>5, <3>6 DEF Handler
  <2>4. QED
    BY <2>1, <2>2, <2>3 DEF Within
<1>2. ASSUME NEW p \in Pages, Poll(p) PROVE Within'
  <2>1. \A q \in Pages : JobWithin(q)'
    BY <1>2, <1>0, JobKept DEF Poll
  <2>2. \A q \in Pages \ {p} : CardWithin(q)'
    BY <1>2, <1>0, CardKept DEF Poll, TypeOK
  <2>3. CardWithin(p)'
    <3>1. CASE card'[p] = Empty \/ card'[p] = [Empty EXCEPT !.station = worst]
      BY <1>a, <1>2, <3>1 DEF CardWithin, Poll, Empty
    <3>2. ASSUME NEW r \in Relevant(worst), card'[p] = [station |-> worst, row |-> r, status |-> rows[r].status]
          PROVE  CardWithin(p)'
      <4>1. r \in 1..Len(rows) /\ rows[r].station = worst
        BY DEF Relevant, Latest, About
      <4>2. QED
        BY <1>2, <3>2, <4>1 DEF CardWithin, Poll
    <3>3. QED
      BY <1>2, <3>1, <3>2 DEF Poll, TypeOK
  <2>4. QED
    BY <2>1, <2>2, <2>3 DEF Within
<1>3. ASSUME NEW p \in Pages, NEW t \in Transitions, Click(p, t) \/ Confirm(p) PROVE Within'
  <2>1. \A q \in Pages : CardWithin(q)'
    BY <1>3, <1>0, CardKept DEF Click, Confirm
  <2>2. PICK s : Send(p, s) /\ Clickable(p)
    BY <1>3 DEF Click, Confirm
  <2>3. \A q \in Pages \ {p} : JobWithin(q)'
    BY <2>2, <1>0, JobKept DEF Send, TypeOK
  <2>4. JobWithin(p)'
    <3>1. card[p] \in Card /\ card[p].station \in Stations /\ CardWithin(p) /\ rows' = rows
      BY <1>3, <2>2 DEF TypeOK, Card, Clickable, Within, Click, Confirm
    <3>2. /\ job'[p].at = (IF card[p].row = 0 THEN "find" ELSE "row")
          /\ job'[p].station = card[p].station /\ job'[p].row = card[p].row
      BY <2>2 DEF Send, TypeOK
    <3>3. QED
      BY <1>a, <3>1, <3>2, ActionsAssumption DEF JobWithin, CardWithin, Card
  <2>5. QED
    BY <2>1, <2>3, <2>4 DEF Within
<1>4. CASE card' = card /\ job' = job
  BY <1>4, <1>0, CardKept, JobKept DEF Within
<1>5. QED
  BY <1>1, <1>2, <1>3, <1>4 DEF Next, vars, World, Operator, OpenForm, Cancel, Confirm, Evaluate, CoolDown,
     Transitions

-----------------------------------------------------------------------------
(* Requests that do not overlap.                                           *)

LEMMA AllowedStep ==
    ASSUME TypeOK, Allowed, [Next]_vars
    PROVE  Allowed'
<1>a. \A q \in Pages : job[q] \in Job
  BY DEF TypeOK
<1>1. ASSUME NEW p \in Pages, Handler(p), ~Apply(p) PROVE Allowed'
  <2>1. \A q \in Pages \ {p} : job'[q] = job[q]
    BY <1>1 DEF Handler, Find, Match, Create, ReadRow, Fail, TypeOK
  <2>2. \/ job'[p].at = "idle"
        \/ job[p].at # "idle" /\ job'[p].transition = job[p].transition /\ job'[p].shown = job[p].shown
    <3>1. CASE job'[p] = Idle
      BY <3>1 DEF Idle
    <3>2. CASE Find(p)
      <4>1. \/ job'[p] = [job[p] EXCEPT !.at = "match"]
            \/ \E r : job'[p] = [job[p] EXCEPT !.at = "row", !.row = r]
        BY <3>2 DEF Find, TypeOK
      <4>2. QED
        BY <1>a, <3>2, <4>1 DEF Find, Job
    <3>3. CASE Match(p)
      BY <1>a, <3>1, <3>3 DEF Match, Job, TypeOK
    <3>4. CASE Create(p)
      BY <1>a, <3>4 DEF Create, Job, TypeOK
    <3>5. CASE ReadRow(p)
      BY <1>a, <3>5 DEF ReadRow, Job, TypeOK
    <3>6. QED
      BY <1>1, <3>1, <3>2, <3>3, <3>4, <3>5 DEF Handler, Fail, TypeOK
  <2>3. QED
    BY <2>1, <2>2 DEF Allowed, Valid
<1>2. ASSUME NEW p \in Pages, Apply(p) PROVE Allowed'
  <2>1. \A q \in Pages : \/ job'[q].at = "idle"
                         \/ /\ job'[q].at = job[q].at
                            /\ job'[q].transition = job[q].transition /\ job'[q].shown = job[q].shown
    <3>1. SUFFICES ASSUME NEW q \in Pages, q # p
                   PROVE  /\ job'[q].at = job[q].at
                          /\ job'[q].transition = job[q].transition /\ job'[q].shown = job[q].shown
      BY <1>2 DEF Apply, Idle
    <3>2. job'[q] = [job[q] EXCEPT !.fresh = @ /\ job[p].transition # "close"]
      BY <1>2, <3>1 DEF Apply
    <3>3. QED
      BY <1>a, <3>2 DEF Job
  <2>2. QED
    BY <2>1 DEF Allowed, Valid
<1>3. ASSUME NEW p \in Pages, NEW t \in Transitions, Click(p, t) \/ Confirm(p) PROVE Allowed'
  <2>1. PICK s \in Valid(card[p].status) : Send(p, s)
    BY <1>3 DEF Click, Confirm, Clickable, Offered, Valid, Transitions
  <2>2. \A q \in Pages \ {p} : job'[q] = job[q]
    BY <2>1 DEF Send, TypeOK
  <2>3. job'[p].transition = s /\ job'[p].shown = card[p].status
    BY <2>1 DEF Send, TypeOK
  <2>4. QED
    BY <2>1, <2>2, <2>3 DEF Allowed, Valid
<1>4. CASE job' = job
  BY <1>4 DEF Allowed, Valid
<1>5. QED
  BY <1>1, <1>2, <1>3, <1>4 DEF Next, vars, World, Operator, Handler, OpenForm, Cancel, Confirm, Poll,
     Evaluate, CoolDown, Transitions

\* A request keeps what it knows while what it knows is left alone.
LEMMA KnowsKept ==
    ASSUME NEW q \in Pages, Knows(q),
           job'[q].at = job[q].at, job'[q].row = job[q].row,
           job'[q].station = job[q].station, job'[q].status = job[q].status,
           job[q].at = "apply" => rows'[job[q].row].status = rows[job[q].row].status,
           job[q].at \in {"match", "create"} =>
              \A r \in 1..Len(rows') : rows'[r].station = job[q].station => rows'[r].status = "CLOSED",
           job[q].at \in Busy =>
              \A r \in Pages \ {q} : job'[r].at \in Busy => job'[r].station # job[q].station
    PROVE  Knows(q)'
  BY DEF Knows

\* While the table does not change and no one becomes busy.
LEMMA KnowsQuiet ==
    ASSUME Alone, ~overlapped', overlapped => overlapped', rows' = rows,
           NEW p \in Pages, \A q \in Pages \ {p} : job'[q] = job[q],
           job'[p].at \notin Busy
    PROVE  OnlyLatest' /\ \A q \in Pages : Knows(q)'
<1>1. OnlyLatest' /\ \A q \in Pages : Knows(q)
  BY DEF Alone, OnlyLatest
<1>2. Knows(p)'
  BY DEF Knows, Busy
<1>3. ASSUME NEW q \in Pages \ {p} PROVE Knows(q)'
  BY <1>1, <1>3, KnowsKept DEF Knows
<1>4. QED
  BY <1>1, <1>2, <1>3

\* The handler of p becomes busy, with no other about its station.
LEMMA KnowsJoined ==
    ASSUME Alone, ~overlapped', overlapped => overlapped', rows' = rows,
           NEW p \in Pages, \A q \in Pages \ {p} : job'[q] = job[q],
           job'[p].station = job[p].station, ~Overlaps(p),
           job'[p].at = "apply" => /\ rows[job'[p].row].status = job'[p].status
                                   /\ job'[p].status # "CLOSED",
           job'[p].at \in {"match", "create"} =>
              \A r \in 1..Len(rows) : rows[r].station = job[p].station => rows[r].status = "CLOSED"
    PROVE  OnlyLatest' /\ \A q \in Pages : Knows(q)'
<1>1. OnlyLatest' /\ \A q \in Pages : Knows(q)
  BY DEF Alone, OnlyLatest
<1>2. \A q \in Pages \ {p} : job[q].at \in Busy => job[q].station # job[p].station
  BY DEF Overlaps, Busy
<1>3. Knows(p)'
  BY <1>2 DEF Knows
<1>4. ASSUME NEW q \in Pages \ {p} PROVE Knows(q)'
  BY <1>1, <1>2, <1>4, KnowsKept DEF Knows
<1>5. QED
  BY <1>1, <1>3, <1>4

\* No Action of the station is unfinished when its last one is not.
LEMMA NothingExists ==
    ASSUME TypeOK, OnlyLatest, NEW st \in Stations, Existing(st) = {}
    PROVE  \A r \in 1..Len(rows) : rows[r].station = st => rows[r].status = "CLOSED"
<1> SUFFICES ASSUME NEW r \in 1..Len(rows), rows[r].station = st, rows[r].status # "CLOSED" PROVE FALSE
  OBVIOUS
<1>1. r \in Existing(st)
  BY DEF OnlyLatest, Existing, Relevant, Latest, About, Unfinished
<1>2. QED
  BY <1>1

LEMMA AloneStep ==
    ASSUME TypeOK, Within, Alone, [Next]_vars
    PROVE  Alone'
<1> SUFFICES ASSUME ~overlapped' PROVE OnlyLatest' /\ \A q \in Pages : Knows(q)'
  BY DEF Alone
<1>a. /\ Len(rows) \in Nat
      /\ \A q \in Pages : job[q] \in Job /\ JobWithin(q)
  BY RowsFacts DEF TypeOK, Within
<1>b. overlapped => overlapped'
  BY DEF Next, vars, World, Operator, Handler, Find, Match, Create, ReadRow, Apply, Fail, OpenForm, Cancel,
     Confirm, Click, Send, Poll, Evaluate, CoolDown
<1>c. OnlyLatest /\ \A q \in Pages : Knows(q)
  BY <1>b DEF Alone
<1>1. ASSUME NEW p \in Pages, Find(p) PROVE OnlyLatest' /\ \A q \in Pages : Knows(q)'
  <2>1. /\ ~Overlaps(p) /\ rows' = rows /\ job[p].station \in Stations
        /\ \A q \in Pages \ {p} : job'[q] = job[q]
    BY <1>a, <1>1 DEF Find, TypeOK, JobWithin
  <2>2. CASE Existing(job[p].station) = {} /\ job'[p] = [job[p] EXCEPT !.at = "match"]
    <3>1. \A r \in 1..Len(rows) : rows[r].station = job[p].station => rows[r].status = "CLOSED"
      BY <1>c, <2>1, <2>2, NothingExists
    <3>2. job'[p].at = "match" /\ job'[p].station = job[p].station
      BY <1>a, <2>2 DEF Job
    <3>3. QED
      BY <1>b, <2>1, <3>1, <3>2, KnowsJoined
  <2>3. CASE \E r : job'[p] = [job[p] EXCEPT !.at = "row", !.row = r]
    <3>1. job'[p].at \notin Busy
      BY <1>a, <2>3 DEF Job, Busy
    <3>2. QED
      BY <1>b, <2>1, <3>1, KnowsQuiet
  <2>4. QED
    BY <1>1, <2>2, <2>3 DEF Find, TypeOK
<1>2. ASSUME NEW p \in Pages, Match(p) PROVE OnlyLatest' /\ \A q \in Pages : Knows(q)'
  <2>1. rows' = rows /\ \A q \in Pages \ {p} : job'[q] = job[q]
    BY <1>2 DEF Match, TypeOK
  <2>2. CASE job'[p] = Idle
    BY <1>b, <2>1, <2>2, KnowsQuiet DEF Idle, Busy
  <2>3. CASE job'[p] = [job[p] EXCEPT !.at = "create"]
    <3>1. /\ job[p].at = "match" /\ job'[p].at = "create" /\ job'[p].station = job[p].station
      BY <1>2, <1>a, <2>3 DEF Job, Match
    <3>2. ~Overlaps(p)
      BY <1>c, <3>1 DEF Knows, Overlaps, Busy
    <3>3. \A r \in 1..Len(rows) : rows[r].station = job[p].station => rows[r].status = "CLOSED"
      BY <1>c, <3>1 DEF Knows
    <3>4. QED
      BY <1>b, <2>1, <3>1, <3>2, <3>3, KnowsJoined
  <2>4. QED
    BY <1>2, <2>2, <2>3 DEF Match, TypeOK
<1>3. ASSUME NEW p \in Pages, Create(p) PROVE OnlyLatest' /\ \A q \in Pages : Knows(q)'
  <2>1. job[p].station \in Stations /\ job[p].at = "create"
    BY <1>3, <1>a DEF JobWithin, Create
  <2>2. /\ Len(rows') = Len(rows) + 1
        /\ \A r \in 1..Len(rows) : rows'[r] = rows[r]
    BY <1>3, <2>1, Created DEF Create
  <2>3. rows'[Len(rows) + 1] = [station |-> job[p].station, status |-> "OPEN", hot |-> FALSE]
    BY <1>3, <2>1, Created DEF Create
  <2>4. \A r \in 1..Len(rows) : rows[r].station = job[p].station => rows[r].status = "CLOSED"
    BY <1>c, <2>1 DEF Knows
  <2>5. OnlyLatest'
    <3> SUFFICES ASSUME NEW q \in 1..Len(rows'), NEW r \in 1..Len(rows'),
                        rows'[q].station = rows'[r].station, rows'[q].status # "CLOSED"
                 PROVE  r <= q
      BY DEF OnlyLatest
    <3>1. CASE q = Len(rows) + 1
      BY <1>a, <2>2, <3>1
    <3>2. CASE q \in 1..Len(rows)
      <4>1. rows[q].station # job[p].station
        BY <2>2, <2>4, <3>2
      <4>2. r # Len(rows) + 1
        BY <2>2, <2>3, <3>2, <4>1
      <4>3. QED
        BY <1>a, <1>c, <2>2, <3>2, <4>2 DEF OnlyLatest
    <3>3. QED
      BY <1>a, <2>2, <3>1, <3>2
  <2>6. /\ \A q \in Pages \ {p} : job'[q] = job[q]
        /\ job'[p].at = "apply" /\ job'[p].row = Len(rows) + 1
        /\ job'[p].status = "OPEN" /\ job'[p].station = job[p].station
    BY <1>a, <1>3 DEF Create, Job, TypeOK
  <2>7. Knows(p)'
    BY <1>c, <2>1, <2>3, <2>6 DEF Knows, Busy
  <2>8. ASSUME NEW q \in Pages \ {p} PROVE Knows(q)'
    <3>1. Knows(q) /\ JobWithin(q) /\ Knows(p)
      BY <1>a, <1>c
    <3>2. job[q].at \in Busy => job[q].station # job[p].station
      BY <3>1, <2>1 DEF Knows, Busy
    <3>3. job[q].at = "apply" => rows'[job[q].row].status = rows[job[q].row].status
      BY <2>2, <3>1 DEF JobWithin
    <3>4. job[q].at \in {"match", "create"} =>
              \A r \in 1..Len(rows') : rows'[r].station = job[q].station => rows'[r].status = "CLOSED"
      BY <1>a, <2>2, <2>3, <3>1, <3>2 DEF Knows, Busy
    <3>5. job[q].at \in Busy =>
              \A r \in Pages \ {q} : job'[r].at \in Busy => job'[r].station # job[q].station
      BY <2>6, <3>1, <3>2 DEF Knows
    <3>6. QED
      BY <2>6, <3>1, <3>3, <3>4, <3>5, KnowsKept
  <2>9. QED
    BY <2>5, <2>7, <2>8
<1>4. ASSUME NEW p \in Pages, ReadRow(p) PROVE OnlyLatest' /\ \A q \in Pages : Knows(q)'
  <2> DEFINE status == rows[job[p].row].status
  <2>1. /\ ~Overlaps(p) /\ rows' = rows
        /\ \A q \in Pages \ {p} : job'[q] = job[q]
    BY <1>4 DEF ReadRow, TypeOK
  <2>2. /\ job'[p].at = (IF job[p].transition \in Valid(status) THEN "apply" ELSE "conflict")
        /\ job'[p].status = status /\ job'[p].station = job[p].station /\ job'[p].row = job[p].row
    BY <1>a, <1>4 DEF ReadRow, Job, TypeOK
  <2>3. CASE job[p].transition \in Valid(status)
    <3>1. status # "CLOSED"
      BY <2>3 DEF Valid
    <3>2. QED
      BY <1>b, <2>1, <2>2, <2>3, <3>1, KnowsJoined
  <2>4. CASE job[p].transition \notin Valid(status)
    BY <1>b, <2>1, <2>2, <2>4, KnowsQuiet DEF Busy
  <2>5. QED
    BY <2>3, <2>4
<1>5. ASSUME NEW p \in Pages, Apply(p) PROVE OnlyLatest' /\ \A q \in Pages : Knows(q)'
  <2> DEFINE i == job[p].row
  <2>1. /\ Len(rows') = Len(rows) /\ i \in 1..Len(rows) /\ rows[i].station = job[p].station
        /\ \A r \in 1..Len(rows) : /\ rows'[r].station = rows[r].station
                                   /\ r # i => rows'[r].status = rows[r].status
    BY <1>5, <1>a, Applied DEF JobWithin, Apply
  <2>2. job[p].at = "apply" /\ rows[i].status # "CLOSED" /\ job'[p] = Idle
    BY <1>5, <1>c DEF Knows, Apply
  <2>3. OnlyLatest'
    BY <1>c, <2>1, <2>2 DEF OnlyLatest
  <2>4. Knows(p)'
    BY <2>2 DEF Knows, Idle, Busy
  <2>5. ASSUME NEW q \in Pages \ {p} PROVE Knows(q)'
    <3>1. Knows(q) /\ JobWithin(q) /\ Knows(p)
      BY <1>a, <1>c
    <3>2. job[q].at \in Busy => job[q].station # job[p].station
      BY <3>1, <2>2 DEF Knows, Busy
    <3>3. \A r \in Pages \ {p} : /\ job'[r].at = job[r].at /\ job'[r].row = job[r].row
                                 /\ job'[r].station = job[r].station /\ job'[r].status = job[r].status
      <4> SUFFICES ASSUME NEW r \in Pages \ {p}
                   PROVE  /\ job'[r].at = job[r].at /\ job'[r].row = job[r].row
                          /\ job'[r].station = job[r].station /\ job'[r].status = job[r].status
        OBVIOUS
      <4>1. job'[r] = [job[r] EXCEPT !.fresh = @ /\ job[p].transition # "close"]
        BY <1>5 DEF Apply
      <4>2. QED
        BY <1>a, <4>1 DEF Job
    <3>4. job[q].at = "apply" => rows'[job[q].row].status = rows[job[q].row].status
      BY <2>1, <3>1, <3>2 DEF JobWithin, Busy
    <3>5. job[q].at \in {"match", "create"} =>
              \A r \in 1..Len(rows') : rows'[r].station = job[q].station => rows'[r].status = "CLOSED"
      BY <2>1, <3>1, <3>2 DEF Knows, Busy
    <3>6. job[q].at \in Busy =>
              \A r \in Pages \ {q} : job'[r].at \in Busy => job'[r].station # job[q].station
      BY <2>2, <3>1, <3>3 DEF Knows, Idle, Busy
    <3>7. QED
      BY <3>1, <3>3, <3>4, <3>5, <3>6, KnowsKept
  <2>6. QED
    BY <2>3, <2>4, <2>5
<1>6. ASSUME NEW p \in Pages, Fail(p) PROVE OnlyLatest' /\ \A q \in Pages : Knows(q)'
  BY <1>b, <1>6, KnowsQuiet DEF Fail, Idle, Busy, TypeOK
<1>7. ASSUME NEW p \in Pages, NEW t \in Transitions, Click(p, t) \/ Confirm(p)
      PROVE OnlyLatest' /\ \A q \in Pages : Knows(q)'
  <2>1. PICK s : Send(p, s) /\ rows' = rows
    BY <1>7 DEF Click, Confirm
  <2>2. job'[p].at \notin Busy /\ \A q \in Pages \ {p} : job'[q] = job[q]
    BY <2>1 DEF Send, Busy, TypeOK
  <2>3. QED
    BY <1>b, <2>1, <2>2, KnowsQuiet
<1>8. ASSUME NEW i \in 1..Len(rows), CoolDown(i) PROVE OnlyLatest' /\ \A q \in Pages : Knows(q)'
  <2>1. /\ Len(rows') = Len(rows) /\ job' = job
        /\ \A r \in 1..Len(rows) : rows'[r].station = rows[r].station /\ rows'[r].status = rows[r].status
    BY <1>8, Cools DEF CoolDown
  <2>2. OnlyLatest'
    BY <1>c, <2>1 DEF OnlyLatest
  <2>3. ASSUME NEW q \in Pages PROVE Knows(q)'
    <3>1. Knows(q) /\ JobWithin(q)
      BY <1>a, <1>c
    <3>2. job[q].at = "apply" => rows'[job[q].row].status = rows[job[q].row].status
      BY <2>1, <3>1 DEF JobWithin
    <3>3. job[q].at \in {"match", "create"} =>
              \A r \in 1..Len(rows') : rows'[r].station = job[q].station => rows'[r].status = "CLOSED"
      BY <2>1, <3>1 DEF Knows
    <3>4. job[q].at \in Busy =>
              \A r \in Pages \ {q} : job'[r].at \in Busy => job'[r].station # job[q].station
      BY <2>1, <3>1 DEF Knows
    <3>5. QED
      BY <2>1, <3>1, <3>2, <3>3, <3>4, KnowsKept
  <2>4. QED
    BY <2>2, <2>3
<1>9. CASE rows' = rows /\ job' = job
  <2>1. OnlyLatest'
    BY <1>c, <1>9 DEF OnlyLatest
  <2>2. ASSUME NEW q \in Pages PROVE Knows(q)'
    BY <1>c, <1>9, <2>2 DEF Knows
  <2>3. QED
    BY <2>1, <2>2
<1>10. QED
  BY <1>1, <1>2, <1>3, <1>4, <1>5, <1>6, <1>7, <1>8, <1>9 DEF Next, vars, World, Operator, Handler,
     OpenForm, Cancel, Poll, Evaluate, Transitions

-----------------------------------------------------------------------------
(* The cooldown.                                                           *)

Closes(p) == Apply(p) /\ job[p].transition = "close"

LEMMA CooledStep ==
    ASSUME TypeOK, Within, [Next]_vars, \A p \in Pages : ~Closes(p), NEW st, Cooled(st)
    PROVE  Cooled(st)'
<1>a. /\ Len(rows) \in Nat
      /\ \A q \in Pages : JobWithin(q)
  BY RowsFacts DEF Within
<1>1. ASSUME NEW p \in Pages, Create(p) PROVE Cooled(st)'
  <2>1. job[p].station \in Stations
    BY <1>1, <1>a DEF JobWithin, Create
  <2>2. /\ Len(rows') = Len(rows) + 1
        /\ \A r \in 1..Len(rows) : rows'[r] = rows[r]
    BY <1>1, <2>1, Created DEF Create
  <2>3. rows'[Len(rows) + 1] = [station |-> job[p].station, status |-> "OPEN", hot |-> FALSE]
    BY <1>1, <2>1, Created DEF Create
  <2>4. QED
    BY <1>a, <2>2, <2>3 DEF Cooled, Latest, About
<1>2. ASSUME Len(rows') = Len(rows),
             \A r \in 1..Len(rows) : rows'[r].station = rows[r].station /\ (rows'[r].hot => rows[r].hot)
      PROVE  Cooled(st)'
  BY <1>2 DEF Cooled, Latest, About
<1>3. ASSUME NEW p \in Pages, Apply(p) PROVE Cooled(st)'
  <2>1. job[p].transition # "close"
    BY <1>3 DEF Closes
  <2>2. /\ Len(rows') = Len(rows)
        /\ \A r \in 1..Len(rows) : rows'[r].station = rows[r].station /\ (rows'[r].hot => rows[r].hot)
    BY <1>3, <2>1, Applied
  <2>3. QED
    BY <1>2, <2>2
<1>4. ASSUME NEW i \in 1..Len(rows), CoolDown(i) PROVE Cooled(st)'
  BY <1>2, <1>4, Cools
<1>5. CASE rows' = rows
  BY <1>2, <1>5
<1>6. QED
  BY <1>1, <1>3, <1>4, <1>5 DEF Next, vars, World, Handler, Operator, Find, Match, ReadRow, Fail,
     Click, OpenForm, Cancel, Confirm, Poll, Evaluate

CardAware(p) == fresh[p] /\ card[p].row = 0 /\ card[p].station \in Stations => Cooled(card[p].station)
JobAware(p)  == job[p].fresh /\ job[p].at \in {"find", "match", "create"} => Cooled(job[p].station)

LEMMA AwareStep ==
    ASSUME TypeOK, Within, Aware, [Next]_vars
    PROVE  Aware'
<1> SUFFICES ASSUME NEW q \in Pages PROVE CardAware(q)' /\ JobAware(q)'
  BY DEF Aware, CardAware, JobAware
<1>a. job[q] \in Job /\ CardAware(q) /\ JobAware(q)
  BY DEF TypeOK, Aware, CardAware, JobAware
<1>1. ASSUME NEW p \in Pages, Closes(p) PROVE CardAware(q)' /\ JobAware(q)'
  <2>1. ~fresh'[q]
    BY <1>1 DEF Closes, Apply
  <2>2. CASE q = p
    BY <1>1, <2>1, <2>2 DEF Closes, Apply, CardAware, JobAware, Idle
  <2>3. CASE q # p
    <3>1. job'[q] = [job[q] EXCEPT !.fresh = @ /\ ~(job[p].transition = "close")]
      BY <1>1, <2>3 DEF Closes, Apply
    <3>2. ~job'[q].fresh
      BY <1>a, <1>1, <3>1 DEF Closes, Job
    <3>3. QED
      BY <2>1, <3>2 DEF CardAware, JobAware
  <2>4. QED
    BY <2>2, <2>3
<1>2. CASE \A p \in Pages : ~Closes(p)
  <2>c. \A st \in Stations \union {None} : Cooled(st) => Cooled(st)'
    BY <1>2, CooledStep
  <2>e. ASSUME fresh'[q] => fresh[q], card'[q] = card[q] PROVE CardAware(q)'
    <3>1. PICK st : st = card[q].station
      OBVIOUS
    <3>2. st \in Stations => (Cooled(st) => Cooled(st)')
      BY <2>c
    <3>3. card'[q].station = st /\ card'[q].row = card[q].row
      BY <2>e, <3>1
    <3>4. fresh'[q] /\ card'[q].row = 0 /\ st \in Stations => Cooled(st)'
      BY <1>a, <2>e, <3>1, <3>2, <3>3 DEF CardAware
    <3>5. QED
      BY <3>3, <3>4 DEF CardAware
  <2>f. ASSUME job'[q].station = job[q].station, job'[q].fresh => job[q].fresh,
               job'[q].at \in {"find", "match", "create"} => job[q].at \in {"find", "match", "create"}
        PROVE  JobAware(q)'
    <3>1. PICK st \in Stations \union {None} : st = job[q].station
      BY <1>a DEF Job
    <3>2. Cooled(st) => Cooled(st)'
      BY <2>c
    <3>3. job'[q].station = st
      BY <2>f, <3>1
    <3>4. job'[q].fresh /\ job'[q].at \in {"find", "match", "create"} => Cooled(st)'
      BY <1>a, <2>f, <3>1, <3>2 DEF JobAware
    <3>5. QED
      BY <3>3, <3>4 DEF JobAware
  <2>1. ASSUME NEW p \in Pages, Handler(p), ~Apply(p) PROVE CardAware(q)' /\ JobAware(q)'
    <3>1. CardAware(q)'
      BY <2>1, <2>e DEF Handler, Find, Match, Create, ReadRow, Fail
    <3>2. CASE q # p
      <4>1. job'[q] = job[q]
        BY <2>1, <3>2 DEF Handler, Find, Match, Create, ReadRow, Fail, TypeOK
      <4>2. QED
        BY <2>f, <3>1, <4>1
    <3>3. CASE q = p /\ job'[q] = Idle
      BY <3>1, <3>3 DEF JobAware, Idle
    <3>4. CASE q = p /\ Find(p)
      <4>1. \/ job'[q] = [job[q] EXCEPT !.at = "match"]
            \/ \E r : job'[q] = [job[q] EXCEPT !.at = "row", !.row = r]
        BY <3>4 DEF Find, TypeOK
      <4>2. /\ job'[q].station = job[q].station /\ job'[q].fresh = job[q].fresh /\ job[q].at = "find"
        BY <1>a, <3>4, <4>1 DEF Find, Job
      <4>3. QED
        BY <2>f, <3>1, <4>2
    <3>5. CASE q = p /\ job'[q] = [job[q] EXCEPT !.at = "create"] /\ Match(p)
      <4>1. /\ job'[q].station = job[q].station /\ job'[q].fresh = job[q].fresh /\ job[q].at = "match"
        BY <1>a, <3>5 DEF Match, Job
      <4>2. QED
        BY <2>f, <3>1, <4>1
    <3>6. CASE q = p /\ Create(p)
      <4>1. job'[q].at = "apply"
        BY <1>a, <3>6 DEF Create, TypeOK, Job
      <4>2. QED
        BY <3>1, <4>1 DEF JobAware
    <3>7. CASE q = p /\ ReadRow(p)
      <4>1. job'[q].at \in {"apply", "conflict"}
        BY <1>a, <3>7 DEF ReadRow, TypeOK, Job
      <4>2. QED
        BY <3>1, <4>1 DEF JobAware
    <3>8. QED
      BY <2>1, <3>1, <3>2, <3>3, <3>4, <3>5, <3>6, <3>7 DEF Handler, Match, Fail, TypeOK
  <2>2. ASSUME NEW p \in Pages, Apply(p) PROVE CardAware(q)' /\ JobAware(q)'
    <3>1. fresh'[q] => fresh[q]
      BY <2>2 DEF Apply
    <3>2. CardAware(q)'
      BY <2>2, <2>e, <3>1 DEF Apply
    <3>3. CASE q = p
      BY <2>2, <3>2, <3>3 DEF Apply, JobAware, Idle
    <3>4. CASE q # p
      <4>1. job'[q] = [job[q] EXCEPT !.fresh = @ /\ job[p].transition # "close"]
        BY <2>2, <3>4 DEF Apply
      <4>2. job'[q].station = job[q].station /\ job'[q].at = job[q].at /\ (job'[q].fresh => job[q].fresh)
        BY <1>a, <4>1 DEF Job
      <4>3. QED
        BY <2>f, <3>2, <4>2
    <3>5. QED
      BY <3>3, <3>4
  <2>3. ASSUME NEW p \in Pages, Poll(p) PROVE CardAware(q)' /\ JobAware(q)'
    <3>1. JobAware(q)'
      BY <2>3, <2>f DEF Poll
    <3>2. CASE q # p
      BY <2>3, <2>e, <3>1, <3>2 DEF Poll, TypeOK
    <3>3. CASE q = p
      <4>1. CASE card'[q] = Empty
        BY <4>1, <3>1, ActionsAssumption DEF CardAware, Empty
      <4>2. CASE Relevant(worst) = {} /\ card'[q] = [Empty EXCEPT !.station = worst] /\ worst # None
        <5>1. worst \in Stations /\ card'[q].station = worst
          BY <4>2 DEF TypeOK, Empty
        <5>2. Cooled(worst)
          BY <4>2 DEF Relevant, Cooled
        <5>3. Cooled(worst)'
          BY <5>2, <2>3 DEF Poll, Cooled, Latest, About
        <5>4. worst' = worst
          BY <2>3 DEF Poll
        <5>5. QED
          BY <3>1, <5>1, <5>3, <5>4 DEF CardAware
      <4>3. ASSUME NEW r \in Relevant(worst), card'[q] = [station |-> worst, row |-> r, status |-> rows[r].status]
            PROVE  CardAware(q)'
        <5>1. r # 0
          BY RowsFacts DEF Relevant, Latest, About
        <5>2. QED
          BY <4>3, <5>1 DEF CardAware
      <4>4. QED
        BY <2>3, <3>1, <3>3, <4>1, <4>2, <4>3 DEF Poll, TypeOK
    <3>4. QED
      BY <3>2, <3>3
  <2>4. ASSUME NEW p \in Pages, NEW t \in Transitions, Click(p, t) \/ Confirm(p)
        PROVE CardAware(q)' /\ JobAware(q)'
    <3>1. PICK s : Send(p, s) /\ Clickable(p)
      BY <2>4 DEF Click, Confirm
    <3>2. CardAware(q)'
      BY <2>4, <2>e DEF Click, Confirm
    <3>3. CASE q # p
      BY <2>f, <3>1, <3>2, <3>3 DEF Send, TypeOK
    <3>4. CASE q = p
      <4>1. /\ job'[q].at = (IF card[q].row = 0 THEN "find" ELSE "row")
            /\ job'[q].station = card[q].station /\ job'[q].fresh = fresh[q]
        BY <3>1, <3>4 DEF Send, TypeOK
      <4>2. card[q].station \in Stations
        BY <3>1, <3>4 DEF Clickable, TypeOK, Card
      <4>3. QED
        BY <1>a, <2>c, <3>2, <4>1, <4>2 DEF CardAware, JobAware
    <3>5. QED
      BY <3>3, <3>4
  <2>5. CASE card' = card /\ job' = job /\ fresh' = fresh
    BY <2>5, <2>e, <2>f
  <2>6. QED
    BY <2>1, <2>2, <2>3, <2>4, <2>5 DEF Next, vars, World, Operator, Handler, OpenForm, Cancel, Evaluate,
       CoolDown, Transitions
<1>3. QED
  BY <1>1, <1>2

-----------------------------------------------------------------------------
(* The theorems.                                                           *)

LEMMA Initially == Init => IInv
<1> SUFFICES ASSUME Init PROVE IInv
  OBVIOUS
<1>1. rows = << >> /\ rows \in Seq(Row) /\ Len(rows) = 0
  BY EmptySeq DEF Init
<1>2. TypeOK
  <2>1. Len(rows) <= MaxRows /\ sent \in 0..MaxSent
    BY <1>1, ActionsAssumption DEF Init
  <2>2. card \in [Pages -> Card] /\ job \in [Pages -> Job]
    BY IdleFacts DEF Init
  <2>3. /\ form \in [Pages -> Stations \union {None}] /\ fresh \in [Pages -> BOOLEAN]
        /\ worst \in Stations \union {None} /\ overlapped \in BOOLEAN
    BY DEF Init
  <2>4. QED
    BY <1>1, <2>1, <2>2, <2>3 DEF TypeOK
<1>3. /\ \A p \in Pages : job[p] = Idle /\ card[p] = Empty
      /\ None \notin Stations
  BY ActionsAssumption DEF Init
<1>4. Within /\ Allowed /\ Alone
  BY <1>1, <1>3 DEF Within, CardWithin, JobWithin, Allowed, Alone, OnlyLatest, Knows, Busy, Idle, Empty
<1>5. Aware
  BY <1>3 DEF Aware, Idle, Empty
<1>6. QED
  BY <1>2, <1>4, <1>5 DEF IInv

LEMMA Inductive == IInv /\ [Next]_vars => IInv'
  BY TypeStep, WithinStep, AllowedStep, AloneStep, AwareStep DEF IInv

\* The state has the types declared for it.
THEOREM TypeCorrect == Spec => []TypeOK
<1>1. IInv => TypeOK
  BY DEF IInv
<1>2. QED
  BY <1>1, Initially, Inductive, PTL DEF Spec

\* While no two requests about a station have overlapped, a station has one
\* unfinished Action at most.
THEOREM UnfinishedCorrect == Spec => []OneUnfinished
<1>1. IInv => OneUnfinished
  <2> SUFFICES ASSUME IInv, ~overlapped, NEW st \in Stations, NEW q \in About(st), NEW r \in About(st),
                      Unfinished(q), Unfinished(r)
               PROVE  q = r
    BY DEF OneUnfinished
  <2>1. /\ q \in 1..Len(rows) /\ r \in 1..Len(rows) /\ Len(rows) \in Nat
        /\ rows[q].station = rows[r].station
    BY RowsFacts DEF About, IInv
  <2>2. r <= q /\ q <= r
    BY <2>1 DEF IInv, Alone, OnlyLatest, Unfinished
  <2>3. QED
    BY <2>1, <2>2
<1>2. QED
  BY <1>1, Initially, Inductive, PTL DEF Spec

\* A closed Action keeps its status as long as no requests overlap.
THEOREM ClosedCorrect == Spec => ClosedStays
<1>1. IInv /\ [Next]_vars =>
         [~overlapped' => \A r \in 1..Len(rows) : ~Unfinished(r) => rows'[r].status = rows[r].status]_vars
  <2> SUFFICES ASSUME IInv, Next, ~overlapped', NEW r \in 1..Len(rows), ~Unfinished(r)
               PROVE  rows'[r].status = rows[r].status
    BY DEF vars
  <2>a. TypeOK /\ Within /\ \A p \in Pages : JobWithin(p)
    BY DEF IInv, Within
  <2>1. ASSUME NEW p \in Pages, Create(p) PROVE rows'[r].status = rows[r].status
    <3>1. job[p].station \in Stations
      BY <2>1, <2>a DEF JobWithin, Create
    <3>2. rows'[r] = rows[r]
      BY <2>1, <2>a, <3>1, Created DEF Create
    <3>3. QED
      BY <3>2
  <2>2. ASSUME NEW p \in Pages, Apply(p) PROVE rows'[r].status = rows[r].status
    <3>1. job[p].at = "apply" /\ ~overlapped
      BY <2>2 DEF Apply
    <3>2. rows[job[p].row].status # "CLOSED"
      BY <3>1 DEF IInv, Alone, Knows
    <3>3. r # job[p].row
      BY <3>2 DEF Unfinished
    <3>4. rows'[r] = rows[r]
      BY <2>2, <2>a, <3>3, Applied
    <3>5. QED
      BY <3>4
  <2>3. ASSUME NEW i \in 1..Len(rows), CoolDown(i) PROVE rows'[r].status = rows[r].status
    BY <2>3, <2>a, Cools
  <2>4. CASE rows' = rows
    BY <2>4
  <2>5. QED
    BY <2>1, <2>2, <2>3, <2>4 DEF Next, World, Handler, Operator, Find, Match, ReadRow, Fail,
       Click, OpenForm, Cancel, Confirm, Poll, Evaluate
<1>2. QED
  BY <1>1, Initially, Inductive, PTL DEF Spec, ClosedStays

\* A request is refused for the state of its Action only when that state is not the
\* one its card showed, overlapping or not.
THEOREM RefusedCorrect == Spec => RefusedOnlyWhenStale
<1>1. IInv /\ [Next]_vars =>
         [\A p \in Pages : job[p].at # "conflict" /\ job'[p].at = "conflict"
                              => job'[p].status # job[p].shown]_vars
  <2> SUFFICES ASSUME IInv, Next, NEW p \in Pages, job[p].at # "conflict", job'[p].at = "conflict"
               PROVE  job'[p].status # job[p].shown
    BY DEF vars
  <2>a. TypeOK /\ \A q \in Pages : job[q] \in Job
    BY DEF IInv, TypeOK
  <2>1. CASE ReadRow(p)
    <3>1. /\ job'[p].at = (IF job[p].transition \in Valid(rows[job[p].row].status) THEN "apply" ELSE "conflict")
          /\ job'[p].status = rows[job[p].row].status
      BY <2>1, <2>a DEF ReadRow, Job, TypeOK
    <3>a. job[p].at = "row"
      BY <2>1 DEF ReadRow
    <3>b. job[p].transition \notin Valid(rows[job[p].row].status)
      BY <3>1
    <3>2. job[p].transition \notin Valid(job'[p].status) /\ job[p].at = "row"
      BY <3>1, <3>a, <3>b
    <3>3. job[p].transition \in Valid(job[p].shown)
      BY <3>2 DEF IInv, Allowed
    <3>4. QED
      BY <3>2, <3>3 DEF Valid
  <2>2. ASSUME NEW q \in Pages, Handler(q), ~Apply(q), ~(q = p /\ ReadRow(p)) PROVE FALSE
    <3>1. CASE q # p
      <4>1. job'[p] = job[p]
        BY <2>2, <2>a, <3>1 DEF Handler, Find, Match, Create, ReadRow, Fail, TypeOK
      <4>2. QED
        BY <4>1
    <3>2. CASE q = p /\ Find(p)
      <4>1. \/ job'[p] = [job[p] EXCEPT !.at = "match"]
            \/ \E r : job'[p] = [job[p] EXCEPT !.at = "row", !.row = r]
        BY <2>a, <3>2 DEF Find, TypeOK
      <4>2. QED
        BY <2>a, <4>1 DEF Job
    <3>3. CASE q = p /\ Match(p)
      BY <2>a, <3>3 DEF Match, Job, TypeOK, Idle
    <3>4. CASE q = p /\ Create(p)
      BY <2>a, <3>4 DEF Create, Job, TypeOK
    <3>5. CASE q = p /\ Fail(p)
      BY <2>a, <3>5 DEF Fail, TypeOK, Idle
    <3>6. QED
      BY <2>2, <3>1, <3>2, <3>3, <3>4, <3>5 DEF Handler
  <2>3. ASSUME NEW q \in Pages, Apply(q) PROVE FALSE
    <3>1. CASE q = p
      BY <2>3, <3>1 DEF Apply, Idle
    <3>2. CASE q # p
      <4>1. job'[p] = [job[p] EXCEPT !.fresh = @ /\ job[q].transition # "close"]
        BY <2>3, <3>2 DEF Apply
      <4>2. job'[p].at = job[p].at
        BY <2>a, <4>1 DEF Job
      <4>3. QED
        BY <4>2
    <3>3. QED
      BY <3>1, <3>2
  <2>4. ASSUME NEW q \in Pages, NEW t \in Transitions, Click(q, t) \/ Confirm(q) PROVE FALSE
    <3>1. PICK s : Send(q, s)
      BY <2>4 DEF Click, Confirm
    <3>2. job'[p] = job[p] \/ job'[p].at \in {"find", "row"}
      BY <3>1, <2>a DEF Send, TypeOK
    <3>3. QED
      BY <3>2
  <2>5. CASE job' = job
    BY <2>5
  <2>6. QED
    BY <2>1, <2>2, <2>3, <2>4, <2>5 DEF Next, World, Handler, Operator, OpenForm, Cancel, Poll, Evaluate,
       CoolDown, Transitions
<1>2. QED
  BY <1>1, Initially, Inductive, PTL DEF Spec, RefusedOnlyWhenStale

\* A station gets no new Action within the cooldown of its last one, unless the
\* page that asks was fetched before that one was closed.
THEOREM CooldownCorrect == Spec => CooldownKept
<1>1. IInv /\ [Next]_vars =>
         [\A p \in Pages : job[p].at = "create" /\ job'[p].at = "apply" /\ job[p].fresh
                              => \A r \in Latest(job[p].station) : ~rows[r].hot]_vars
  BY DEF IInv, Aware, Cooled, vars
<1>2. QED
  BY <1>1, Initially, Inductive, PTL DEF Spec, CooldownKept
=============================================================================
