--------------------------- MODULE Exchange_proofs ---------------------------
(***************************************************************************)
(* For any number of calls, connectors and handlers at the same time, any  *)
(* requests and any faults of the model: what a station has been told of a *)
(* StartTransaction or a StopTransaction stands, and a connector has the   *)
(* status that was last accepted.                                          *)
(***************************************************************************)
EXTENDS Exchange, TLAPS, SequenceTheorems

Stages == {"idle", "authorize", "precheck", "create", "lookup", "record", "update",
           "energy", "check", "stop", "report", "answer"}

\* tx is the number of a session.
Known(tx) == tx \in 1..MaxTx /\ rows[tx].port # None

\* Answer a to call c is one the tables bear out.
Good(c, a) ==
    a.at = "result" =>
        /\ made[c].op = "start" /\ a.tx # 0 => rows[a.tx].port = made[c].port
        /\ made[c].op = "stop" /\ made[c].tx # 0 => rows[made[c].tx].ended

\* Whatever is under way was sent.
Sent ==
    /\ \A c \in Calls : job[c].at # "idle" => outcome[c].at # "unsent"
    /\ \A i \in 1..Len(up) : outcome[up[i]].at # "unsent"
    /\ \A i \in 1..Len(down) : outcome[down[i].call].at # "unsent"

\* A station asks about sessions it has been told of.
Asked ==
    \A c \in Calls :
        (outcome[c].at # "unsent" /\ made[c].op \in {"meter", "stop"} /\ made[c].tx # 0)
            => Known(made[c].tx)

\* What a handler has found out.
Stage(c) ==
    /\ job[c].at = "authorize" => made[c].op = "start"
    /\ job[c].at \in {"precheck", "create"} => made[c].op = "start" /\ made[c].port \in Connectors
    /\ job[c].at = "lookup" => made[c].op \in {"meter", "stop"}
    /\ job[c].at \in {"record", "update", "energy"} => made[c].op = "meter" /\ Known(made[c].tx)
    /\ job[c].at = "stop" => made[c].op = "stop" /\ Known(made[c].tx)
    /\ job[c].at = "check" => /\ made[c].op \in {"status", "stop"}
                              /\ made[c].op = "stop" => Known(made[c].tx)
    /\ job[c].at = "report" => made[c].op = "status"
    /\ job[c].at = "answer" => Good(c, job[c].answer)

StageInv == \A c \in Calls : Stage(c)

\* A session that is over has its end, and only a session has one.
Ended == \A tx \in 1..MaxTx : rows[tx].port # None /\ rows[tx].status = "over" => rows[tx].ended

Answers ==
    /\ \A c \in Calls : Good(c, outcome[c])
    /\ \A i \in 1..Len(down) : Good(down[i].call, down[i].answer)

IInv == TypeOK /\ Sent /\ Asked /\ StageInv /\ Ended /\ Answers

-----------------------------------------------------------------------------
(* Types.                                                                  *)

LEMMA StageNames == \A j \in Job : j.at \in Stages
  BY DEF Job, Stages

LEMMA AnswerTypes == Answered \subseteq Outcome /\ \A f \in Frame : f.answer \in Outcome
  BY DEF Answered, Outcome, Frame

LEMMA Constants ==
    /\ Idle \in Job /\ Idle.at = "idle"
    /\ NoRow \in Row /\ NoRow.port = None /\ NoRow.ended = FALSE
    /\ NoRequest \in Request /\ NoRequest.op = "boot"
    /\ \A c \in Calls : c # None
    /\ \A k \in Connectors : k # None /\ k \in Ports
  BY ExchangeAssumption
     DEF Idle, Job, Answered, NoRow, Row, NoRequest, Request, Ops, Ports, ChargePointStatuses

LEMMA GotoFacts ==
    ASSUME TypeOK, NEW c \in Calls, NEW at \in Stages, Goto(c, at)
    PROVE  /\ job' \in [Calls -> Job]
           /\ job'[c].at = at
           /\ \A d \in Calls \ {c} : job'[d] = job[d]
  BY DEF TypeOK, Goto, Job, Stages

LEMMA ReplyFacts ==
    ASSUME TypeOK, NEW c \in Calls, NEW kind \in {"result", "error"}, NEW tx \in 0..MaxTx,
           Reply(c, kind, tx)
    PROVE  /\ job' \in [Calls -> Job]
           /\ job'[c].at = "answer"
           /\ job'[c].answer = [at |-> kind, tx |-> tx]
           /\ \A d \in Calls \ {c} : job'[d] = job[d]
<1> DEFINE a == [at |-> kind, tx |-> tx]
<1>1. a \in Answered
  BY DEF Answered
<1>2. job' = [job EXCEPT ![c] = [job[c] EXCEPT !.at = "answer", !.answer = a]]
  BY DEF Reply, TypeOK
<1>3. job[c] \in Job
  BY DEF TypeOK
<1> HIDE DEF a
<1>4. [job[c] EXCEPT !.at = "answer", !.answer = a] \in Job
  BY <1>1, <1>3 DEF Job
<1>5. QED
  BY <1>2, <1>3, <1>4 DEF TypeOK, Job, a

LEMMA RouteFacts ==
    ASSUME NEW op \in Ops
    PROVE  /\ Route(op) \in {"authorize", "lookup", "report", "answer"}
           /\ Route(op) = "authorize" => op = "start"
           /\ Route(op) = "lookup" => op \in {"meter", "stop"}
           /\ Route(op) = "report" => op = "status"
           /\ Route(op) = "answer" => op \notin {"start", "meter", "stop", "status"}
           /\ Kind(op) \in {"result", "error"}
<1>1. CASE op = "start"
  BY <1>1 DEF Route, Kind
<1>2. CASE op \in {"meter", "stop"}
  BY <1>2 DEF Route, Kind
<1>3. CASE op = "status"
  BY <1>3 DEF Route, Kind
<1>4. CASE op \in Ops \ {"start", "meter", "stop", "status"}
  BY <1>4 DEF Route, Kind
<1>5. QED
  BY <1>1, <1>2, <1>3, <1>4

\* Receive takes the first call and starts its handler.
LEMMA ReceiveFacts ==
    ASSUME TypeOK, Receive
    PROVE  /\ Len(up) \in Nat \ {0}
           /\ up[1] \in Calls
           /\ job' \in [Calls -> Job]
           /\ job'[up[1]].at \in {Route(made[up[1]].op), "answer"}
           /\ job'[up[1]].at = "answer" =>
                 job'[up[1]].answer.tx = 0 /\ job'[up[1]].answer.at \in {"result", "error"}
           /\ job'[up[1]].at = "answer" /\ job'[up[1]].answer.at = "result" =>
                 made[up[1]].op \notin {"start", "meter", "stop", "status"}
           /\ \A d \in Calls \ {up[1]} : job'[d] = job[d]
           /\ up' \in Seq(Calls)
           /\ Len(up') = Len(up) - 1
           /\ \A i \in 1..Len(up') : up'[i] = up[i + 1]
<1>1. up \in Seq(Calls) /\ up # <<>>
  BY DEF TypeOK, Receive
<1>2. Len(up) \in Nat \ {0} /\ Head(up) = up[1] /\ up[1] \in Calls
  BY <1>1, EmptySeq, LenProperties, ElementOfSeq
<1>3. /\ up' \in Seq(Calls) /\ Len(up') = Len(up) - 1
      /\ \A i \in 1..Len(up') : up'[i] = up[i + 1]
  BY <1>1, HeadTailProperties DEF Receive
<1> DEFINE c == up[1]
           op == made[c].op
           known == version = "OCPP1_6J"
           new == [at |-> IF known THEN Route(op) ELSE "answer", socket |-> socket,
                   answer |-> [at |-> IF known THEN Kind(op) ELSE "error", tx |-> 0],
                   raced |-> FALSE]
<1>4. op \in Ops
  BY <1>2 DEF TypeOK, Request
<1>5. new \in Job
  BY <1>4, RouteFacts, ExchangeAssumption DEF TypeOK, Job, Answered
<1>6. job' = [job EXCEPT ![c] = new]
  BY <1>2 DEF Receive
<1>7. /\ new.at \in {Route(op), "answer"}
      /\ new.answer.tx = 0 /\ new.answer.at \in {"result", "error"}
      /\ new.at = "answer" /\ new.answer.at = "result" => op \notin {"start", "meter", "stop", "status"}
  BY <1>4, RouteFacts
<1> HIDE DEF new
<1>8. QED
  BY <1>2, <1>3, <1>5, <1>6, <1>7 DEF TypeOK

\* ReceiveAnswer takes the first answer.
LEMMA ReceiveAnswerFacts ==
    ASSUME TypeOK, ReceiveAnswer
    PROVE  /\ Len(down) \in Nat \ {0}
           /\ down[1] \in Frame
           /\ outcome' \in [Calls -> Outcome]
           /\ \A c \in Calls : \/ outcome'[c] = outcome[c]
                               \/ /\ c = down[1].call /\ outcome[c].at = "waiting"
                                  /\ outcome'[c] = down[1].answer
           /\ down' \in Seq(Frame)
           /\ Len(down') = Len(down) - 1
           /\ \A i \in 1..Len(down') : down'[i] = down[i + 1]
<1>1. down \in Seq(Frame) /\ down # <<>>
  BY DEF TypeOK, ReceiveAnswer
<1>2. Len(down) \in Nat \ {0} /\ Head(down) = down[1] /\ down[1] \in Frame
  BY <1>1, EmptySeq, LenProperties, ElementOfSeq
<1>3. /\ down' \in Seq(Frame) /\ Len(down') = Len(down) - 1
      /\ \A i \in 1..Len(down') : down'[i] = down[i + 1]
  BY <1>1, HeadTailProperties DEF ReceiveAnswer
<1>4. down[1].answer \in Outcome
  BY <1>2, AnswerTypes
<1>5. outcome' = [c \in Calls |-> IF c \in Pending(down[1].call) THEN down[1].answer ELSE outcome[c]]
  BY <1>2 DEF ReceiveAnswer
<1>6. QED
  BY <1>2, <1>3, <1>4, <1>5 DEF TypeOK, Pending

\* Answer puts the answer behind those under way, or drops it.
LEMMA AnswerFacts ==
    ASSUME TypeOK, NEW c \in Calls, Answer(c)
    PROVE  /\ job' \in [Calls -> Job]
           /\ job'[c].at = "idle"
           /\ \A d \in Calls \ {c} : job'[d] = job[d]
           /\ down' \in Seq(Frame)
           /\ \A i \in 1..Len(down') :
                 \/ i \in 1..Len(down) /\ down'[i] = down[i]
                 \/ down'[i].call = c /\ down'[i].answer = job[c].answer
<1> DEFINE f == [call |-> c, answer |-> job[c].answer]
<1>1. f \in Frame
  BY DEF TypeOK, Frame, Job
<1>2. down \in Seq(Frame)
  BY DEF TypeOK
<1>3. job' \in [Calls -> Job] /\ job'[c].at = "idle" /\ \A d \in Calls \ {c} : job'[d] = job[d]
  BY Constants DEF TypeOK, Answer
<1>4. down' = down \/ down' = Append(down, f)
  BY DEF Answer
<1>f. f.call = c /\ f.answer = job[c].answer
  OBVIOUS
<1> HIDE DEF f
<1>5. CASE down' = down
  BY <1>2, <1>3, <1>5
<1>6. CASE down' = Append(down, f)
  BY <1>1, <1>2, <1>3, <1>6, <1>f, AppendProperties, LenProperties
<1>7. QED
  BY <1>4, <1>5, <1>6

\* The process is gone.
LEMMA GoneFacts ==
    ASSUME TypeOK, NEW n \in Starts, Gone(n)
    PROVE  /\ restarts' \in 0..MaxRestarts /\ exits' \in BOOLEAN => TypeOK'
           /\ rows' = rows /\ made' = made /\ outcome' = outcome /\ latest' = latest
           /\ status' = status /\ edited' = edited
           /\ \A c \in Calls : job'[c].at = "idle"
           /\ Len(up') = 0 /\ Len(down') = 0
<1>1. up' = <<>> /\ down' = <<>> /\ open' = FALSE /\ suspending' = {} /\ counter' \in 0..MaxTx
  BY DEF Gone, LoseSocket, Starts
<1>2. job' \in [Calls -> Job] /\ \A c \in Calls : job'[c].at = "idle"
  BY Constants DEF Gone
<1>3. UNCHANGED <<stationVars, socket, version, rows, statusVars>>
  BY DEF Gone
<1>4. up' \in Seq(Calls) /\ down' \in Seq(Frame)
  BY <1>1, EmptySeq
<1>5. QED
  BY <1>1, <1>2, <1>3, <1>4 DEF TypeOK, stationVars, statusVars

LEMMA ThrowFacts ==
    ASSUME TypeOK, Throw
    PROVE  /\ TypeOK'
           /\ rows' = rows /\ made' = made /\ outcome' = outcome /\ latest' = latest
           /\ status' = status /\ edited' = edited
           /\ \A c \in Calls : job'[c].at = "idle"
           /\ Len(up') = 0 /\ Len(down') = 0
<1>1. PICK n \in Starts : Gone(n)
  BY DEF Throw
<1>2. restarts' \in 0..MaxRestarts /\ exits' \in BOOLEAN
  BY DEF Throw, TypeOK
<1>3. QED
  BY <1>1, <1>2, GoneFacts

LEMMA RestartFacts ==
    ASSUME TypeOK, Restart
    PROVE  /\ TypeOK'
           /\ rows' = rows /\ made' = made /\ outcome' = outcome /\ latest' = latest
           /\ status' = status /\ edited' = edited
           /\ \A c \in Calls : job'[c].at = "idle"
           /\ Len(up') = 0 /\ Len(down') = 0
<1>1. PICK n \in Starts : Gone(n)
  BY DEF Restart
<1>2. restarts' \in 0..MaxRestarts /\ exits' \in BOOLEAN
  BY ExchangeAssumption DEF Restart, TypeOK
<1>3. QED
  BY <1>1, <1>2, GoneFacts

\* The transaction of createSession inserts the next transactionId, and ends only
\* sessions whose recovery window is over.
LEMMA InsertFacts ==
    ASSUME TypeOK, NEW c \in Calls, NEW found, CreateInserts(c, found),
           made[c].port \in Connectors
    PROVE  /\ counter + 1 \in 1..MaxTx /\ counter' = counter + 1
           /\ rows' \in [1..MaxTx -> Row]
           /\ rows[counter + 1].port = None /\ rows'[counter + 1].port = made[c].port
           /\ rows'[counter + 1].status = "live"
           /\ \A tx \in (1..MaxTx) \ {counter + 1} :
                 /\ rows'[tx].port = rows[tx].port
                 /\ \/ rows'[tx].status = rows[tx].status /\ rows'[tx].ended = rows[tx].ended
                    \/ rows'[tx].status = "over" /\ rows'[tx].ended
           /\ job' \in [Calls -> Job]
           /\ job'[c].at = "answer" /\ job'[c].answer = [at |-> "result", tx |-> counter + 1]
           /\ \A d \in Calls \ {c} : job'[d].at = job[d].at /\ job'[d].answer = job[d].answer
<1>1. counter + 1 \in 1..MaxTx /\ counter' = counter + 1 /\ counter + 1 \in 0..MaxTx
  <2>1. counter \in 0..MaxTx /\ MaxTx \in Nat
    BY ExchangeAssumption DEF TypeOK
  <2>2. counter < MaxTx /\ counter' = counter + 1
    BY DEF CreateInserts
  <2>3. QED
    BY <2>1, <2>2
<1> DEFINE n == counter + 1
           row == [port |-> made[c].port, status |-> "live", start |-> made[c].reading,
                   energy |-> 0, ended |-> FALSE]
           over(tx) == [rows[tx] EXCEPT !.status = "over", !.ended = TRUE]
           ans == [at |-> "result", tx |-> n]
           new == [job[c] EXCEPT !.at = "answer", !.raced = FALSE, !.answer = ans]
           lost(d) == [job[d] EXCEPT !.raced = TRUE]
<1>2. row \in Row /\ row.port = made[c].port /\ row.status = "live"
  BY ExchangeAssumption DEF TypeOK, Row, Request
<1>3. \A tx \in 1..MaxTx : /\ rows[tx] \in Row /\ over(tx) \in Row
                           /\ over(tx).port = rows[tx].port
                           /\ over(tx).status = "over" /\ over(tx).ended
  BY DEF TypeOK, Row
<1>4. ans \in Answered
  BY <1>1 DEF Answered
<1>5. new \in Job /\ new.at = "answer" /\ new.answer = ans
  <2>1. job[c] \in Job
    BY DEF TypeOK
  <2> HIDE DEF ans
  <2>2. QED
    BY <1>4, <2>1 DEF Job
<1>6. \A d \in Calls : /\ lost(d) \in Job
                       /\ lost(d).at = job[d].at /\ lost(d).answer = job[d].answer
  BY DEF TypeOK, Job
<1>7. rows' = [tx \in 1..MaxTx |-> IF tx = n THEN row
                 ELSE IF tx \in found THEN over(tx) ELSE rows[tx]]
  BY DEF CreateInserts
<1>8. job' = [d \in Calls |-> IF d = c THEN new
                 ELSE IF job[d].at = "create" THEN lost(d) ELSE job[d]]
  BY DEF CreateInserts
<1>9. rows[n].port = None
  BY DEF CreateInserts, Unused
<1> HIDE DEF n, row, over, new, lost
<1>10. /\ rows' \in [1..MaxTx -> Row] /\ rows'[n].port = made[c].port /\ rows'[n].status = "live"
       /\ \A tx \in (1..MaxTx) \ {n} :
             /\ rows'[tx].port = rows[tx].port
             /\ \/ rows'[tx].status = rows[tx].status /\ rows'[tx].ended = rows[tx].ended
                \/ rows'[tx].status = "over" /\ rows'[tx].ended
  BY <1>1, <1>2, <1>3, <1>7 DEF n
<1>11. /\ job' \in [Calls -> Job] /\ job'[c].at = "answer" /\ job'[c].answer = ans
       /\ \A d \in Calls \ {c} : job'[d].at = job[d].at /\ job'[d].answer = job[d].answer
  BY <1>5, <1>6, <1>8 DEF TypeOK
<1>12. QED
  BY <1>1, <1>9, <1>10, <1>11 DEF n

-----------------------------------------------------------------------------
(* What a step may do to the tables and to one handler.                    *)

\* Sessions stay, and so does their end.
Grows ==
    /\ \A tx \in 1..MaxTx : rows[tx].port # None => rows'[tx].port = rows[tx].port
    /\ \A tx \in 1..MaxTx : rows[tx].port # None /\ rows[tx].ended => rows'[tx].ended

\* Call c keeps its request and stays sent.
Stays(c) == outcome[c].at # "unsent" => made'[c] = made[c] /\ outcome'[c].at # "unsent"

LEMMA KnownStays ==
    ASSUME TypeOK, Grows, NEW tx \in 0..MaxTx, Known(tx)
    PROVE  Known(tx)' /\ rows'[tx].port = rows[tx].port
  BY DEF Grows, Known

LEMMA GoodStays ==
    ASSUME TypeOK, Grows, NEW c \in Calls, made'[c] = made[c], NEW a \in Outcome, NEW b, b = a,
           Good(c, a),
           made[c].op = "stop" /\ made[c].tx # 0 => Known(made[c].tx),
           made[c].op = "start" => made[c].port # None
    PROVE  /\ b.at = "result" =>
                /\ made'[c].op = "start" /\ b.tx # 0 => rows'[b.tx].port = made'[c].port
                /\ made'[c].op = "stop" /\ made'[c].tx # 0 => rows'[made'[c].tx].ended
<1>1. SUFFICES ASSUME a.at = "result"
               PROVE  /\ made[c].op = "start" /\ a.tx # 0 => rows'[a.tx].port = made[c].port
                      /\ made[c].op = "stop" /\ made[c].tx # 0 => rows'[made[c].tx].ended
  OBVIOUS
<1>2. ASSUME made[c].op = "start", a.tx # 0 PROVE rows'[a.tx].port = made[c].port
  <2>1. a.tx \in 1..MaxTx
    BY <1>2, ExchangeAssumption DEF Outcome
  <2>2. rows[a.tx].port = made[c].port /\ made[c].port # None
    BY <1>1, <1>2 DEF Good
  <2>3. QED
    BY <2>1, <2>2 DEF Grows
<1>3. ASSUME made[c].op = "stop", made[c].tx # 0 PROVE rows'[made[c].tx].ended
  BY <1>1, <1>3 DEF Good, Grows, Known
<1>4. QED
  BY <1>2, <1>3

\* The step of handler c that leaves the station and the frames alone.
Quiet(c) ==
    /\ TypeOK'
    /\ made' = made /\ outcome' = outcome /\ up' = up /\ down' = down
    /\ job[c].at # "idle"
    /\ \A d \in Calls \ {c} : job'[d] = job[d]
    /\ Stage(c)'
    /\ Grows
    /\ Ended'

\* A port is never None.
LEMMA PortFacts ==
    ASSUME TypeOK, NEW c \in Calls
    PROVE  made[c] \in Request /\ made[c].port # None /\ made[c].op \in Ops /\ made[c].tx \in 0..MaxTx
  BY ExchangeAssumption DEF TypeOK, Request

LEMMA AnswersStay ==
    ASSUME IInv, Grows, \A c \in Calls : Stays(c), NEW c \in Calls, outcome[c].at # "unsent",
           NEW a \in Outcome, Good(c, a)
    PROVE  Good(c, a)'
<1>1. made'[c] = made[c]
  BY DEF Stays
<1>2. made[c].op = "stop" /\ made[c].tx # 0 => Known(made[c].tx)
  BY DEF IInv, Asked
<1>3. made[c].port # None
  BY PortFacts DEF IInv
<1>4. TypeOK
  BY DEF IInv
<1>5. QED
  BY <1>1, <1>2, <1>3, <1>4, GoodStays DEF Good

\* A handler that a step leaves alone still knows what it has found out.
LEMMA StageStays ==
    ASSUME IInv, Grows, \A c \in Calls : Stays(c), NEW c \in Calls,
           job'[c].at = job[c].at, job'[c].answer = job[c].answer
    PROVE  Stage(c)'
<1>1. CASE job[c].at = "idle"
  BY <1>1 DEF Stage
<1>2. CASE job[c].at # "idle"
  <2>1. outcome[c].at # "unsent" /\ made'[c] = made[c]
    BY <1>2 DEF IInv, Sent, Stays
  <2>2. Known(made[c].tx) => Known(made[c].tx)'
    <3>1. ASSUME Known(made[c].tx) PROVE Known(made[c].tx) /\ made[c].tx \in 0..MaxTx /\ TypeOK
      BY <3>1, PortFacts DEF IInv
    <3>2. ASSUME Known(made[c].tx) PROVE rows'[made[c].tx].port # None /\ made[c].tx \in 1..MaxTx
      BY <3>1, <3>2 DEF Known, Grows
    <3>3. QED
      BY <2>1, <3>2 DEF Known
  <2>3. job[c].at = "answer" => Good(c, job[c].answer)'
    <3>1. job[c].answer \in Outcome
      BY AnswerTypes DEF IInv, TypeOK, Job
    <3>2. ASSUME job[c].at = "answer" PROVE Good(c, job[c].answer)
      BY <3>2 DEF IInv, StageInv, Stage
    <3>3. \A a \in Outcome : Good(c, a) => Good(c, a)'
      BY <2>1, AnswersStay
    <3>4. QED
      BY <3>1, <3>2, <3>3 DEF Good
  <2>4. Stage(c)
    BY DEF IInv, StageInv
  <2>5. QED
    BY <2>1, <2>2, <2>3, <2>4 DEF Stage
<1>3. QED
  BY <1>1, <1>2

\* What was answered still stands.
LEMMA OutcomesStay ==
    ASSUME IInv, Grows, \A c \in Calls : Stays(c), NEW c \in Calls, outcome'[c] = outcome[c]
    PROVE  Good(c, outcome[c])'
<1>1. CASE outcome[c].at = "unsent"
  BY <1>1 DEF Good
<1>2. CASE outcome[c].at # "unsent"
  <2>1. outcome[c] \in Outcome /\ Good(c, outcome[c])
    BY DEF IInv, TypeOK, Answers
  <2>2. \A a \in Outcome : Good(c, a) => Good(c, a)'
    BY <1>2, AnswersStay
  <2>3. QED
    BY <2>1, <2>2 DEF Good
<1>3. QED
  BY <1>1, <1>2

LEMMA FramesStay ==
    ASSUME IInv, Grows, \A c \in Calls : Stays(c), NEW f \in Frame,
           outcome[f.call].at # "unsent", Good(f.call, f.answer)
    PROVE  Good(f.call, f.answer)'
  BY AnswersStay, AnswerTypes DEF Frame

LEMMA AskedStays ==
    ASSUME IInv, Grows, \A c \in Calls : Stays(c), NEW c \in Calls, outcome[c].at # "unsent"
    PROVE  made'[c].op \in {"meter", "stop"} /\ made'[c].tx # 0 => Known(made[c].tx)'
<1>1. made'[c] = made[c]
  BY DEF Stays
<1>2. ASSUME made[c].op \in {"meter", "stop"}, made[c].tx # 0
      PROVE  made[c].tx \in 1..MaxTx /\ rows'[made[c].tx].port # None
  BY <1>2 DEF IInv, Asked, Known, Grows
<1>3. QED
  BY <1>1, <1>2 DEF Known

LEMMA QuietStep ==
    ASSUME IInv, NEW c \in Calls, Quiet(c)
    PROVE  IInv'
<1>1. Grows /\ \A d \in Calls : Stays(d)
  BY DEF Quiet, Stays
<1>2. Sent'
  BY DEF IInv, Sent, Quiet
<1>3. Asked'
  <2>1. SUFFICES ASSUME NEW d \in Calls, outcome'[d].at # "unsent",
                        made'[d].op \in {"meter", "stop"}, made'[d].tx # 0
                 PROVE  Known(made[d].tx)'
    BY DEF Asked
  <2>2. outcome[d].at # "unsent"
    BY <2>1 DEF Quiet
  <2>3. QED
    BY <1>1, <2>1, <2>2, AskedStays
<1>4. StageInv'
  <2>1. SUFFICES ASSUME NEW d \in Calls PROVE Stage(d)'
    BY DEF StageInv
  <2>2. CASE d = c
    BY <2>2 DEF Quiet
  <2>3. CASE d # c
    BY <1>1, <2>3, StageStays DEF Quiet
  <2>4. QED
    BY <2>2, <2>3
<1>5. Answers'
  <2>1. \A d \in Calls : Good(d, outcome[d])'
    BY <1>1, OutcomesStay DEF Quiet
  <2>2. ASSUME NEW i \in 1..Len(down) PROVE Good(down[i].call, down[i].answer)'
    <3>1. down[i] \in Frame
      BY ElementOfSeq DEF IInv, TypeOK
    <3>2. outcome[down[i].call].at # "unsent" /\ Good(down[i].call, down[i].answer)
      BY DEF IInv, Sent, Answers
    <3>3. \A f \in Frame : outcome[f.call].at # "unsent" /\ Good(f.call, f.answer) => Good(f.call, f.answer)'
      BY <1>1, FramesStay
    <3>4. down' = down
      BY DEF Quiet
    <3>5. QED
      BY <3>1, <3>2, <3>3, <3>4 DEF Good
  <2>3. QED
    BY <2>1, <2>2 DEF Answers, Quiet
<1>6. QED
  BY <1>2, <1>3, <1>4, <1>5 DEF IInv, Quiet

-----------------------------------------------------------------------------
(* The steps of a handler.                                                 *)

LEMMA SameRows ==
    ASSUME IInv, rows' = rows
    PROVE  Grows /\ Ended'
  BY DEF IInv, Grows, Ended

\* A handler moves on without touching anything else.
LEMMA GotoQuiet ==
    ASSUME IInv, NEW c \in Calls, NEW at \in Stages, Goto(c, at), job[c].at # "idle",
           UNCHANGED <<stationVars, wireVars, tableVars, faultVars>>,
           at # "answer",
           at = "precheck" => made[c].op = "start" /\ made[c].port \in Connectors,
           at = "create" => made[c].op = "start" /\ made[c].port \in Connectors,
           at \notin {"authorize", "lookup", "report"},
           at \in {"record", "update", "energy"} => made[c].op = "meter" /\ Known(made[c].tx),
           at = "stop" => made[c].op = "stop" /\ Known(made[c].tx),
           at = "check" => /\ made[c].op \in {"status", "stop"}
                           /\ made[c].op = "stop" => Known(made[c].tx)
    PROVE  Quiet(c)
<1>1. /\ job' \in [Calls -> Job] /\ job'[c].at = at
      /\ \A d \in Calls \ {c} : job'[d] = job[d]
  BY GotoFacts DEF IInv
<1>2. TypeOK'
  BY <1>1 DEF IInv, TypeOK, stationVars, wireVars, tableVars, statusVars, faultVars
<1>3. rows' = rows /\ made' = made
  BY DEF tableVars, statusVars, stationVars
<1>4. Stage(c)'
  BY <1>1, <1>3 DEF Stage, Known, Stages
<1>5. QED
  BY <1>1, <1>2, <1>3, <1>4, SameRows DEF Quiet, stationVars, wireVars

\* A handler has its answer, and nothing else has changed.
LEMMA ReplyQuiet ==
    ASSUME IInv, NEW c \in Calls, NEW kind \in {"result", "error"}, NEW tx \in 0..MaxTx,
           Reply(c, kind, tx), job[c].at # "idle",
           UNCHANGED <<stationVars, wireVars, tableVars, faultVars>>,
           Good(c, [at |-> kind, tx |-> tx])
    PROVE  Quiet(c)
<1>1. /\ job' \in [Calls -> Job] /\ job'[c].at = "answer"
      /\ job'[c].answer = [at |-> kind, tx |-> tx]
      /\ \A d \in Calls \ {c} : job'[d] = job[d]
  BY ReplyFacts DEF IInv
<1>2. TypeOK'
  BY <1>1 DEF IInv, TypeOK, stationVars, wireVars, tableVars, statusVars, faultVars
<1>3. rows' = rows /\ made' = made
  BY DEF tableVars, statusVars, stationVars
<1>4. Stage(c)'
  BY <1>1, <1>3 DEF Stage, Good
<1>5. QED
  BY <1>1, <1>2, <1>3, <1>4, SameRows DEF Quiet, stationVars, wireVars

LEMMA ZeroTx == 0 \in 0..MaxTx
  BY ExchangeAssumption

LEMMA ReportQuiet ==
    ASSUME IInv, NEW c \in Calls, Report(c)
    PROVE  Quiet(c)
<1>1. /\ job[c].at = "report" /\ made[c].op = "status"
      /\ UNCHANGED <<stationVars, wireVars, tableVars, faultVars>>
  BY DEF Report, IInv, StageInv, Stage
<1>2. CASE Reply(c, "result", 0)
  <2>1. Good(c, [at |-> "result", tx |-> 0])
    BY <1>1 DEF Good
  <2>2. QED
    BY <1>1, <1>2, <2>1, ZeroTx, ReplyQuiet
<1>3. CASE Reply(c, "error", 0)
  <2>1. Good(c, [at |-> "error", tx |-> 0])
    BY DEF Good
  <2>2. QED
    BY <1>1, <1>3, <2>1, ZeroTx, ReplyQuiet
<1>4. CASE Goto(c, "check")
  <2>1. "check" \in Stages
    BY DEF Stages
  <2>2. QED
    BY <1>1, <1>4, <2>1, GotoQuiet
<1>5. QED
  BY <1>2, <1>3, <1>4 DEF Report

LEMMA AuthorizeQuiet ==
    ASSUME IInv, NEW c \in Calls, Authorize(c)
    PROVE  Quiet(c)
<1>1. /\ job[c].at = "authorize" /\ made[c].op = "start"
      /\ UNCHANGED <<stationVars, wireVars, tableVars, faultVars>>
  BY DEF Authorize, IInv, StageInv, Stage
<1>2. CASE Reply(c, "result", 0)
  <2>1. Good(c, [at |-> "result", tx |-> 0])
    BY <1>1 DEF Good
  <2>2. QED
    BY <1>1, <1>2, <2>1, ZeroTx, ReplyQuiet
<1>3. CASE FindConnector(made[c].port) # {} /\ Goto(c, "precheck")
  <2>1. "precheck" \in Stages /\ made[c].port \in Connectors
    BY <1>3 DEF Stages, FindConnector
  <2>2. QED
    BY <1>1, <1>3, <2>1, GotoQuiet
<1>4. QED
  BY <1>2, <1>3 DEF Authorize

\* A session that occupies the connector is an answer to a StartTransaction there.
LEMMA OccupyingGood ==
    ASSUME NEW c \in Calls, made[c].op = "start", NEW tx \in Occupying(made[c].port)
    PROVE  tx \in 0..MaxTx /\ Good(c, [at |-> "result", tx |-> tx])
  BY ExchangeAssumption DEF Occupying, NonTerminal, Good

LEMMA PrecheckQuiet ==
    ASSUME IInv, NEW c \in Calls, Precheck(c)
    PROVE  Quiet(c)
<1>1. /\ job[c].at = "precheck" /\ made[c].op = "start" /\ made[c].port \in Connectors
      /\ UNCHANGED <<stationVars, wireVars, tableVars, faultVars>>
  BY DEF Precheck, IInv, StageInv, Stage
<1>2. CASE Goto(c, "create")
  <2>1. "create" \in Stages
    BY DEF Stages
  <2>2. QED
    BY <1>1, <1>2, <2>1, GotoQuiet
<1>3. ASSUME NEW tx \in Occupying(made[c].port), Reply(c, "result", tx) PROVE Quiet(c)
  BY <1>1, <1>3, OccupyingGood, ReplyQuiet
<1>4. QED
  BY <1>2, <1>3 DEF Precheck

LEMMA CreateExistingQuiet ==
    ASSUME IInv, NEW c \in Calls, CreateExisting(c)
    PROVE  Quiet(c)
<1>1. /\ job[c].at = "create" /\ made[c].op = "start" /\ made[c].port \in Connectors
      /\ UNCHANGED <<stationVars, wireVars, tableVars, faultVars>>
  BY DEF CreateExisting, IInv, StageInv, Stage
<1>2. ASSUME NEW tx \in Occupying(made[c].port), Reply(c, "result", tx) PROVE Quiet(c)
  BY <1>1, <1>2, OccupyingGood, ReplyQuiet
<1>3. QED
  BY <1>2 DEF CreateExisting

LEMMA LookupQuiet ==
    ASSUME IInv, NEW c \in Calls, Lookup(c)
    PROVE  Quiet(c)
<1>1. /\ job[c].at = "lookup" /\ made[c].op \in {"meter", "stop"}
      /\ UNCHANGED <<stationVars, wireVars, tableVars, faultVars>>
  BY DEF Lookup, IInv, StageInv, Stage
<1>2. CASE Found(made[c].tx) = {} /\ Reply(c, "result", 0)
  <2>1. outcome[c].at # "unsent"
    BY <1>1 DEF IInv, Sent
  <2>2. ~Known(made[c].tx)
    BY <1>2 DEF Found, Known
  <2>3. made[c].tx = 0
    BY <1>1, <2>1, <2>2 DEF IInv, Asked
  <2>4. Good(c, [at |-> "result", tx |-> 0])
    BY <1>1, <2>3 DEF Good
  <2>5. QED
    BY <1>1, <1>2, <2>4, ZeroTx, ReplyQuiet
<1>3. ASSUME NEW tx \in Found(made[c].tx),
             \/ made[c].op = "meter" /\ Goto(c, "record")
             \/ made[c].op = "stop" /\ AlreadyOver(tx) /\ Reply(c, "result", 0)
             \/ made[c].op = "stop" /\ ~AlreadyOver(tx) /\ Goto(c, "check")
      PROVE  Quiet(c)
  <2>1. tx = made[c].tx /\ Known(made[c].tx) /\ "record" \in Stages /\ "check" \in Stages
    BY <1>3 DEF Found, Known, Stages
  <2>2. CASE made[c].op = "meter" /\ Goto(c, "record")
    BY <1>1, <2>1, <2>2, GotoQuiet
  <2>3. CASE made[c].op = "stop" /\ AlreadyOver(tx) /\ Reply(c, "result", 0)
    <3>1. rows[made[c].tx].ended
      BY <2>1, <2>3 DEF AlreadyOver, IInv, Ended, Known
    <3>2. Good(c, [at |-> "result", tx |-> 0])
      BY <2>3, <3>1 DEF Good
    <3>3. QED
      BY <1>1, <2>3, <3>2, ZeroTx, ReplyQuiet
  <2>4. CASE made[c].op = "stop" /\ Goto(c, "check")
    BY <1>1, <2>1, <2>4, GotoQuiet
  <2>5. QED
    BY <1>3, <2>2, <2>3, <2>4
<1>4. QED
  BY <1>2, <1>3 DEF Lookup

LEMMA RecordQuiet ==
    ASSUME IInv, NEW c \in Calls, Record(c)
    PROVE  Quiet(c)
<1>1. /\ job[c].at = "record" /\ made[c].op = "meter" /\ Known(made[c].tx)
      /\ UNCHANGED <<stationVars, wireVars, tableVars, faultVars>>
  BY DEF Record, IInv, StageInv, Stage
<1>2. CASE Goto(c, "update")
  <2>1. "update" \in Stages
    BY DEF Stages
  <2>2. QED
    BY <1>1, <1>2, <2>1, GotoQuiet
<1>3. CASE Reply(c, "result", 0)
  <2>1. Good(c, [at |-> "result", tx |-> 0])
    BY <1>1 DEF Good
  <2>2. QED
    BY <1>1, <1>3, <2>1, ZeroTx, ReplyQuiet
<1>4. QED
  BY <1>2, <1>3 DEF Record

\* updateEnergy and stopSession: either they throw or the handler moves on.
LEMMA UpdateQuiet ==
    ASSUME IInv, NEW c \in Calls, UpdateEnergy(c)
    PROVE  Throw \/ Quiet(c)
<1>1. job[c].at = "update" /\ made[c].op = "meter" /\ Known(made[c].tx) /\ "energy" \in Stages
  BY DEF UpdateEnergy, IInv, StageInv, Stage, Stages
<1>2. CASE Goto(c, "energy") /\ UNCHANGED <<stationVars, wireVars, tableVars, faultVars>>
  BY <1>1, <1>2, GotoQuiet
<1>3. QED
  BY <1>2 DEF UpdateEnergy

LEMMA StopQuiet ==
    ASSUME IInv, NEW c \in Calls, StopSession(c)
    PROVE  Throw \/ Quiet(c)
<1>1. job[c].at = "check" /\ made[c].op = "stop" /\ Known(made[c].tx) /\ "stop" \in Stages
  BY DEF StopSession, IInv, StageInv, Stage, Stages
<1>2. CASE Goto(c, "stop") /\ UNCHANGED <<stationVars, wireVars, tableVars, faultVars>>
  BY <1>1, <1>2, GotoQuiet
<1>3. QED
  BY <1>2 DEF StopSession

\* A handler that writes answers at once.
LEMMA WriteQuiet ==
    ASSUME IInv, NEW c \in Calls, Reply(c, "result", 0), job[c].at # "idle",
           UNCHANGED <<stationVars, wireVars, counter, faultVars>>,
           status' \in [Connectors -> Statuses],
           edited' \in [Connectors -> Statuses \union {None}], rows' \in [1..MaxTx -> Row],
           Grows, Ended',
           made[c].op # "start",
           made[c].op = "stop" => rows'[made[c].tx].ended
    PROVE  Quiet(c)
<1>1. /\ job' \in [Calls -> Job] /\ job'[c].at = "answer"
      /\ job'[c].answer = [at |-> "result", tx |-> 0]
      /\ \A d \in Calls \ {c} : job'[d] = job[d]
  BY ZeroTx, ReplyFacts DEF IInv
<1>2. TypeOK'
  BY <1>1 DEF IInv, TypeOK, stationVars, wireVars, faultVars
<1>3. made' = made
  BY DEF stationVars
<1>4. Stage(c)'
  BY <1>1, <1>3 DEF Stage, Good
<1>5. QED
  BY <1>1, <1>2, <1>3, <1>4 DEF Quiet, stationVars, wireVars

LEMMA StatusMapped == \A s : MapToConnectorStatus(s) \in Statuses
<1>1. SUFFICES ASSUME NEW s PROVE MapToConnectorStatus(s) \in Statuses
  OBVIOUS
<1>2. CASE s \in {"Available", "Charging", "Reserved", "Unavailable", "Faulted"}
  BY <1>2 DEF MapToConnectorStatus, Statuses
<1>3. CASE s \notin {"Available", "Charging", "Reserved", "Unavailable", "Faulted"}
  BY <1>3 DEF MapToConnectorStatus, Statuses
<1>4. QED
  BY <1>2, <1>3

LEMMA WriteStatusQuiet ==
    ASSUME IInv, NEW c \in Calls, WriteStatus(c)
    PROVE  Quiet(c)
<1>1. made[c].op = "status" /\ job[c].at # "idle" /\ Reply(c, "result", 0)
  BY DEF WriteStatus
<1>2. UNCHANGED <<stationVars, wireVars, counter, faultVars>> /\ rows' = rows
  BY DEF WriteStatus
<1>3. status' \in [Connectors -> Statuses]
  <2>1. PICK st \in Statuses : st = MapToConnectorStatus(made[c].status)
    BY StatusMapped
  <2>2. PICK k \in FindConnector(made[c].port) : status' = [status EXCEPT ![k] = st]
    BY <2>1 DEF WriteStatus
  <2>3. QED
    BY <2>1, <2>2 DEF IInv, TypeOK
<1>4. edited' \in [Connectors -> Statuses \union {None}]
  <2>1. PICK k \in FindConnector(made[c].port) : edited' = [edited EXCEPT ![k] = None]
    BY DEF WriteStatus
  <2>2. QED
    BY <2>1 DEF IInv, TypeOK
<1>5. rows' \in [1..MaxTx -> Row] /\ Grows /\ Ended'
  BY <1>2, SameRows DEF IInv, TypeOK
<1>6. QED
  BY <1>1, <1>2, <1>3, <1>4, <1>5, WriteQuiet

LEMMA WriteEnergyQuiet ==
    ASSUME IInv, NEW c \in Calls, WriteEnergy(c)
    PROVE  Quiet(c)
<1>1. /\ made[c].op = "meter" /\ job[c].at # "idle" /\ Reply(c, "result", 0)
      /\ made[c].tx \in 1..MaxTx
  BY DEF WriteEnergy, IInv, StageInv, Stage, Known
<1>2. UNCHANGED <<stationVars, wireVars, counter, faultVars, status, edited>>
  BY DEF WriteEnergy, statusVars
<1>3. /\ rows' \in [1..MaxTx -> Row]
      /\ \A tx \in 1..MaxTx : /\ rows'[tx].port = rows[tx].port
                              /\ rows'[tx].status = "over" => rows[tx].status = "over"
                              /\ rows'[tx].ended = rows[tx].ended
  <2> DEFINE t == made[c].tx
             st == Refreshed(rows[t].status)
             row == [rows[t] EXCEPT !.energy = made[c].reading, !.status = st]
  <2>1. rows \in [1..MaxTx -> Row] /\ rows[t] \in Row /\ made[c].reading \in 0..MaxMeter
    BY <1>1 DEF IInv, TypeOK, Request
  <2>2. /\ st \in {"live", "expired", "over"}
        /\ st = "over" => rows[t].status = "over"
    BY <2>1 DEF Row, Refreshed
  <2>3. rows' = [rows EXCEPT ![t] = row]
    BY <1>1, <2>1 DEF WriteEnergy
  <2> HIDE DEF st
  <2>4. row \in Row /\ row.port = rows[t].port /\ row.status = st /\ row.ended = rows[t].ended
    BY <2>1, <2>2 DEF Row
  <2> HIDE DEF row
  <2>5. QED
    BY <1>1, <2>1, <2>2, <2>3, <2>4
<1>4. Grows /\ Ended'
  BY <1>3 DEF IInv, Grows, Ended
<1>5. /\ status' \in [Connectors -> Statuses]
      /\ edited' \in [Connectors -> Statuses \union {None}]
  BY <1>2 DEF IInv, TypeOK
<1>6. QED
  BY <1>1, <1>2, <1>3, <1>4, <1>5, WriteQuiet

LEMMA GainFacts ==
    ASSUME NEW from \in 0..MaxMeter, NEW to \in 0..MaxMeter
    PROVE  Gain(from, to) \in 0..MaxMeter
  BY ExchangeAssumption DEF Gain

LEMMA WriteStopQuiet ==
    ASSUME IInv, NEW c \in Calls, WriteStop(c)
    PROVE  Quiet(c)
<1>1. /\ made[c].op = "stop" /\ job[c].at # "idle" /\ Reply(c, "result", 0)
      /\ made[c].tx \in 1..MaxTx
  BY DEF WriteStop, IInv, StageInv, Stage, Known
<1>2. UNCHANGED <<stationVars, wireVars, counter, faultVars, status, edited>>
  BY DEF WriteStop, statusVars
<1>3. /\ rows' \in [1..MaxTx -> Row]
      /\ rows'[made[c].tx].ended
      /\ \A tx \in 1..MaxTx : /\ rows'[tx].port = rows[tx].port
                              /\ \/ rows'[tx].status = rows[tx].status /\ rows'[tx].ended = rows[tx].ended
                                 \/ rows'[tx].ended
  <2> DEFINE t == made[c].tx
             gain == Gain(rows[t].start, made[c].reading)
             row == [rows[t] EXCEPT !.status = "over", !.ended = TRUE, !.energy = gain]
  <2>1. rows \in [1..MaxTx -> Row] /\ rows[t] \in Row /\ made[c].reading \in 0..MaxMeter
    BY <1>1 DEF IInv, TypeOK, Request
  <2>2. gain \in 0..MaxMeter
    BY <2>1, GainFacts DEF Row
  <2>3. rows' = [rows EXCEPT ![t] = row]
    BY <1>1, <2>1 DEF WriteStop
  <2> HIDE DEF gain
  <2>4. row \in Row /\ row.port = rows[t].port /\ row.ended
    BY <2>1, <2>2 DEF Row
  <2> HIDE DEF row
  <2>5. QED
    BY <1>1, <2>1, <2>3, <2>4
<1>4. Grows /\ Ended'
  BY <1>3 DEF IInv, Grows, Ended
<1>5. /\ status' \in [Connectors -> Statuses]
      /\ edited' \in [Connectors -> Statuses \union {None}]
  BY <1>2 DEF IInv, TypeOK
<1>6. QED
  BY <1>1, <1>2, <1>3, <1>4, <1>5, WriteQuiet

-----------------------------------------------------------------------------
(* The steps of the others.                                                *)

\* A step that keeps the tables and the calls, and whose new handlers, frames, outcomes
\* and calls are good.
LEMMA OtherStep ==
    ASSUME IInv, TypeOK', Grows, Ended', \A c \in Calls : Stays(c),
           \A c \in Calls : \/ job'[c].at = "idle"
                            \/ job'[c].at = job[c].at /\ job'[c].answer = job[c].answer
                            \/ Stage(c)' /\ outcome[c].at # "unsent",
           \A i \in 1..Len(up') : outcome'[up'[i]].at # "unsent",
           \A i \in 1..Len(down') :
              \/ \E j \in 1..Len(down) : down'[i] = down[j]
              \/ outcome'[down'[i].call].at # "unsent" /\ Good(down[i].call, down[i].answer)',
           \A c \in Calls : outcome'[c] = outcome[c] \/ Good(c, outcome[c])',
           \A c \in Calls :
              outcome[c].at # "unsent" \/ outcome'[c].at = "unsent"
                \/ (made'[c].op \in {"meter", "stop"} /\ made'[c].tx # 0 => Known(made[c].tx)')
    PROVE  IInv'
<1>1. ASSUME NEW j \in 1..Len(down)
      PROVE  /\ down[j] \in Frame
             /\ outcome[down[j].call].at # "unsent" /\ Good(down[j].call, down[j].answer)
             /\ outcome'[down[j].call].at # "unsent"
  <2>1. down[j] \in Frame
    BY ElementOfSeq DEF IInv, TypeOK
  <2>2. down[j].call \in Calls
    BY <2>1 DEF Frame
  <2>3. outcome[down[j].call].at # "unsent" /\ Good(down[j].call, down[j].answer)
    BY DEF IInv, Sent, Answers
  <2>4. QED
    BY <2>1, <2>2, <2>3 DEF Stays
<1>2. Sent'
  <2>1. ASSUME NEW c \in Calls, job'[c].at # "idle" PROVE outcome'[c].at # "unsent"
    BY <2>1 DEF IInv, Sent, Stays
  <2>2. ASSUME NEW i \in 1..Len(down') PROVE outcome'[down'[i].call].at # "unsent"
    BY <1>1
  <2>3. QED
    BY <2>1, <2>2 DEF Sent
<1>3. Asked'
  <2>1. SUFFICES ASSUME NEW d \in Calls, outcome'[d].at # "unsent",
                        made'[d].op \in {"meter", "stop"}, made'[d].tx # 0
                 PROVE  Known(made[d].tx)'
    BY DEF Asked
  <2>2. CASE outcome[d].at # "unsent"
    BY <2>1, <2>2, AskedStays
  <2>3. CASE outcome[d].at = "unsent"
    BY <2>1, <2>3
  <2>4. QED
    BY <2>2, <2>3
<1>4. StageInv'
  <2>1. SUFFICES ASSUME NEW d \in Calls PROVE Stage(d)'
    BY DEF StageInv
  <2>2. CASE job'[d].at = "idle"
    BY <2>2 DEF Stage
  <2>3. CASE job'[d].at = job[d].at /\ job'[d].answer = job[d].answer
    BY <2>3, StageStays
  <2>4. QED
    BY <2>2, <2>3
<1>5. Answers'
  <2>1. \A d \in Calls : Good(d, outcome[d])'
    BY OutcomesStay
  <2>2. ASSUME NEW i \in 1..Len(down') PROVE Good(down[i].call, down[i].answer)'
    <3>1. CASE \E j \in 1..Len(down) : down'[i] = down[j]
      <4>1. PICK j \in 1..Len(down) : down'[i] = down[j]
        BY <3>1
      <4>2. PICK f \in Frame : f = down[j]
        BY <1>1
      <4>3. Good(f.call, f.answer)'
        <5>1. outcome[f.call].at # "unsent" /\ Good(f.call, f.answer)
          BY <1>1, <4>2
        <5>2. QED
          BY <5>1, FramesStay
      <4>4. QED
        BY <4>1, <4>2, <4>3 DEF Good
    <3>2. QED
      BY <3>1
  <2>3. QED
    BY <2>1, <2>2 DEF Answers
<1>6. QED
  BY <1>2, <1>3, <1>4, <1>5 DEF IInv

\* A step that leaves the station, the frames and the handlers alone.
LEMMA TableStep ==
    ASSUME IInv, TypeOK', Grows, Ended', made' = made, outcome' = outcome, up' = up,
           down' = down, job' = job
    PROVE  IInv'
<1>1. \A c \in Calls : Stays(c)
  BY DEF Stays
<1>2. \A i \in 1..Len(up') : outcome'[up'[i]].at # "unsent"
  BY DEF IInv, Sent
<1>3. QED
  BY <1>1, <1>2, OtherStep

\* The process is gone and the tables are as they were.
LEMMA GoneStep ==
    ASSUME IInv, TypeOK', rows' = rows, made' = made, outcome' = outcome,
           \A c \in Calls : job'[c].at = "idle", Len(up') = 0, Len(down') = 0
    PROVE  IInv'
<1>1. \A c \in Calls : Stays(c)
  BY DEF Stays
<1>2. QED
  BY <1>1, SameRows, OtherStep

LEMMA ThrowStep ==
    ASSUME IInv, Throw
    PROVE  IInv'
<1>1. TypeOK
  BY DEF IInv
<1>2. QED
  BY <1>1, ThrowFacts, GoneStep

LEMMA RestartStep ==
    ASSUME IInv, Restart
    PROVE  IInv'
<1>1. TypeOK
  BY DEF IInv
<1>2. QED
  BY <1>1, RestartFacts, GoneStep

LEMMA InsertStep ==
    ASSUME IInv, NEW c \in Calls, NEW found, CreateInserts(c, found)
    PROVE  IInv'
<1>1. made[c].op = "start" /\ made[c].port \in Connectors /\ job[c].at = "create"
  BY DEF CreateInserts, IInv, StageInv, Stage
<1>2. UNCHANGED <<stationVars, wireVars, statusVars, faultVars>>
  BY DEF CreateInserts
<1> DEFINE n == counter + 1
<1>3. /\ n \in 1..MaxTx /\ n \in 0..MaxTx /\ counter' = n
      /\ rows' \in [1..MaxTx -> Row]
      /\ rows[n].port = None /\ rows'[n].port = made[c].port /\ rows'[n].status = "live"
      /\ \A tx \in (1..MaxTx) \ {n} :
            /\ rows'[tx].port = rows[tx].port
            /\ \/ rows'[tx].status = rows[tx].status /\ rows'[tx].ended = rows[tx].ended
               \/ rows'[tx].status = "over" /\ rows'[tx].ended
      /\ job' \in [Calls -> Job]
      /\ job'[c].at = "answer" /\ job'[c].answer = [at |-> "result", tx |-> n]
      /\ \A d \in Calls \ {c} : job'[d].at = job[d].at /\ job'[d].answer = job[d].answer
  BY <1>1, InsertFacts, ExchangeAssumption DEF IInv
<1> HIDE DEF n
<1>4. TypeOK'
  BY <1>2, <1>3 DEF IInv, TypeOK, stationVars, wireVars, statusVars, faultVars
<1>5. Ended'
  BY <1>3 DEF IInv, Ended
<1>6. Grows
  <2>1. ASSUME NEW tx \in 1..MaxTx, rows[tx].port # None PROVE rows'[tx].port = rows[tx].port
    BY <1>3, <2>1
  <2>2. ASSUME NEW tx \in 1..MaxTx, rows[tx].port # None, rows[tx].ended PROVE rows'[tx].ended
    BY <1>3, <2>2
  <2>3. QED
    BY <2>1, <2>2 DEF Grows
<1>7. made' = made /\ outcome' = outcome /\ up' = up /\ down' = down /\ \A d \in Calls : Stays(d)
  BY <1>2 DEF stationVars, wireVars, Stays
<1>8. Stage(c)' /\ outcome[c].at # "unsent"
  <2>1. outcome[c].at # "unsent"
    BY <1>1 DEF IInv, Sent
  <2>2. Good(c, job[c].answer)'
    BY <1>1, <1>3, <1>7 DEF Good
  <2>3. QED
    BY <1>3, <2>1, <2>2 DEF Stage
<1>9. \A i \in 1..Len(up') : outcome'[up'[i]].at # "unsent"
  BY <1>7 DEF IInv, Sent
<1>10. QED
  BY <1>3, <1>4, <1>5, <1>6, <1>7, <1>8, <1>9, OtherStep

LEMMA AnswerStep ==
    ASSUME IInv, NEW c \in Calls, Answer(c)
    PROVE  IInv'
<1>1. job[c].at = "answer" /\ outcome[c].at # "unsent" /\ Good(c, job[c].answer) /\ TypeOK
  BY DEF Answer, IInv, Sent, StageInv, Stage
<1>2. /\ job' \in [Calls -> Job]
      /\ job'[c].at = "idle"
      /\ \A d \in Calls \ {c} : job'[d] = job[d]
      /\ down' \in Seq(Frame)
      /\ \A i \in 1..Len(down') :
            \/ i \in 1..Len(down) /\ down'[i] = down[i]
            \/ down'[i].call = c /\ down'[i].answer = job[c].answer
  BY <1>1, AnswerFacts
<1>3. UNCHANGED <<stationVars, open, socket, version, up, tableVars, faultVars>>
  BY DEF Answer
<1>4. TypeOK'
  BY <1>1, <1>2, <1>3 DEF TypeOK, stationVars, tableVars, statusVars, faultVars
<1>5. /\ rows' = rows /\ made' = made /\ outcome' = outcome /\ up' = up
      /\ \A d \in Calls : Stays(d)
  BY <1>3 DEF stationVars, tableVars, statusVars, Stays
<1>6. Good(c, job[c].answer) => \A a : a = job[c].answer => Good(c, a)'
  BY <1>5 DEF Good
<1>7. ASSUME NEW i \in 1..Len(down')
      PROVE  \/ \E j \in 1..Len(down) : down'[i] = down[j]
             \/ outcome'[down'[i].call].at # "unsent" /\ Good(down[i].call, down[i].answer)'
  <2>1. CASE i \in 1..Len(down) /\ down'[i] = down[i]
    BY <2>1
  <2>2. CASE down'[i].call = c /\ down'[i].answer = job[c].answer
    BY <1>1, <1>5, <2>2 DEF Good
  <2>3. QED
    BY <1>2, <2>1, <2>2
<1>8. \A i \in 1..Len(up') : outcome'[up'[i]].at # "unsent"
  BY <1>5 DEF IInv, Sent
<1>9. QED
  BY <1>2, <1>4, <1>5, <1>7, <1>8, SameRows, OtherStep

LEMMA ReceiveStep ==
    ASSUME IInv, Receive
    PROVE  IInv'
<1>0. PICK c : c = up[1]
  OBVIOUS
<1>1. TypeOK
  BY DEF IInv
<1>2. /\ Len(up) \in Nat \ {0}
      /\ c \in Calls
      /\ job' \in [Calls -> Job]
      /\ job'[c].at \in {Route(made[c].op), "answer"}
      /\ job'[c].at = "answer" =>
            job'[c].answer.tx = 0 /\ job'[c].answer.at \in {"result", "error"}
      /\ job'[c].at = "answer" /\ job'[c].answer.at = "result" =>
            made[c].op \notin {"start", "meter", "stop", "status"}
      /\ \A d \in Calls \ {c} : job'[d] = job[d]
      /\ up' \in Seq(Calls)
      /\ Len(up') = Len(up) - 1
      /\ \A i \in 1..Len(up') : up'[i] = up[i + 1]
  BY <1>0, <1>1, ReceiveFacts
<1>3. UNCHANGED <<stationVars, open, socket, version, down, tableVars, faultVars>>
  BY DEF Receive
<1>4. TypeOK'
  BY <1>1, <1>2, <1>3 DEF TypeOK, stationVars, tableVars, statusVars, faultVars
<1>5. /\ rows' = rows /\ made' = made /\ outcome' = outcome /\ down' = down
      /\ \A d \in Calls : Stays(d)
  BY <1>3 DEF stationVars, tableVars, statusVars, Stays
<1>6. outcome[c].at # "unsent"
  BY <1>0, <1>2 DEF IInv, Sent
<1>7. \A i \in 1..Len(up') : outcome'[up'[i]].at # "unsent"
  <2>1. ASSUME NEW i \in 1..Len(up') PROVE i + 1 \in 1..Len(up) /\ up'[i] = up[i + 1]
    BY <1>2
  <2>2. QED
    BY <1>5, <2>1 DEF IInv, Sent
<1>8. Stage(c)'
  <2>1. made[c].op \in Ops
    BY <1>1, <1>2, PortFacts
  <2>2. CASE job'[c].at = Route(made[c].op) /\ job'[c].at # "answer"
    <3>1. /\ job'[c].at \in {"authorize", "lookup", "report"}
          /\ job'[c].at = "authorize" => made[c].op = "start"
          /\ job'[c].at = "lookup" => made[c].op \in {"meter", "stop"}
          /\ job'[c].at = "report" => made[c].op = "status"
      BY <2>1, <2>2, RouteFacts
    <3>2. \A d \in Calls : made'[d] = made[d]
      BY <1>5
    <3>3. QED
      BY <1>2, <3>1, <3>2 DEF Stage
  <2>3. CASE job'[c].at = "answer"
    <3>1. Good(c, job[c].answer)'
      BY <1>2, <1>5, <2>3 DEF Good
    <3>2. QED
      BY <2>3, <3>1 DEF Stage
  <2>4. QED
    BY <1>2, <2>2, <2>3
<1>9. QED
  BY <1>2, <1>4, <1>5, <1>6, <1>7, <1>8, SameRows, OtherStep

LEMMA ReceiveAnswerStep ==
    ASSUME IInv, ReceiveAnswer
    PROVE  IInv'
<1>1. TypeOK
  BY DEF IInv
<1>2. /\ Len(down) \in Nat \ {0}
      /\ down[1] \in Frame
      /\ outcome' \in [Calls -> Outcome]
      /\ \A c \in Calls : \/ outcome'[c] = outcome[c]
                          \/ /\ c = down[1].call /\ outcome[c].at = "waiting"
                             /\ outcome'[c] = down[1].answer
      /\ down' \in Seq(Frame)
      /\ Len(down') = Len(down) - 1
      /\ \A i \in 1..Len(down') : down'[i] = down[i + 1]
  BY <1>1, ReceiveAnswerFacts
<1>3. UNCHANGED <<made, latest, open, socket, version, up, job, tableVars, faultVars>>
  BY DEF ReceiveAnswer
<1>4. TypeOK'
  BY <1>1, <1>2, <1>3 DEF TypeOK, tableVars, statusVars, faultVars
<1>5. /\ rows' = rows /\ made' = made /\ up' = up /\ job' = job
  BY <1>3 DEF tableVars, statusVars
<1>6. 1 \in 1..Len(down) /\ \A i \in 1..Len(down') : i + 1 \in 1..Len(down)
  BY <1>2
<1>7. PICK f : f = down[1]
  OBVIOUS
<1>8. f \in Frame /\ Good(f.call, f.answer)
  BY <1>2, <1>6, <1>7 DEF IInv, Answers
<1>9. \A d \in Calls : Stays(d)
  <2>1. f.answer.at # "unsent"
    BY <1>8 DEF Frame, Answered
  <2>2. QED
    BY <1>2, <1>5, <1>7, <2>1 DEF Stays
<1>10. \A d \in Calls : outcome'[d] = outcome[d] \/ Good(d, outcome[d])'
  <2>1. SUFFICES ASSUME NEW d \in Calls, d = f.call, outcome'[d] = f.answer
                 PROVE  Good(d, outcome[d])'
    BY <1>2, <1>7
  <2>2. QED
    BY <1>5, <1>8, <2>1 DEF Good
<1>11. \A i \in 1..Len(up') : outcome'[up'[i]].at # "unsent"
  <2>1. ASSUME NEW i \in 1..Len(up) PROVE up[i] \in Calls /\ outcome[up[i]].at # "unsent"
    BY <1>1, ElementOfSeq DEF IInv, Sent, TypeOK
  <2>2. QED
    BY <1>5, <1>9, <2>1 DEF Stays
<1>12. \A d \in Calls : outcome[d].at # "unsent" \/ outcome'[d].at = "unsent"
  BY <1>2
<1>13. \A i \in 1..Len(down') : \E j \in 1..Len(down) : down'[i] = down[j]
  BY <1>2, <1>6
<1>14. QED
  BY <1>4, <1>5, <1>9, <1>10, <1>11, <1>12, <1>13, SameRows, OtherStep

LEMMA ConnectStep ==
    ASSUME IInv, NEW v \in Versions, Connect(v)
    PROVE  IInv'
<1>1. UNCHANGED <<stationVars, up, down, job, tableVars, faultVars>>
  BY DEF Connect
<1>2. TypeOK'
  <2>1. open' \in BOOLEAN /\ version' \in {"OCPP1_6J", "OCPP2_0_1"}
    BY ExchangeAssumption DEF Connect
  <2>2. socket' \in 0..MaxConnections
    BY ExchangeAssumption DEF Connect, IInv, TypeOK
  <2>3. QED
    BY <1>1, <2>1, <2>2 DEF IInv, TypeOK, stationVars, tableVars, statusVars, faultVars
<1>3. QED
  BY <1>1, <1>2, SameRows, TableStep DEF stationVars, tableVars, statusVars

LEMMA DisconnectStep ==
    ASSUME IInv, Disconnect
    PROVE  IInv'
<1>1. UNCHANGED <<stationVars, socket, version, job, tableVars, restarts, exits>>
  BY DEF Disconnect
<1>2. open' = FALSE /\ up' = <<>> /\ down' = <<>> /\ suspending' = suspending \union Live
  BY DEF Disconnect, LoseSocket
<1>3. up' \in Seq(Calls) /\ down' \in Seq(Frame) /\ Len(up') = 0 /\ Len(down') = 0
  BY <1>2, EmptySeq
<1>4. suspending' \subseteq 1..MaxTx
  BY <1>2 DEF IInv, TypeOK, Live
<1>5. TypeOK'
  BY <1>1, <1>2, <1>3, <1>4 DEF IInv, TypeOK, stationVars, tableVars, statusVars
<1>6. rows' = rows /\ made' = made /\ outcome' = outcome /\ job' = job /\ \A c \in Calls : Stays(c)
  BY <1>1 DEF stationVars, tableVars, statusVars, Stays
<1>7. QED
  BY <1>3, <1>5, <1>6, SameRows, OtherStep

LEMMA CallTimeoutStep ==
    ASSUME IInv, NEW c \in Calls, CallTimeout(c)
    PROVE  IInv'
<1>1. UNCHANGED <<made, latest, wireVars, job, tableVars, faultVars>>
  BY DEF CallTimeout
<1> DEFINE failed == [at |-> "failed", tx |-> 0]
<1>2. failed \in Outcome /\ outcome' = [outcome EXCEPT ![c] = failed] /\ outcome[c].at = "waiting"
  BY ExchangeAssumption DEF CallTimeout, Outcome
<1>3. /\ outcome' \in [Calls -> Outcome] /\ outcome'[c].at = "failed"
      /\ \A d \in Calls \ {c} : outcome'[d] = outcome[d]
  BY <1>2 DEF IInv, TypeOK
<1>4. TypeOK'
  BY <1>1, <1>3 DEF IInv, TypeOK, wireVars, tableVars, statusVars, faultVars
<1>5. /\ rows' = rows /\ made' = made /\ up' = up /\ down' = down /\ job' = job
      /\ \A d \in Calls : Stays(d)
  BY <1>1, <1>3 DEF wireVars, tableVars, statusVars, Stays
<1>6. \A d \in Calls : outcome'[d] = outcome[d] \/ Good(d, outcome[d])'
  BY <1>3 DEF Good
<1>7. \A i \in 1..Len(up') : outcome'[up'[i]].at # "unsent"
  <2>1. ASSUME NEW i \in 1..Len(up) PROVE up[i] \in Calls /\ outcome[up[i]].at # "unsent"
    BY ElementOfSeq DEF IInv, Sent, TypeOK
  <2>2. QED
    BY <1>5, <2>1 DEF Stays
<1>8. \A d \in Calls : outcome[d].at # "unsent" \/ outcome'[d].at = "unsent"
  BY <1>2, <1>3
<1>9. QED
  BY <1>4, <1>5, <1>6, <1>7, <1>8, SameRows, OtherStep

\* A transactionId the station has been told is that of a session.
LEMMA ToldKnown ==
    ASSUME IInv, NEW tx \in Told, tx # 0
    PROVE  Known(tx)
<1>1. PICK d \in Calls : outcome[d].at = "result" /\ made[d].op = "start" /\ outcome[d].tx = tx
  BY DEF Told
<1>2. tx \in 1..MaxTx
  BY <1>1, ExchangeAssumption DEF IInv, TypeOK, Outcome
<1>3. rows[tx].port = made[d].port /\ made[d].port # None
  BY <1>1, PortFacts DEF IInv, Answers, Good
<1>4. QED
  BY <1>2, <1>3 DEF Known

LEMMA SendStep ==
    ASSUME IInv, NEW c \in Calls, NEW r \in Requests, Send(c, r)
    PROVE  IInv'
<1>1. UNCHANGED <<open, socket, version, down, job, tableVars, faultVars>>
  BY DEF Send
<1>2. r \in Request /\ outcome[c].at = "unsent"
  BY ExchangeAssumption DEF Send
<1> DEFINE sent == [at |-> "waiting", tx |-> 0]
<1>3. sent \in Outcome /\ sent.at = "waiting"
  BY ExchangeAssumption DEF Outcome
<1>4. made' = [made EXCEPT ![c] = r] /\ outcome' = [outcome EXCEPT ![c] = sent] /\ up' = Append(up, c)
  BY DEF Send
<1> HIDE DEF sent
<1>5. /\ made' \in [Calls -> Request] /\ outcome' \in [Calls -> Outcome]
      /\ made'[c] = r /\ outcome'[c].at = "waiting"
      /\ \A d \in Calls \ {c} : made'[d] = made[d] /\ outcome'[d] = outcome[d]
  BY <1>2, <1>3, <1>4 DEF IInv, TypeOK
<1>6. /\ up' \in Seq(Calls)
      /\ \A i \in 1..Len(up') : up'[i] = c \/ (i \in 1..Len(up) /\ up'[i] = up[i])
  <2>1. up \in Seq(Calls)
    BY DEF IInv, TypeOK
  <2>2. QED
    BY <1>4, <2>1, AppendProperties, LenProperties
<1>7. latest' \in [Connectors -> [call : Calls \union {None}, alone : BOOLEAN]]
  <2>1. NoneUnderWay(r.port) \in BOOLEAN
    BY DEF NoneUnderWay
  <2>2. CASE latest' = [latest EXCEPT ![r.port] = [call |-> c, alone |-> NoneUnderWay(r.port)]]
    BY <2>1, <2>2 DEF IInv, TypeOK
  <2>3. CASE latest' = latest
    BY <2>3 DEF IInv, TypeOK
  <2>4. QED
    BY <2>2, <2>3 DEF Send
<1>8. TypeOK'
  BY <1>1, <1>5, <1>6, <1>7 DEF IInv, TypeOK, tableVars, statusVars, faultVars
<1>9. /\ rows' = rows /\ down' = down /\ job' = job
      /\ \A d \in Calls : Stays(d)
  BY <1>1, <1>2, <1>5 DEF tableVars, statusVars, Stays
<1>10. \A d \in Calls : outcome'[d] = outcome[d] \/ Good(d, outcome[d])'
  BY <1>5 DEF Good
<1>11. \A i \in 1..Len(up') : outcome'[up'[i]].at # "unsent"
  <2>1. ASSUME NEW i \in 1..Len(up) PROVE up[i] \in Calls /\ outcome[up[i]].at # "unsent"
    BY ElementOfSeq DEF IInv, Sent, TypeOK
  <2>2. QED
    BY <1>5, <1>6, <1>9, <2>1 DEF Stays
<1>12. r.op \in {"meter", "stop"} /\ r.tx # 0 => Known(r.tx) /\ rows'[r.tx] = rows[r.tx]
  BY <1>9, ToldKnown DEF Send
<1>13. \A d \in Calls :
          outcome[d].at # "unsent" \/ outcome'[d].at = "unsent"
            \/ (made'[d].op \in {"meter", "stop"} /\ made'[d].tx # 0 => Known(made[d].tx)')
  <2>1. made'[c].op \in {"meter", "stop"} /\ made'[c].tx # 0 => Known(made[c].tx)'
    BY <1>5, <1>12 DEF Known
  <2>2. QED
    BY <1>5, <2>1
<1>14. QED
  BY <1>8, <1>9, <1>10, <1>11, <1>13, SameRows, OtherStep

\* What the coordinator writes keeps the sessions and their end.
LEMMA RowStep ==
    ASSUME IInv, NEW tx \in 1..MaxTx, NEW st \in {"live", "expired"},
           rows' = [rows EXCEPT ![tx].status = st],
           suspending' \subseteq 1..MaxTx,
           UNCHANGED <<stationVars, wireVars, job, counter, statusVars, restarts, exits>>
    PROVE  IInv'
<1> DEFINE row == [rows[tx] EXCEPT !.status = st]
<1>1. rows \in [1..MaxTx -> Row] /\ rows[tx] \in Row
  BY DEF IInv, TypeOK
<1>2. rows' = [rows EXCEPT ![tx] = row]
  BY <1>1
<1>3. /\ row \in Row /\ row.port = rows[tx].port /\ row.ended = rows[tx].ended
      /\ row.status # "over"
  BY <1>1 DEF Row
<1> HIDE DEF row
<1>4. /\ rows' \in [1..MaxTx -> Row] /\ rows'[tx] = row
      /\ \A t \in (1..MaxTx) \ {tx} : rows'[t] = rows[t]
  BY <1>1, <1>2, <1>3
<1>5. Grows
  BY <1>3, <1>4 DEF Grows
<1>6. Ended'
  BY <1>3, <1>4 DEF IInv, Ended
<1>7. TypeOK'
  BY <1>4 DEF IInv, TypeOK, stationVars, wireVars, statusVars
<1>8. QED
  BY <1>5, <1>6, <1>7, TableStep DEF stationVars, wireVars

\* An operator's edit is nothing to calls and sessions.
LEMMA UpdateConnectorStep ==
    ASSUME IInv, NEW k \in Connectors, NEW s \in Edits, UpdateConnector(k, s)
    PROVE  IInv'
<1>1. UNCHANGED <<stationVars, wireVars, job, rows, counter, faultVars>>
  BY DEF UpdateConnector
<1>2. s \in Statuses
  BY ExchangeAssumption
<1>3. /\ status' \in [Connectors -> Statuses]
      /\ edited' \in [Connectors -> Statuses \union {None}]
  BY <1>2 DEF UpdateConnector, IInv, TypeOK
<1>4. TypeOK'
  BY <1>1, <1>3 DEF IInv, TypeOK, stationVars, wireVars, faultVars
<1>5. QED
  BY <1>1, <1>4, SameRows, TableStep DEF stationVars, wireVars

LEMMA SuspendStep ==
    ASSUME IInv, NEW tx \in 1..MaxTx, Suspend(tx)
    PROVE  IInv'
<1>1. rows' = [rows EXCEPT ![tx].status = "live"]
  BY DEF Suspend
<1>2. suspending' \subseteq 1..MaxTx
  BY DEF Suspend, IInv, TypeOK
<1>3. UNCHANGED <<stationVars, wireVars, job, counter, statusVars, restarts, exits>>
  BY DEF Suspend
<1>4. QED
  BY <1>1, <1>2, <1>3, RowStep

LEMMA SuspendNotStep ==
    ASSUME IInv, NEW tx \in 1..MaxTx, SuspendNot(tx)
    PROVE  IInv'
<1>1. UNCHANGED <<stationVars, wireVars, job, tableVars, restarts, exits>>
  BY DEF SuspendNot
<1>2. suspending' \subseteq 1..MaxTx
  BY DEF SuspendNot, IInv, TypeOK
<1>3. TypeOK'
  BY <1>1, <1>2 DEF IInv, TypeOK, stationVars, wireVars, tableVars, statusVars
<1>4. QED
  BY <1>1, <1>3, SameRows, TableStep DEF stationVars, wireVars, tableVars, statusVars

LEMMA ExpireStep ==
    ASSUME IInv, NEW tx \in 1..MaxTx, Expire(tx)
    PROVE  IInv'
<1>1. rows' = [rows EXCEPT ![tx].status = "expired"]
  BY DEF Expire
<1>2. UNCHANGED <<stationVars, wireVars, job, counter, statusVars, restarts, exits>>
  BY DEF Expire, faultVars
<1>3. suspending' \subseteq 1..MaxTx
  BY DEF Expire, faultVars, IInv, TypeOK
<1>4. QED
  BY <1>1, <1>2, <1>3, RowStep

-----------------------------------------------------------------------------
(* The theorems.                                                           *)

LEMMA InitIInv == Init => IInv
<1> SUFFICES ASSUME Init PROVE IInv
  OBVIOUS
<1>1. /\ \A c \in Calls : made[c] = NoRequest /\ outcome[c].at = "unsent" /\ job[c].at = "idle"
      /\ Len(up) = 0 /\ Len(down) = 0
      /\ \A tx \in 1..MaxTx : rows[tx].port = None
  BY Constants DEF Init
<1>2. TypeOK
  <2>1. made \in [Calls -> Request] /\ job \in [Calls -> Job] /\ rows \in [1..MaxTx -> Row]
    BY Constants DEF Init
  <2>2. outcome \in [Calls -> Outcome]
    BY ExchangeAssumption DEF Init, Outcome
  <2>3. open \in BOOLEAN /\ version \in {"OCPP1_6J", "OCPP2_0_1"} /\ exits \in BOOLEAN
    BY DEF Init
  <2>4. up \in Seq(Calls) /\ down \in Seq(Frame)
    BY EmptySeq DEF Init
  <2>5. counter \in 0..MaxTx /\ status \in [Connectors -> Statuses]
    <3>1. status = [k \in Connectors |-> Initial] /\ counter \in Starts
      BY DEF Init
    <3>2. QED
      BY <3>1, ExchangeAssumption DEF Starts
  <2>9. edited \in [Connectors -> Statuses \union {None}]
    BY ExchangeAssumption DEF Init
  <2>6. suspending \subseteq 1..MaxTx /\ restarts \in 0..MaxRestarts /\ socket \in 0..MaxConnections
    <3>1. suspending = {} /\ restarts = 0 /\ socket = 0
      BY DEF Init
    <3>2. QED
      BY <3>1, ExchangeAssumption
  <2>7. latest \in [Connectors -> [call : Calls \union {None}, alone : BOOLEAN]]
    <3>1. latest = [k \in Connectors |-> [call |-> None, alone |-> TRUE]]
      BY DEF Init
    <3>2. QED
      BY <3>1
  <2>8. QED
    BY <2>1, <2>2, <2>3, <2>4, <2>5, <2>6, <2>7, <2>9 DEF TypeOK
<1>3. Sent /\ Asked /\ StageInv /\ Ended /\ Answers
  BY <1>1 DEF Sent, Asked, StageInv, Stage, Ended, Answers, Good
<1>4. QED
  BY <1>2, <1>3 DEF IInv

LEMMA HandleStep ==
    ASSUME IInv, NEW c \in Calls, Handle(c)
    PROVE  IInv'
<1>1. CASE Report(c) \/ WriteStatus(c)
  BY <1>1, ReportQuiet, WriteStatusQuiet, QuietStep
<1>2. CASE Authorize(c) \/ Precheck(c) \/ CreateExisting(c)
  BY <1>2, AuthorizeQuiet, PrecheckQuiet, CreateExistingQuiet, QuietStep
<1>3. CASE \E found \in SUBSET (1..MaxTx) : CreateInserts(c, found)
  BY <1>3, InsertStep
<1>4. CASE CreateThrows(c)
  BY <1>4, ThrowStep DEF CreateThrows
<1>5. CASE Lookup(c) \/ Record(c)
  BY <1>5, LookupQuiet, RecordQuiet, QuietStep
<1>6. CASE UpdateEnergy(c)
  BY <1>6, UpdateQuiet, ThrowStep, QuietStep
<1>7. CASE WriteEnergy(c) \/ WriteStop(c)
  BY <1>7, WriteEnergyQuiet, WriteStopQuiet, QuietStep
<1>8. CASE StopSession(c)
  BY <1>8, StopQuiet, ThrowStep, QuietStep
<1>9. CASE Answer(c)
  BY <1>9, AnswerStep
<1>10. QED
  BY <1>1, <1>2, <1>3, <1>4, <1>5, <1>6, <1>7, <1>8, <1>9 DEF Handle

LEMMA NextIInv == IInv /\ [Next]_vars => IInv'
<1> SUFFICES ASSUME IInv, [Next]_vars PROVE IInv'
  OBVIOUS
<1>1. CASE \E v \in Versions : Connect(v)
  BY <1>1, ConnectStep
<1>2. CASE Disconnect \/ Receive \/ ReceiveAnswer \/ Restart
  BY <1>2, DisconnectStep, ReceiveStep, ReceiveAnswerStep, RestartStep
<1>3. CASE \E c \in Calls : \E r \in Requests : Send(c, r)
  BY <1>3, SendStep
<1>4. CASE \E c \in Calls : CallTimeout(c) \/ Handle(c)
  BY <1>4, CallTimeoutStep, HandleStep
<1>5. CASE \E tx \in 1..MaxTx : Suspend(tx) \/ SuspendNot(tx) \/ Expire(tx)
  BY <1>5, SuspendStep, SuspendNotStep, ExpireStep
<1>6. CASE UNCHANGED vars
  <2>1. UNCHANGED <<stationVars, wireVars, job, tableVars, faultVars>>
    BY <1>6 DEF vars
  <2>2. TypeOK'
    BY <2>1 DEF IInv, TypeOK, stationVars, wireVars, tableVars, statusVars, faultVars
  <2>3. QED
    BY <2>1, <2>2, SameRows, TableStep DEF stationVars, wireVars, tableVars, statusVars
<1>7. CASE \E k \in Connectors : \E s \in Edits : UpdateConnector(k, s)
  BY <1>7, UpdateConnectorStep
<1>8. QED
  BY <1>1, <1>2, <1>3, <1>4, <1>5, <1>6, <1>7 DEF Next

\* Calls, frames, handlers and rows keep their types.
THEOREM TypeCorrect == Spec => []TypeOK
<1>1. IInv => TypeOK
  BY DEF IInv
<1>2. QED
  BY <1>1, InitIInv, NextIInv, PTL DEF Spec

\* Whatever a station was told of its StartTransaction names a session on the connector
\* it asked for: TransactionStartHandler answers with a row that is never removed and
\* never moves (session-lifecycle.service.ts, the unique index of schema.prisma).
THEOREM AnsweredStartCorrect == Spec => []AnsweredStartStands
<1>1. IInv => AnsweredStartStands
  BY DEF IInv, Answers, Good, AnsweredStartStands
<1>2. QED
  BY <1>1, InitIInv, NextIInv, PTL DEF Spec

\* A StopTransaction that was answered has ended its session: TransactionEndHandler
\* answers after stopSession, or for a session that is over already.
THEOREM AnsweredStopCorrect == Spec => []AnsweredStopStands
<1>1. IInv => AnsweredStopStands
  BY DEF IInv, Answers, Good, AnsweredStopStands
<1>2. QED
  BY <1>1, InitIInv, NextIInv, PTL DEF Spec

-----------------------------------------------------------------------------
(* The status of a connector.                                              *)

About(c, k) == made[c].op = "status" /\ made[c].port = k

\* The station knows, or may still learn, that call c was accepted.
Claims(c) ==
    \/ job[c].at = "answer" /\ job[c].answer.at = "result"
    \/ \E i \in 1..Len(down) : down[i].call = c /\ down[i].answer.at = "result"
    \/ outcome[c].at = "result"

\* The latest notification of k, sent when no other was under way, is still the only
\* one, and is accepted by nothing but the handler that writes the status.
FollowsBy(k, c) ==
    /\ About(c, k) /\ outcome[c].at # "unsent"
    /\ \A d \in Calls \ {c} : UnderWay(d) => ~ About(d, k)
    /\ Claims(c) => status[k] = LastWritten(k, c)

Follows(k) == \A c \in Calls : latest[k] = [call |-> c, alone |-> TRUE] => FollowsBy(k, c)

FollowInv == IInv /\ \A k \in Connectors : Follows(k)

\* A step that nobody learns of, and that starts no handler that was not under way.
Discreet ==
    /\ UNCHANGED <<made, latest, status, edited>>
    /\ \A c \in Calls :
          /\ outcome[c].at # "unsent" => outcome'[c].at # "unsent"
          /\ UnderWay(c)' => UnderWay(c)
          /\ made[c].op = "status" /\ made[c].port \in Connectors => (Claims(c)' => Claims(c))

LEMMA DiscreetFollows ==
    ASSUME Discreet, NEW k \in Connectors, Follows(k)
    PROVE  Follows(k)'
<1> SUFFICES ASSUME NEW c \in Calls, latest[k] = [call |-> c, alone |-> TRUE]
             PROVE  FollowsBy(k, c)'
  BY DEF Follows, Discreet
<1>1. FollowsBy(k, c)
  BY DEF Follows
<1>2. \A d \in Calls : About(d, k)' <=> About(d, k)
  BY DEF About, Discreet
<1>3. Claims(c)' => Claims(c)
  BY <1>1 DEF FollowsBy, About, Discreet
<1>4. status' = status /\ LastWritten(k, c)' = LastWritten(k, c)
  BY DEF Discreet, LastWritten
<1>5. QED
  BY <1>1, <1>2, <1>3, <1>4 DEF FollowsBy, Discreet

\* Handler c goes on, and answers nothing, unless it is for a call of another kind.
LEMMA GoesOnDiscreet ==
    ASSUME NEW c \in Calls, job[c].at # "idle", UNCHANGED <<made, outcome, latest, up, down, status, edited>>,
           \A d \in Calls \ {c} : job'[d].at = job[d].at /\ job'[d].answer = job[d].answer,
           job'[c].at = "answer" /\ job'[c].answer.at = "result" =>
              ~ (made[c].op = "status" /\ made[c].port \in Connectors)
    PROVE  Discreet
<1> SUFFICES ASSUME NEW d \in Calls
             PROVE  /\ UnderWay(d)' => UnderWay(d)
                    /\ made[d].op = "status" /\ made[d].port \in Connectors => (Claims(d)' => Claims(d))
  BY DEF Discreet
<1>1. CASE d = c
  BY <1>1 DEF UnderWay, Claims
<1>2. CASE d # c
  BY <1>2 DEF UnderWay, Claims
<1>3. QED
  BY <1>1, <1>2

\* The process is gone: so is what was under way.
LEMMA GoneDiscreet ==
    ASSUME UNCHANGED <<made, outcome, latest, status, edited>>,
           \A c \in Calls : job'[c].at = "idle", Len(up') = 0, Len(down') = 0
    PROVE  Discreet
  BY DEF Discreet, UnderWay, Claims

LEMMA ReceiveDiscreet ==
    ASSUME IInv, Receive
    PROVE  Discreet
<1>1. /\ Len(up) \in Nat \ {0} /\ up[1] \in Calls
      /\ job'[up[1]].at = "answer" /\ job'[up[1]].answer.at = "result" =>
            made[up[1]].op \notin {"start", "meter", "stop", "status"}
      /\ \A d \in Calls \ {up[1]} : job'[d] = job[d]
      /\ Len(up') = Len(up) - 1
      /\ \A i \in 1..Len(up') : up'[i] = up[i + 1]
  BY ReceiveFacts DEF IInv
<1>2. UNCHANGED <<made, outcome, latest, status, edited, down>>
  BY DEF Receive, stationVars, tableVars, statusVars
<1>3. ASSUME NEW i \in 1..Len(up') PROVE i + 1 \in 1..Len(up) /\ up'[i] = up[i + 1]
  BY <1>1
<1>4. 1 \in 1..Len(up)
  BY <1>1
<1>5. ASSUME NEW c \in Calls
      PROVE  /\ UnderWay(c)' => UnderWay(c)
             /\ made[c].op = "status" => (Claims(c)' => Claims(c))
  <2>1. CASE c = up[1]
    BY <1>1, <1>2, <1>4, <2>1 DEF UnderWay, Claims
  <2>2. CASE c # up[1]
    <3>1. job'[c] = job[c]
      BY <1>1, <2>2
    <3>2. UnderWay(c)' => UnderWay(c)
      BY <1>3, <3>1 DEF UnderWay
    <3>3. Claims(c)' => Claims(c)
      BY <1>2, <3>1 DEF Claims
    <3>4. QED
      BY <3>2, <3>3
  <2>3. QED
    BY <2>1, <2>2
<1>6. QED
  BY <1>2, <1>5 DEF Discreet

LEMMA ReceiveAnswerDiscreet ==
    ASSUME IInv, ReceiveAnswer
    PROVE  Discreet
<1>1. /\ Len(down) \in Nat \ {0} /\ down[1] \in Frame
      /\ \A c \in Calls : \/ outcome'[c] = outcome[c]
                          \/ c = down[1].call /\ outcome'[c] = down[1].answer
      /\ Len(down') = Len(down) - 1
      /\ \A i \in 1..Len(down') : down'[i] = down[i + 1]
  BY ReceiveAnswerFacts DEF IInv
<1>2. UNCHANGED <<made, latest, status, edited, job, up>>
  BY DEF ReceiveAnswer, tableVars, statusVars
<1>3. ASSUME NEW i \in 1..Len(down') PROVE i + 1 \in 1..Len(down) /\ down'[i] = down[i + 1]
  BY <1>1
<1>4. 1 \in 1..Len(down) /\ down[1].answer.at # "unsent"
  BY <1>1 DEF Frame, Answered
<1>5. ASSUME NEW c \in Calls
      PROVE  /\ outcome[c].at # "unsent" => outcome'[c].at # "unsent"
             /\ UnderWay(c)' => UnderWay(c)
             /\ Claims(c)' => Claims(c)
  <2>1. outcome[c].at # "unsent" => outcome'[c].at # "unsent"
    BY <1>1, <1>4
  <2>2. UnderWay(c)' => UnderWay(c)
    BY <1>2 DEF UnderWay
  <2>3. Claims(c)' => Claims(c)
    BY <1>1, <1>2, <1>3, <1>4 DEF Claims
  <2>4. QED
    BY <2>1, <2>2, <2>3
<1>6. QED
  BY <1>2, <1>5 DEF Discreet

LEMMA AnswerDiscreet ==
    ASSUME IInv, NEW c \in Calls, Answer(c)
    PROVE  Discreet
<1>1. /\ job'[c].at = "idle"
      /\ \A d \in Calls \ {c} : job'[d] = job[d]
      /\ \A i \in 1..Len(down') :
            \/ i \in 1..Len(down) /\ down'[i] = down[i]
            \/ down'[i].call = c /\ down'[i].answer = job[c].answer
  BY AnswerFacts DEF IInv
<1>2. UNCHANGED <<made, outcome, latest, status, edited, up>> /\ job[c].at = "answer"
  BY DEF Answer, stationVars, tableVars, statusVars
<1>3. ASSUME NEW d \in Calls
      PROVE  /\ UnderWay(d)' => UnderWay(d)
             /\ Claims(d)' => Claims(d)
  <2>1. CASE d = c
    BY <1>1, <1>2, <2>1 DEF UnderWay, Claims
  <2>2. CASE d # c
    BY <1>1, <1>2, <2>2 DEF UnderWay, Claims
  <2>3. QED
    BY <2>1, <2>2
<1>4. QED
  BY <1>2, <1>3 DEF Discreet

\* What a handler for a call of another kind does is nothing to a notification.
LEMMA OtherHandlersDiscreet ==
    ASSUME IInv, NEW c \in Calls, Handle(c), ~ WriteStatus(c)
    PROVE  Discreet
<1>1. Stage(c)
  BY DEF IInv, StageInv
<1>2. CASE Report(c)
  <2>1. job[c].at # "idle" /\ UNCHANGED <<made, outcome, latest, up, down, status, edited>>
    BY <1>2 DEF Report, stationVars, wireVars, tableVars, statusVars
  <2>2. \A d \in Calls \ {c} : job'[d] = job[d]
    BY <1>2, ReportQuiet DEF Quiet
  <2>3. CASE Reply(c, "result", 0) /\ made[c].port = "station"
    <3>1. made[c].port \notin Connectors
      BY <2>3, ExchangeAssumption
    <3>2. QED
      BY <2>1, <2>2, <3>1, GoesOnDiscreet
  <2>4. CASE Reply(c, "error", 0)
    <3>1. job'[c].answer = [at |-> "error", tx |-> 0]
      BY <2>4, ReplyFacts, ZeroTx DEF IInv
    <3>2. QED
      BY <2>1, <2>2, <3>1, GoesOnDiscreet
  <2>5. CASE Goto(c, "check")
    <3>1. job'[c].at = "check"
      BY <2>5, GotoFacts DEF IInv, Stages
    <3>2. QED
      BY <2>1, <2>2, <3>1, GoesOnDiscreet
  <2>6. QED
    BY <1>2, <2>3, <2>4, <2>5 DEF Report
<1>3. CASE Answer(c)
  BY <1>3, AnswerDiscreet
<1>4. CASE Throw
  <2>1. UNCHANGED <<made, outcome, latest, status, edited>>
    BY <1>4, ThrowFacts DEF IInv
  <2>2. (\A d \in Calls : job'[d].at = "idle") /\ Len(up') = 0 /\ Len(down') = 0
    BY <1>4, ThrowFacts DEF IInv
  <2>3. QED
    BY <2>1, <2>2, GoneDiscreet
<1>5. ASSUME NEW found, CreateInserts(c, found) PROVE Discreet
  <2>1. made[c].op = "start" /\ made[c].port \in Connectors /\ job[c].at # "idle"
    BY <1>1, <1>5 DEF CreateInserts, Stage
  <2>2. \A d \in Calls \ {c} : job'[d].at = job[d].at /\ job'[d].answer = job[d].answer
    BY <1>5, <2>1, InsertFacts DEF IInv
  <2>3. UNCHANGED <<made, outcome, latest, up, down, status, edited>>
    BY <1>5 DEF CreateInserts, stationVars, wireVars, statusVars
  <2>4. QED
    BY <2>1, <2>2, <2>3, GoesOnDiscreet
<1>6. CASE /\ ~ Throw
           /\ \/ Authorize(c) \/ Precheck(c) \/ CreateExisting(c) \/ Lookup(c) \/ Record(c)
              \/ UpdateEnergy(c) \/ WriteEnergy(c) \/ StopSession(c) \/ WriteStop(c)
  <2>1. made[c].op # "status" /\ UNCHANGED <<latest, status, edited>>
    BY <1>1, <1>6
    DEF Stage, Authorize, Precheck, CreateExisting, Lookup, Record, UpdateEnergy, WriteEnergy,
        StopSession, WriteStop, stationVars, tableVars, statusVars
  <2>2. Quiet(c)
    BY <1>6, AuthorizeQuiet, PrecheckQuiet, CreateExistingQuiet, LookupQuiet, RecordQuiet,
       UpdateQuiet, WriteEnergyQuiet, StopQuiet, WriteStopQuiet
  <2>3. job[c].at # "idle" /\ UNCHANGED <<made, outcome, up, down>>
        /\ \A d \in Calls \ {c} : job'[d] = job[d]
    BY <2>2 DEF Quiet
  <2>4. QED
    BY <2>1, <2>3, GoesOnDiscreet
<1>7. QED
  BY <1>2, <1>3, <1>4, <1>5, <1>6 DEF Handle, CreateThrows, UpdateEnergy, StopSession

LEMMA WriteStatusFollows ==
    ASSUME FollowInv, NEW d \in Calls, WriteStatus(d), NEW k \in Connectors
    PROVE  Follows(k)'
<1> SUFFICES ASSUME NEW c \in Calls, latest'[k] = [call |-> c, alone |-> TRUE]
             PROVE  FollowsBy(k, c)'
  BY DEF Follows
<1>1. /\ UNCHANGED <<made, outcome, latest, up, down>> /\ made[d].op = "status"
      /\ job[d].at # "idle" /\ UnderWay(d)
      /\ \A e \in Calls \ {d} : job'[e] = job[e]
  BY WriteStatusQuiet DEF FollowInv, Quiet, WriteStatus, stationVars, UnderWay
<1>2. FollowsBy(k, c) /\ status \in [Connectors -> Statuses]
  BY <1>1 DEF FollowInv, Follows, IInv, TypeOK
<1>3. /\ made[d].port \in Connectors
      /\ status' = [status EXCEPT ![made[d].port] = MapToConnectorStatus(made[d].status)]
      /\ edited' = [edited EXCEPT ![made[d].port] = None]
      /\ edited \in [Connectors -> Statuses \union {None}]
  BY DEF WriteStatus, FindConnector, FollowInv, IInv, TypeOK
<1>4. \A e \in Calls : /\ About(e, k)' <=> About(e, k)
                       /\ UnderWay(e)' => UnderWay(e)
                       /\ e # d => (Claims(e)' => Claims(e))
  BY <1>1 DEF About, UnderWay, Claims
<1>5. CASE made[d].port = k
  <2>1. d = c
    BY <1>1, <1>2, <1>5 DEF FollowsBy, About
  <2>2. status'[k] = LastWritten(k, c)'
    BY <1>1, <1>2, <1>3, <1>5, <2>1 DEF LastWritten
  <2>3. QED
    BY <1>1, <1>2, <1>4, <2>2 DEF FollowsBy
<1>6. CASE made[d].port # k
  <2>1. d # c /\ status'[k] = status[k] /\ edited'[k] = edited[k]
    BY <1>2, <1>3, <1>6 DEF FollowsBy, About
  <2>2. LastWritten(k, c)' = LastWritten(k, c)
    BY <1>1, <2>1 DEF LastWritten
  <2>3. QED
    BY <1>1, <1>2, <1>4, <2>1, <2>2 DEF FollowsBy
<1>7. QED
  BY <1>5, <1>6

LEMMA SendFollows ==
    ASSUME FollowInv, NEW d \in Calls, NEW r \in Requests, Send(d, r), NEW k \in Connectors
    PROVE  Follows(k)'
<1> SUFFICES ASSUME NEW c \in Calls, latest'[k] = [call |-> c, alone |-> TRUE]
             PROVE  FollowsBy(k, c)'
  BY DEF Follows
<1>1. /\ made' = [made EXCEPT ![d] = r] /\ outcome' = [outcome EXCEPT ![d] = [at |-> "waiting", tx |-> 0]]
      /\ up' = Append(up, d) /\ outcome[d].at = "unsent" /\ UNCHANGED <<down, job, status, edited>>
  BY DEF Send, tableVars, statusVars
<1>2. /\ made'[d] = r /\ outcome'[d].at = "waiting"
      /\ \A e \in Calls \ {d} : made'[e] = made[e] /\ outcome'[e] = outcome[e]
      /\ latest \in [Connectors -> [call : Calls \union {None}, alone : BOOLEAN]]
  BY <1>1 DEF FollowInv, IInv, TypeOK
<1>3. \A e \in Calls \ {d} : UnderWay(e)' => UnderWay(e)
  <2>1. up \in Seq(Calls)
    BY DEF FollowInv, IInv, TypeOK
  <2>2. \A i \in 1..Len(up') : up'[i] = d \/ (i \in 1..Len(up) /\ up'[i] = up[i])
    BY <1>1, <2>1, AppendProperties, LenProperties
  <2>3. QED
    BY <1>1, <2>2 DEF UnderWay
<1>4. job[d].at = "idle" /\ \A i \in 1..Len(down) : down[i].call # d
  BY <1>1 DEF FollowInv, IInv, Sent
<1>5. CASE r.op = "status" /\ r.port = k
  <2>1. latest'[k] = [call |-> d, alone |-> NoneUnderWay(k)]
    BY <1>2, <1>5 DEF Send
  <2>2. c = d /\ NoneUnderWay(k)
    BY <2>1
  <2>3. \A e \in Calls \ {d} : UnderWay(e)' => ~ About(e, k)'
    BY <1>2, <1>3, <2>2 DEF NoneUnderWay, About
  <2>4. ~ Claims(d)'
    BY <1>1, <1>2, <1>4 DEF Claims
  <2>5. QED
    BY <1>2, <1>5, <2>2, <2>3, <2>4 DEF FollowsBy, About
<1>6. CASE ~(r.op = "status" /\ r.port = k)
  <2>1. latest'[k] = latest[k]
    BY <1>2, <1>6 DEF Send
  <2>2. FollowsBy(k, c) /\ c # d
    BY <1>1, <2>1 DEF FollowInv, Follows, FollowsBy
  <2>3. /\ \A e \in Calls \ {d} : About(e, k)' <=> About(e, k)
        /\ ~ About(d, k)'
    BY <1>2, <1>6 DEF About
  <2>4. Claims(c)' => Claims(c)
    BY <1>1, <1>2, <2>2 DEF Claims
  <2>5. LastWritten(k, c)' = LastWritten(k, c)
    BY <1>1, <1>2, <2>2 DEF LastWritten
  <2>6. QED
    BY <1>1, <1>2, <1>3, <2>2, <2>3, <2>4, <2>5 DEF FollowsBy
<1>7. QED
  BY <1>5, <1>6

\* An edit is what is written last, until a notification is.
LEMMA UpdateConnectorFollows ==
    ASSUME FollowInv, NEW j \in Connectors, NEW s \in Edits, UpdateConnector(j, s),
           NEW k \in Connectors
    PROVE  Follows(k)'
<1> SUFFICES ASSUME NEW c \in Calls, latest'[k] = [call |-> c, alone |-> TRUE]
             PROVE  FollowsBy(k, c)'
  BY DEF Follows
<1>1. UNCHANGED <<made, outcome, latest, up, down, job>>
  BY DEF UpdateConnector, stationVars, wireVars
<1>2. FollowsBy(k, c)
  BY <1>1 DEF FollowInv, Follows
<1>3. /\ \A e \in Calls : (About(e, k)' <=> About(e, k)) /\ (UnderWay(e)' <=> UnderWay(e))
      /\ Claims(c)' <=> Claims(c)
  BY <1>1 DEF About, UnderWay, Claims
<1>4. /\ status' = [status EXCEPT ![j] = s] /\ status \in [Connectors -> Statuses]
      /\ edited' = [edited EXCEPT ![j] = s]
      /\ edited \in [Connectors -> Statuses \union {None}]
      /\ s # None
  BY ExchangeAssumption DEF UpdateConnector, FollowInv, IInv, TypeOK
<1>5. Claims(c) => status'[k] = LastWritten(k, c)'
  <2>1. CASE j = k
    BY <1>4, <2>1 DEF LastWritten
  <2>2. CASE j # k
    <3>1. status'[k] = status[k] /\ edited'[k] = edited[k] /\ made' = made
      BY <1>1, <1>4, <2>2
    <3>2. LastWritten(k, c)' = LastWritten(k, c)
      BY <3>1 DEF LastWritten
    <3>3. QED
      BY <1>2, <3>1, <3>2 DEF FollowsBy
  <2>3. QED
    BY <2>1, <2>2
<1>6. QED
  BY <1>1, <1>2, <1>3, <1>5 DEF FollowsBy

LEMMA NextFollows == FollowInv /\ [Next]_vars => FollowInv'
<1> SUFFICES ASSUME FollowInv, [Next]_vars PROVE FollowInv'
  OBVIOUS
<1>1. IInv /\ IInv'
  BY NextIInv DEF FollowInv
<1>2. CASE Discreet
  BY <1>1, <1>2, DiscreetFollows DEF FollowInv
<1>3. CASE \E v \in Versions : Connect(v)
  <2>1. UNCHANGED <<made, outcome, latest, status, edited, job, up, down>>
    BY <1>3 DEF Connect, stationVars, tableVars, statusVars
  <2>2. QED
    BY <1>2, <2>1 DEF Discreet, UnderWay, Claims
<1>4. CASE Disconnect
  <2>1. UNCHANGED <<made, outcome, latest, status, edited, job>> /\ Len(up') = 0 /\ Len(down') = 0
    BY <1>4 DEF Disconnect, LoseSocket, stationVars, tableVars, statusVars
  <2>2. QED
    BY <1>2, <2>1 DEF Discreet, UnderWay, Claims
<1>5. CASE Receive \/ ReceiveAnswer
  BY <1>1, <1>2, <1>5, ReceiveDiscreet, ReceiveAnswerDiscreet
<1>6. CASE Restart
  <2>1. UNCHANGED <<made, outcome, latest, status, edited>>
        /\ (\A d \in Calls : job'[d].at = "idle") /\ Len(up') = 0 /\ Len(down') = 0
    BY <1>1, <1>6, RestartFacts DEF IInv
  <2>2. QED
    BY <1>2, <2>1, GoneDiscreet
<1>7. ASSUME NEW c \in Calls, NEW r \in Requests, Send(c, r) PROVE FollowInv'
  BY <1>1, <1>7, SendFollows DEF FollowInv
<1>8. ASSUME NEW c \in Calls, CallTimeout(c) PROVE FollowInv'
  <2>1. UNCHANGED <<made, latest, status, edited, job, up, down>>
        /\ outcome' = [outcome EXCEPT ![c] = [at |-> "failed", tx |-> 0]]
    BY <1>8 DEF CallTimeout, tableVars, statusVars, wireVars
  <2>2. \A d \in Calls : outcome'[d] = outcome[d] \/ outcome'[d].at = "failed"
    BY <1>1, <2>1 DEF IInv, TypeOK
  <2>3. QED
    BY <1>2, <2>1, <2>2 DEF Discreet, UnderWay, Claims
<1>9. ASSUME NEW c \in Calls, Handle(c) PROVE FollowInv'
  <2>1. CASE WriteStatus(c)
    BY <1>1, <2>1, WriteStatusFollows DEF FollowInv
  <2>2. CASE ~ WriteStatus(c)
    BY <1>1, <1>2, <1>9, <2>2, OtherHandlersDiscreet
  <2>3. QED
    BY <2>1, <2>2
<1>10. ASSUME NEW tx \in 1..MaxTx, Suspend(tx) \/ SuspendNot(tx) \/ Expire(tx) PROVE FollowInv'
  <2>1. UNCHANGED <<made, outcome, latest, status, edited, job, up, down>>
    BY <1>10 DEF Suspend, SuspendNot, Expire, stationVars, tableVars, statusVars, wireVars
  <2>2. QED
    BY <1>2, <2>1 DEF Discreet, UnderWay, Claims
<1>11. CASE UNCHANGED vars
  <2>1. UNCHANGED <<made, outcome, latest, status, edited, job, up, down>>
    BY <1>11 DEF vars, stationVars, tableVars, statusVars, wireVars
  <2>2. QED
    BY <1>2, <2>1 DEF Discreet, UnderWay, Claims
<1>12. ASSUME NEW k \in Connectors, NEW s \in Edits, UpdateConnector(k, s) PROVE FollowInv'
  BY <1>1, <1>12, UpdateConnectorFollows DEF FollowInv
<1>13. QED
  BY <1>3, <1>4, <1>5, <1>6, <1>7, <1>8, <1>9, <1>10, <1>11, <1>12 DEF Next

\* A connector has the status that the station reported last and was told is accepted, or
\* what an operator has written over it, if no other notification was under way when it was
\* sent: StatusNotificationHandler writes before it answers, and answers nothing else with
\* a result; ConnectorsService.update is the only other writer.
THEOREM StatusCorrect == Spec => []StatusFollows
<1>1. Init => FollowInv
  <2> SUFFICES ASSUME Init PROVE FollowInv
    OBVIOUS
  <2>1. latest = [k \in Connectors |-> [call |-> None, alone |-> TRUE]]
    BY DEF Init
  <2>2. \A k \in Connectors, c \in Calls : latest[k].call = None /\ c # None
    BY <2>1, Constants
  <2>3. \A k \in Connectors, c \in Calls : latest[k] # [call |-> c, alone |-> TRUE]
    BY <2>2
  <2>4. QED
    BY <2>3, InitIInv DEF FollowInv, Follows
<1>2. FollowInv => StatusFollows
  <2> SUFFICES ASSUME FollowInv, NEW k \in Connectors, NEW c, c = latest[k].call,
                      latest[k].alone, c # None, outcome[c].at = "result"
               PROVE  status[k] = LastWritten(k, c)
    BY DEF StatusFollows, Accepted
  <2>1. c \in Calls /\ latest[k] = [call |-> c, alone |-> TRUE]
    BY DEF FollowInv, IInv, TypeOK
  <2>2. FollowsBy(k, c) /\ Claims(c)
    BY <2>1 DEF FollowInv, Follows, Claims
  <2>3. QED
    BY <2>2 DEF FollowsBy
<1>3. QED
  BY <1>1, <1>2, NextFollows, PTL DEF Spec
==============================================================================
