------------------------ MODULE RemoteCommands_proofs ------------------------
(***************************************************************************)
(* Theorems of RemoteCommands: for every set of requests, connectors,      *)
(* stations and sessions, any clock skew, and any number of restarts and   *)
(* database errors.                                                        *)
(***************************************************************************)
EXTENDS RemoteCommands, TLAPS

\* The steps of Next, one disjunct per action.
LEMMA NextCases ==
    ASSUME Next
    PROVE  \/ \E c \in Commands :
                 \/ AssertNoConflictingCommand(c) \/ CreateCommand(c)
                 \/ RejectBeforeSend(c) \/ SendCall(c) \/ PersistSent(c)
                 \/ PersistOutcome(c) \/ RegisterAccepted(c)
                 \/ PendingTimeout(c) \/ ExpiryFires(c) \/ RequestStart(c)
           \/ \E t \in tasks : \/ CheckImmediately(t) \/ ReadCommand(t)
                               \/ ConfirmCommand(t) \/ MarkUnconfirmed(t)
           \/ \E o \in observed : OnTransactionObserved(o)
           \/ \E c \in Commands, s \in Sessions : RequestStop(c, s)
           \/ \E c \in Commands, v \in Verdict : ChargerAnswers(c, v)
           \/ \E r \in replies : ReceiveReply(r)
           \/ \E s \in Sessions : \/ StartTransaction(s) \/ RepeatedStartTransaction(s)
                                  \/ StopTransaction(s) \/ SessionConnectivity(s)
           \/ \E old, s \in Sessions : SupersedeSession(old, s)
           \/ \E st \in Stations : LinkChanges(st)
           \/ Restart \/ DatabaseError
BY DEF Next, ServerStep, EnvironmentStep, RequestStep, TaskStep

LEMMA TypeStep == TypeOK /\ [Next]_vars => TypeOK'
<1> SUFFICES ASSUME TypeOK, [Next]_vars PROVE TypeOK'
  OBVIOUS
<1> USE DEF TypeOK
<1>1. ASSUME NEW c \in Commands, AssertNoConflictingCommand(c) PROVE TypeOK'
  BY <1>1 DEF AssertNoConflictingCommand, Move, Stage, database, wire
<1>2. ASSUME NEW c \in Commands, CreateCommand(c) PROVE TypeOK'
  BY <1>2 DEF CreateCommand, Move, Stage, wire, CommandState, NonTerminal, Created
<1>3. ASSUME NEW c \in Commands, RejectBeforeSend(c) PROVE TypeOK'
  BY <1>3 DEF RejectBeforeSend, TransitionAndPersist, Move, Stage, wire,
              CommandState, Terminal
<1>4. ASSUME NEW c \in Commands, SendCall(c) PROVE TypeOK'
  BY <1>4 DEF SendCall, Move, Stage, database
<1>5. ASSUME NEW c \in Commands, PersistSent(c) PROVE TypeOK'
  BY <1>5 DEF PersistSent, TransitionAndPersist, Move, Stage, wire,
              CommandState, NonTerminal
<1>6. ASSUME NEW c \in Commands, PersistOutcome(c) PROVE TypeOK'
  BY <1>6 DEF PersistOutcome, TransitionAndPersist, Move, Stage, wire,
              CommandState, NonTerminal, Terminal
<1>7. ASSUME NEW c \in Commands, RegisterAccepted(c) PROVE TypeOK'
  BY <1>7 DEF RegisterAccepted, Move, Stage, wire, database, CheckTask, Task
<1>8. ASSUME NEW c \in Commands, PendingTimeout(c) PROVE TypeOK'
  BY <1>8 DEF PendingTimeout, Move, Stage, wire, database, Outcome
<1>9. ASSUME NEW c \in Commands, ExpiryFires(c) PROVE TypeOK'
  BY <1>9 DEF ExpiryFires, wire, database, ExpireTask, Task
<1>10. ASSUME NEW c \in Commands, RequestStart(c) PROVE TypeOK'
  BY <1>10 DEF RequestStart, Move, Stage, database, wire
<1>11. ASSUME NEW t \in tasks, CheckImmediately(t) PROVE TypeOK'
  BY <1>11 DEF CheckImmediately, Confirm, ConfirmTask, Task, database, wire
<1>12. ASSUME NEW t \in tasks, ReadCommand(t) PROVE TypeOK'
  BY <1>12 DEF ReadCommand, At, Task, database, wire
<1>13. ASSUME NEW t \in tasks, ConfirmCommand(t) PROVE TypeOK'
  BY <1>13 DEF ConfirmCommand, TransitionAndPersist, Task, CommandState,
               Terminal, wire
<1>14. ASSUME NEW t \in tasks, MarkUnconfirmed(t) PROVE TypeOK'
  BY <1>14 DEF MarkUnconfirmed, TransitionAndPersist, Task, CommandState,
               Terminal, wire
<1>15. ASSUME NEW o \in observed, OnTransactionObserved(o) PROVE TypeOK'
  BY <1>15 DEF OnTransactionObserved, Confirm, ConfirmTask, Matching, Task,
               Observation, database, wire
<1>16. ASSUME NEW c \in Commands, NEW s \in Sessions, RequestStop(c, s)
       PROVE  TypeOK'
  BY <1>16, ConstantsAssumption DEF RequestStop, Move, Stage, wire
<1>17. ASSUME NEW c \in Commands, NEW v \in Verdict, ChargerAnswers(c, v)
       PROVE  TypeOK'
  BY <1>17 DEF ChargerAnswers, Reply, database, memory
<1>18. ASSUME NEW r \in replies, ReceiveReply(r) PROVE TypeOK'
  BY <1>18 DEF ReceiveReply, Reply, Move, Stage, Outcome, database
<1>19. ASSUME NEW s \in Sessions, StartTransaction(s) PROVE TypeOK'
  BY <1>19 DEF StartTransaction, Observe, Observation, SessionStatus,
               LiveSession, wire
<1>20. ASSUME NEW s \in Sessions, RepeatedStartTransaction(s) PROVE TypeOK'
  BY <1>20 DEF RepeatedStartTransaction, Observe, Observation, database, wire
<1>21. ASSUME NEW s \in Sessions, StopTransaction(s) PROVE TypeOK'
  BY <1>21 DEF StopTransaction, Observe, Observation, SessionStatus, wire
<1>22. ASSUME NEW s \in Sessions, SessionConnectivity(s) PROVE TypeOK'
  BY <1>22 DEF SessionConnectivity, SessionStatus, LiveSession, memory, wire
<1>23. ASSUME NEW old \in Sessions, NEW s \in Sessions, SupersedeSession(old, s)
       PROVE  TypeOK'
  BY <1>23 DEF SupersedeSession, Observe, Observation, SessionStatus,
               LiveSession, wire
<1>24. ASSUME NEW st \in Stations, LinkChanges(st) PROVE TypeOK'
  BY <1>24 DEF LinkChanges, LinkState, database, wire
<1>25. ASSUME Restart PROVE TypeOK'
  BY <1>25, ConstantsAssumption
  DEF Restart, FaultHappens, Stage, LinkState, database, wire
<1>26. ASSUME DatabaseError PROVE TypeOK'
  BY <1>26, ConstantsAssumption
  DEF DatabaseError, FaultHappens, Move, Stage, database, wire
<1>27. CASE UNCHANGED vars
  BY <1>27 DEF vars, database, memory, wire
<1>28. QED
  BY NextCases, <1>1, <1>2, <1>3, <1>4, <1>5, <1>6, <1>7, <1>8, <1>9, <1>10,
     <1>11, <1>12, <1>13, <1>14, <1>15, <1>16, <1>17, <1>18, <1>19, <1>20,
     <1>21, <1>22, <1>23, <1>24, <1>25, <1>26, <1>27

LEMMA TypeInit == Init => TypeOK
BY ConstantsAssumption
DEF Init, TypeOK, CommandState, SessionStatus, Stage, Outcome, LinkState

\* The variables range over the sets TypeOK names: in particular a row only
\* ever holds a RemoteCommandState, whatever status the charger answered.
THEOREM TypeCorrect == Spec => []TypeOK
BY TypeInit, TypeStep, PTL DEF Spec

-----------------------------------------------------------------------------
(* The inductive invariant.  None of its parts is inductive alone: that a  *)
(* write lands on the state the coroutine knows (RowsAsKnown) needs that a *)
(* pending entry means a waiting request (AwaitingIsPending), and the      *)
(* index only protects the insert -- that later writes keep one command in *)
(* progress needs RowsAsKnown.                                             *)

IInv ==
    /\ TypeOK
    /\ AwaitingIsPending
    /\ RowsAsKnown
    /\ OutcomeIsTheChargers
    /\ OneActivePerConnector

Known == <<state, connector, stage, outcome, pending>>

LEMMA InvInit == Init => IInv
BY TypeInit
DEF Init, IInv, AwaitingIsPending, RowsAsKnown, RequestKnowsItsRow, RequestKnowsItsOutcome,
    WatchedWasAccepted, OutcomeIsTheChargers, OneActivePerConnector, NonTerminal

\* A step that leaves the rows and the requests alone and starts nothing for a
\* row that was never ACCEPTED.
LEMMA Frame ==
    ASSUME IInv, TypeOK', UNCHANGED Known,
           \A c \in timers' : state[c] \in WasAccepted,
           \A t \in tasks' : state[t.cmd] \in WasAccepted
    PROVE  IInv'
BY DEF IInv, Known, AwaitingIsPending, RowsAsKnown, RequestKnowsItsRow,
       RequestKnowsItsOutcome, WatchedWasAccepted, OutcomeIsTheChargers,
       OneActivePerConnector

\* A request moves on, and its row with it.
LEMMA RequestInv ==
    ASSUME IInv, TypeOK', NEW c \in Commands,
           \/ AssertNoConflictingCommand(c) \/ CreateCommand(c)
           \/ RejectBeforeSend(c) \/ SendCall(c) \/ PersistSent(c)
           \/ PersistOutcome(c) \/ RegisterAccepted(c)
           \/ PendingTimeout(c) \/ RequestStart(c)
           \/ \E s \in Sessions : RequestStop(c, s)
           \/ \E r \in replies : r.cmd = c /\ ReceiveReply(r)
    PROVE  IInv'
<1> USE DEF IInv, TypeOK, AwaitingIsPending, RowsAsKnown, RequestKnowsItsRow,
            RequestKnowsItsOutcome, WatchedWasAccepted, OutcomeIsTheChargers,
            OneActivePerConnector, Move, WasAccepted
<1>1. CASE AssertNoConflictingCommand(c)
  BY <1>1 DEF AssertNoConflictingCommand, database
<1>2. CASE CreateCommand(c)
  <2>1. CASE ActiveOn(connector[c]) = {}
    <3>1. OneActivePerConnector'
      BY <1>2, <2>1 DEF CreateCommand, ActiveOn, NonTerminal
    <3>2. WatchedWasAccepted'
      BY <1>2, <2>1 DEF CreateCommand, Task
    <3>3. QED
      BY <1>2, <2>1, <3>1, <3>2 DEF CreateCommand, NonTerminal
  <2>2. CASE ActiveOn(connector[c]) # {}
    BY <1>2, <2>2 DEF CreateCommand
  <2>3. QED
    BY <2>1, <2>2
<1>3. CASE RejectBeforeSend(c)
  BY <1>3 DEF RejectBeforeSend, TransitionAndPersist, NonTerminal
<1>4. CASE SendCall(c)
  BY <1>4 DEF SendCall, database
<1>5. CASE PersistSent(c)
  BY <1>5 DEF PersistSent, TransitionAndPersist, NonTerminal
<1>6. CASE PersistOutcome(c)
  <2>1. /\ UNCHANGED <<connector, outcome, pending, timers, tasks>>
        /\ stage[c] = "sent" /\ state[c] = "SENT"
    BY <1>6 DEF PersistOutcome
  <2>2. CASE outcome[c] = "Accepted"
    <3>1. /\ state' = [state EXCEPT ![c] = "ACCEPTED"]
          /\ stage' = [stage EXCEPT ![c] = "accepted"]
      BY <1>6, <2>2 DEF PersistOutcome, TransitionAndPersist
    <3>2. QED
      BY <2>1, <2>2, <3>1 DEF NonTerminal
  <2>3. CASE outcome[c] # "Accepted"
    <3>1. PICK to \in {"REJECTED", "TIMED_OUT"} :
            /\ state' = [state EXCEPT ![c] = to]
            /\ stage' = [stage EXCEPT ![c] = "done"]
            /\ to = "TIMED_OUT" => outcome[c] = "Timeout"
            /\ to = "REJECTED" => outcome[c] \in {"Rejected", "CallError"}
      BY <1>6, <2>3 DEF PersistOutcome, TransitionAndPersist
    <3>2. QED
      BY <2>1, <3>1 DEF NonTerminal
  <2>4. QED
    BY <2>2, <2>3
<1>7. CASE RegisterAccepted(c)
  BY <1>7 DEF RegisterAccepted, CheckTask, database
<1>8. CASE PendingTimeout(c)
  BY <1>8 DEF PendingTimeout, database
<1>9. CASE RequestStart(c)
  BY <1>9 DEF RequestStart, database
<1>10. ASSUME NEW s \in Sessions, RequestStop(c, s) PROVE IInv'
  BY <1>10 DEF RequestStop, NonTerminal
<1>11. ASSUME NEW r \in replies, r.cmd = c, ReceiveReply(r) PROVE IInv'
  BY <1>11 DEF ReceiveReply, Reply, Verdict, database
<1>12. QED
  BY <1>1, <1>2, <1>3, <1>4, <1>5, <1>6, <1>7, <1>8, <1>9, <1>10, <1>11

\* A confirmation coroutine moves on: its two writes land on a row that was
\* ACCEPTED, which they take out of progress or leave out of it.
LEMMA TaskInv ==
    ASSUME IInv, TypeOK', NEW t \in tasks,
           \/ CheckImmediately(t) \/ ReadCommand(t)
           \/ ConfirmCommand(t) \/ MarkUnconfirmed(t)
    PROVE  IInv'
<1>1. t \in Task /\ t.cmd \in Commands /\ state[t.cmd] \in WasAccepted
  BY DEF IInv, TypeOK, Task, RowsAsKnown, WatchedWasAccepted
<1>2. CASE CheckImmediately(t)
  <2>1. UNCHANGED Known
    BY <1>2 DEF CheckImmediately, Known, database
  <2>2. \A c \in timers' : c \in timers
    BY <1>2 DEF CheckImmediately, Confirm
  <2>3. \A u \in tasks' : u \in tasks \/ u.cmd = t.cmd
    BY <1>2 DEF CheckImmediately, Confirm, ConfirmTask
  <2>4. QED
    BY <1>1, <2>1, <2>2, <2>3, Frame DEF IInv, RowsAsKnown, WatchedWasAccepted
<1>3. CASE ReadCommand(t)
  <2>1. UNCHANGED Known /\ UNCHANGED timers
    BY <1>3 DEF ReadCommand, Known, database
  <2>2. \A u \in tasks' : u \in tasks \/ u.cmd = t.cmd
    BY <1>1, <1>3 DEF ReadCommand, At, Task
  <2>3. QED
    BY <1>1, <2>1, <2>2, Frame DEF IInv, RowsAsKnown, WatchedWasAccepted
<1>4. CASE ConfirmCommand(t) \/ MarkUnconfirmed(t)
  <2>1. PICK to \in {"CONFIRMED", "UNCONFIRMED"} :
          state' = [state EXCEPT ![t.cmd] = to]
    BY <1>4 DEF ConfirmCommand, MarkUnconfirmed, TransitionAndPersist
  <2>2. /\ UNCHANGED <<connector, stage, outcome, pending, timers>>
        /\ tasks' \subseteq tasks
    BY <1>4 DEF ConfirmCommand, MarkUnconfirmed
  <2>3. QED
    BY <1>1, <2>1, <2>2
    DEF IInv, TypeOK, Task, AwaitingIsPending, RowsAsKnown, RequestKnowsItsRow,
        RequestKnowsItsOutcome, WatchedWasAccepted, OutcomeIsTheChargers,
        OneActivePerConnector, NonTerminal, WasAccepted
<1>5. QED
  BY <1>2, <1>3, <1>4

\* Timers, observers, the wire, sessions and sockets.
LEMMA OtherInv ==
    ASSUME IInv, TypeOK',
           \/ \E c \in Commands : ExpiryFires(c)
           \/ \E o \in observed : OnTransactionObserved(o)
           \/ \E c \in Commands, v \in Verdict : ChargerAnswers(c, v)
           \/ \E s \in Sessions : \/ StartTransaction(s) \/ RepeatedStartTransaction(s)
                                  \/ StopTransaction(s) \/ SessionConnectivity(s)
           \/ \E old, s \in Sessions : SupersedeSession(old, s)
           \/ \E st \in Stations : LinkChanges(st)
           \/ UNCHANGED vars
    PROVE  UNCHANGED Known /\ IInv'
<1>1. UNCHANGED Known
  BY DEF ExpiryFires, OnTransactionObserved, ChargerAnswers, StartTransaction,
         RepeatedStartTransaction, StopTransaction, SessionConnectivity,
         SupersedeSession, LinkChanges, vars, database, memory, Known
<1>2. \A c \in timers' : c \in timers
  BY DEF ExpiryFires, OnTransactionObserved, Confirm, ChargerAnswers,
         StartTransaction, RepeatedStartTransaction, StopTransaction,
         SessionConnectivity, SupersedeSession, LinkChanges, vars, memory
<1>3. \A t \in tasks' : t \in tasks \/ state[t.cmd] \in WasAccepted
  <2>1. ASSUME NEW c \in Commands, ExpiryFires(c)
        PROVE  \A t \in tasks' : t \in tasks \/ state[t.cmd] \in WasAccepted
    BY <2>1 DEF ExpiryFires, ExpireTask, IInv, RowsAsKnown, WatchedWasAccepted
  <2>2. ASSUME NEW o \in observed, OnTransactionObserved(o)
        PROVE  \A t \in tasks' : t \in tasks \/ state[t.cmd] \in WasAccepted
    BY <2>2 DEF OnTransactionObserved, Matching, Confirm, ConfirmTask, WasAccepted
  <2>3. QED
    BY <2>1, <2>2
    DEF ChargerAnswers, StartTransaction, RepeatedStartTransaction,
        StopTransaction, SessionConnectivity, SupersedeSession, LinkChanges,
        vars, memory
<1>4. QED
  BY <1>1, <1>2, <1>3, Frame DEF IInv, RowsAsKnown, WatchedWasAccepted

\* A fault only ends coroutines.
LEMMA FaultInv ==
    ASSUME IInv, TypeOK', Restart \/ DatabaseError
    PROVE  IInv'
<1> USE DEF IInv, TypeOK, AwaitingIsPending, RowsAsKnown, RequestKnowsItsRow,
            RequestKnowsItsOutcome, WatchedWasAccepted, OutcomeIsTheChargers,
            OneActivePerConnector, database
<1>1. CASE Restart
  BY <1>1 DEF Restart
<1>2. CASE DatabaseError
  BY <1>2 DEF DatabaseError, Move
<1>3. QED
  BY <1>1, <1>2

LEMMA InvStep == IInv /\ [Next]_vars => IInv'
<1> SUFFICES ASSUME IInv, [Next]_vars PROVE IInv'
  OBVIOUS
<1>1. TypeOK'
  BY TypeStep DEF IInv
<1>2. ASSUME NEW r \in replies, ReceiveReply(r) PROVE IInv'
  <2>1. r.cmd \in Commands
    BY DEF IInv, TypeOK, Reply
  <2>2. QED
    BY <1>1, <1>2, <2>1, RequestInv
<1>3. CASE UNCHANGED vars
  BY <1>1, <1>3, OtherInv
<1>4. QED
  BY <1>1, <1>2, <1>3, NextCases, RequestInv, TaskInv, OtherInv, FaultInv

LEMMA Invariance == Spec => []IInv
BY InvInit, InvStep, PTL DEF Spec

\* The concurrency guard, with any number of operators, connectors, restarts
\* and database errors.
THEOREM OneActive == Spec => []OneActivePerConnector
<1>1. IInv => OneActivePerConnector
  BY DEF IInv
<1>2. QED
  BY <1>1, Invariance, PTL

\* A request waits exactly as long as its registry entry lives.
THEOREM NoOrphanedWait == Spec => []AwaitingIsPending
<1>1. IInv => AwaitingIsPending
  BY DEF IInv
<1>2. QED
  BY <1>1, Invariance, PTL

\* A row says what the charger said.
THEOREM HonestOutcome == Spec => []OutcomeIsTheChargers
<1>1. IInv => OutcomeIsTheChargers
  BY DEF IInv
<1>2. QED
  BY <1>1, Invariance, PTL

\* Writes land on the state their coroutine knows, up to confirm against expire.
THEOREM NoStaleWrite == Spec => []RowsAsKnown
<1>1. IInv => RowsAsKnown
  BY DEF IInv
<1>2. QED
  BY <1>1, Invariance, PTL

-----------------------------------------------------------------------------
(* What a step may do: action properties and the connector lock.           *)

\* How a row may change: into being, along an allowed transition, or from one
\* side of the confirm/expire race to the other.
RowStep(c, to) ==
    \/ state[c] = "NONE" /\ to = "REQUESTED" /\ ActiveOn(connector[c]) = {}
    \/ AllowedTransition(state[c], to)
    \/ {state[c], to} \subseteq {"CONFIRMED", "UNCONFIRMED"}

OneRowStep ==
    \/ UNCHANGED <<state, connector>>
    \/ /\ UNCHANGED state
       /\ \E c \in Commands, k \in Connectors :
             state[c] = "NONE" /\ connector' = [connector EXCEPT ![c] = k]
    \/ /\ UNCHANGED connector
       /\ \E c \in Commands, to \in CommandState :
             RowStep(c, to) /\ state' = [state EXCEPT ![c] = to]

LEMMA Rows ==
    ASSUME IInv, [Next]_vars
    PROVE  OneRowStep
<1>1. CASE UNCHANGED vars
  BY <1>1 DEF vars, database, OneRowStep
<1>2. ASSUME NEW c \in Commands,
             \/ AssertNoConflictingCommand(c) \/ SendCall(c) \/ RegisterAccepted(c)
             \/ PendingTimeout(c) \/ ExpiryFires(c) \/ RequestStart(c)
      PROVE  OneRowStep
  BY <1>2 DEF AssertNoConflictingCommand, SendCall, RegisterAccepted,
              PendingTimeout, ExpiryFires, RequestStart, database, OneRowStep
<1>3. ASSUME NEW c \in Commands, CreateCommand(c) PROVE OneRowStep
  <2>1. state[c] = "NONE" /\ UNCHANGED connector
    BY <1>3 DEF CreateCommand, IInv, RowsAsKnown, RequestKnowsItsRow
  <2>2. CASE ActiveOn(connector[c]) = {}
    <3>1. state' = [state EXCEPT ![c] = "REQUESTED"]
      BY <1>3, <2>2 DEF CreateCommand
    <3>2. RowStep(c, "REQUESTED") /\ "REQUESTED" \in CommandState
      BY <2>1, <2>2 DEF RowStep, CommandState, NonTerminal
    <3>3. QED
      BY <2>1, <3>1, <3>2 DEF OneRowStep
  <2>3. CASE ActiveOn(connector[c]) # {}
    BY <1>3, <2>1, <2>3 DEF CreateCommand, OneRowStep
  <2>4. QED
    BY <2>2, <2>3
<1>4. ASSUME NEW c \in Commands,
             RejectBeforeSend(c) \/ PersistSent(c) \/ PersistOutcome(c)
      PROVE  OneRowStep
  <2>1. UNCHANGED connector
    BY <1>4 DEF RejectBeforeSend, PersistSent, PersistOutcome
  <2>2. PICK to \in CommandState :
          AllowedTransition(state[c], to) /\ state' = [state EXCEPT ![c] = to]
    <3>1. CASE RejectBeforeSend(c)
      BY <3>1 DEF RejectBeforeSend, TransitionAndPersist, IInv, RowsAsKnown,
                  RequestKnowsItsRow, CommandState, Terminal
    <3>2. CASE PersistSent(c)
      BY <3>2 DEF PersistSent, TransitionAndPersist, IInv, RowsAsKnown,
                  RequestKnowsItsRow, CommandState, NonTerminal
    <3>3. CASE PersistOutcome(c)
      BY <3>3 DEF PersistOutcome, TransitionAndPersist, IInv, RowsAsKnown,
                  RequestKnowsItsRow, CommandState, NonTerminal, Terminal
    <3>4. QED
      BY <1>4, <3>1, <3>2, <3>3
  <2>3. QED
    BY <2>1, <2>2 DEF OneRowStep, RowStep
<1>5. ASSUME NEW t \in tasks, CheckImmediately(t) \/ ReadCommand(t)
      PROVE  OneRowStep
  BY <1>5 DEF CheckImmediately, ReadCommand, database, OneRowStep
<1>6. ASSUME NEW t \in tasks, ConfirmCommand(t) \/ MarkUnconfirmed(t)
      PROVE  OneRowStep
  <2>1. t.cmd \in Commands /\ state[t.cmd] \in WasAccepted
    BY DEF IInv, TypeOK, Task, RowsAsKnown, WatchedWasAccepted
  <2>2. UNCHANGED connector
    BY <1>6 DEF ConfirmCommand, MarkUnconfirmed
  <2>3. PICK to \in {"CONFIRMED", "UNCONFIRMED"} :
          state' = [state EXCEPT ![t.cmd] = to]
    BY <1>6 DEF ConfirmCommand, MarkUnconfirmed, TransitionAndPersist
  <2>4. RowStep(t.cmd, to) /\ to \in CommandState
    BY <2>1, <2>3 DEF RowStep, AllowedTransition, WasAccepted, CommandState, Terminal
  <2>5. QED
    BY <2>1, <2>2, <2>3, <2>4 DEF OneRowStep
<1>7. ASSUME NEW c \in Commands, NEW s \in Sessions, RequestStop(c, s)
      PROVE  OneRowStep
  BY <1>7, ConstantsAssumption
  DEF RequestStop, IInv, RowsAsKnown, RequestKnowsItsRow, OneRowStep
<1>8. CASE \/ \E o \in observed : OnTransactionObserved(o)
           \/ \E c \in Commands, v \in Verdict : ChargerAnswers(c, v)
           \/ \E s \in Sessions : \/ StartTransaction(s) \/ RepeatedStartTransaction(s)
                                  \/ StopTransaction(s) \/ SessionConnectivity(s)
           \/ \E old, s \in Sessions : SupersedeSession(old, s)
           \/ \E st \in Stations : LinkChanges(st)
  <2>1. TypeOK'
    BY TypeStep DEF IInv
  <2>2. QED
    BY <1>8, <2>1, OtherInv DEF Known, OneRowStep
<1>9. ASSUME NEW r \in replies, ReceiveReply(r) PROVE OneRowStep
  BY <1>9 DEF ReceiveReply, database, OneRowStep
<1>10. CASE Restart \/ DatabaseError
  BY <1>10 DEF Restart, DatabaseError, database, OneRowStep
<1>11. QED
  BY <1>1, <1>2, <1>3, <1>4, <1>5, <1>6, <1>7, <1>8, <1>9, <1>10, NextCases

\* A terminal command is never in progress again; a REJECTED or TIMED_OUT one
\* never changes.
THEOREM TerminalIsLeftAlone == Spec => NeverReopened
<1> DEFINE A == \A c \in Commands :
                  /\ state[c] \in Terminal => state'[c] \in Terminal
                  /\ state[c] \in {"REJECTED", "TIMED_OUT"} => state'[c] = state[c]
<1>1. ASSUME IInv, [Next]_vars PROVE A
  <2>1. CASE UNCHANGED state
    BY <2>1
  <2>2. ASSUME NEW d \in Commands, NEW to \in CommandState, RowStep(d, to),
               state' = [state EXCEPT ![d] = to]
        PROVE  A
    <3>1. state[d] \in Terminal => {state[d], to} \subseteq {"CONFIRMED", "UNCONFIRMED"}
      BY <2>2 DEF RowStep, AllowedTransition, Terminal
    <3>2. QED
      BY <2>2, <3>1 DEF Terminal, IInv, TypeOK
  <2>3. QED
    BY <1>1, <2>1, <2>2, Rows DEF OneRowStep
<1>2. IInv /\ [Next]_vars => [A]_vars
  BY <1>1
<1>3. QED
  BY <1>2, Invariance, PTL DEF Spec, NeverReopened

\* A promise is settled once: by the answer or by the timer.
THEOREM PromiseSettledOnce == Spec => SettledOnce
<1> DEFINE A == \A c \in Commands : outcome[c] # "none" => outcome'[c] = outcome[c]
<1>1. ASSUME IInv, [Next]_vars PROVE A
  <2>1. ASSUME NEW c \in pending, NEW v \in Outcome,
               outcome' = [outcome EXCEPT ![c] = v]
        PROVE  A
    <3>1. c \in Commands /\ outcome[c] = "none"
      BY <1>1 DEF IInv, TypeOK, AwaitingIsPending, RowsAsKnown, RequestKnowsItsOutcome
    <3>2. QED
      BY <1>1, <2>1, <3>1 DEF IInv, TypeOK
  <2>2. CASE UNCHANGED outcome
    BY <2>2
  <2>3. ASSUME NEW r \in replies, ReceiveReply(r) PROVE A
    <3>1. r.verdict \in Outcome
      BY <1>1 DEF IInv, TypeOK, Reply, Outcome
    <3>2. QED
      BY <2>1, <2>2, <2>3, <3>1 DEF ReceiveReply
  <2>4. ASSUME NEW c \in Commands, PendingTimeout(c) PROVE A
    BY <2>1, <2>4 DEF PendingTimeout, Outcome
  <2>5. CASE \/ \E c \in Commands :
                   \/ AssertNoConflictingCommand(c) \/ CreateCommand(c)
                   \/ RejectBeforeSend(c) \/ SendCall(c) \/ PersistSent(c)
                   \/ PersistOutcome(c) \/ RegisterAccepted(c)
                   \/ ExpiryFires(c) \/ RequestStart(c)
             \/ \E c \in Commands, s \in Sessions : RequestStop(c, s)
    BY <2>2, <2>5
    DEF AssertNoConflictingCommand, CreateCommand, RejectBeforeSend, SendCall,
        PersistSent, PersistOutcome, RegisterAccepted, ExpiryFires, RequestStart,
        RequestStop
  <2>6. CASE \/ \E t \in tasks : \/ CheckImmediately(t) \/ ReadCommand(t)
                                 \/ ConfirmCommand(t) \/ MarkUnconfirmed(t)
             \/ \E o \in observed : OnTransactionObserved(o)
             \/ \E c \in Commands, v \in Verdict : ChargerAnswers(c, v)
    BY <2>2, <2>6
    DEF CheckImmediately, ReadCommand, ConfirmCommand, MarkUnconfirmed,
        OnTransactionObserved, ChargerAnswers, memory
  <2>7. CASE \/ \E s \in Sessions : \/ StartTransaction(s) \/ RepeatedStartTransaction(s)
                                    \/ StopTransaction(s) \/ SessionConnectivity(s)
             \/ \E old, s \in Sessions : SupersedeSession(old, s)
             \/ \E st \in Stations : LinkChanges(st)
             \/ Restart \/ DatabaseError \/ UNCHANGED vars
    BY <2>2, <2>7
    DEF StartTransaction, RepeatedStartTransaction, StopTransaction,
        SessionConnectivity, SupersedeSession, LinkChanges, Restart,
        DatabaseError, vars, memory
  <2>8. QED
    BY <1>1, <2>3, <2>4, <2>5, <2>6, <2>7, NextCases
<1>2. IInv /\ [Next]_vars => [A]_vars
  BY <1>1
<1>3. QED
  BY <1>2, Invariance, PTL DEF Spec, SettledOnce

LEMMA LockInit == Init => Lock!Init
BY DEF Init, Lock!Init, Holder, ActiveOn, NonTerminal

\* Rows move on connectors the way holders move on locks.
LEMMA LockStep == IInv /\ [Next]_vars => [Lock!Next]_Holder
<1> SUFFICES ASSUME IInv, [Next]_vars PROVE [Lock!Next]_Holder
  OBVIOUS
<1> USE DEF IInv, TypeOK
<1>1. CASE UNCHANGED <<state, connector>>
  BY <1>1 DEF Holder, ActiveOn
<1>2. ASSUME UNCHANGED state, NEW c \in Commands, NEW k \in Connectors,
             state[c] = "NONE", connector' = [connector EXCEPT ![c] = k]
      PROVE  UNCHANGED Holder
  <2>1. \A j \in Connectors : ActiveOn(j)' = ActiveOn(j)
    BY <1>2 DEF ActiveOn, NonTerminal
  <2>2. QED
    BY <2>1 DEF Holder
<1>3. ASSUME UNCHANGED connector, NEW c \in Commands, NEW to \in CommandState,
             RowStep(c, to), state' = [state EXCEPT ![c] = to]
      PROVE  [Lock!Next]_Holder
  <2> DEFINE k == connector[c]
  <2>1. k \in Connectors
    OBVIOUS
  <2>2. \A j \in Connectors \ {k} : ActiveOn(j)' = ActiveOn(j)
    BY <1>3 DEF ActiveOn
  <2>3. CASE state[c] \in NonTerminal <=> to \in NonTerminal
    <3>1. \A j \in Connectors : ActiveOn(j)' = ActiveOn(j)
      BY <1>3, <2>3 DEF ActiveOn
    <3>2. QED
      BY <3>1 DEF Holder
  <2>4. CASE state[c] \notin NonTerminal /\ to \in NonTerminal
    <3>1. ActiveOn(k) = {}
      BY <1>3, <2>4 DEF RowStep, AllowedTransition, NonTerminal
    <3>2. ActiveOn(k)' = {c}
      BY <1>3, <2>4, <3>1 DEF ActiveOn
    <3>3. Lock!Acquire(k, c)
      BY <1>3, <2>1, <2>2, <3>1, <3>2 DEF Lock!Acquire, Holder
    <3>4. QED
      BY <2>1, <3>3 DEF Lock!Next
  <2>5. CASE state[c] \in NonTerminal /\ to \notin NonTerminal
    <3>1. ActiveOn(k) = {c}
      BY <2>5 DEF ActiveOn, OneActivePerConnector
    <3>2. ActiveOn(k)' = {}
      <4>1. c \notin ActiveOn(k)'
        BY <1>3, <2>5 DEF ActiveOn
      <4>2. ActiveOn(k)' \subseteq ActiveOn(k)
        BY <1>3, <2>5 DEF ActiveOn
      <4>3. QED
        BY <3>1, <4>1, <4>2
    <3>3. Lock!Release(k, c)
      BY <1>3, <2>1, <2>2, <3>1, <3>2 DEF Lock!Release, Holder
    <3>4. QED
      BY <2>1, <3>3 DEF Lock!Next
  <2>6. QED
    BY <2>3, <2>4, <2>5
<1>4. QED
  BY <1>1, <1>2, <1>3, Rows DEF OneRowStep

\* The control plane is a lock per connector: a request takes a connector only
\* when nobody holds it, and only its holder's resolution frees it.
THEOREM RefinesLock == Spec => ImplementsConnectorLock
BY LockInit, LockStep, Invariance, PTL DEF Spec, ImplementsConnectorLock, Lock!Spec
-----------------------------------------------------------------------------
(* Evidence and watching.  What a confirmation rests on is never taken     *)
(* back: the target of a request is fixed once it has begun, a session     *)
(* that exists stays, a COMPLETED one stays so.                            *)

Steady ==
    /\ \A s \in Sessions : /\ status[s] # "NONE" => status'[s] # "NONE"
                           /\ status[s] = "COMPLETED" => status'[s] = "COMPLETED"
    /\ \A c \in Commands : stage[c] # "idle" =>
          /\ stage'[c] # "idle" /\ connector'[c] = connector[c]
          /\ c \in Stops => session'[c] = session[c]

\* The requests of RemoteStop have their session, on their connector.
Targeted ==
    \A c \in Stops : stage[c] # "idle" =>
        session[c] \in Sessions /\ ConnectorOf[session[c]] = connector[c]

\* Session s is evidence for command c.
Proves(c, s) ==
    /\ s \in Sessions /\ ConnectorOf[s] = connector[c]
    /\ c \in Starts => status[s] # "NONE"
    /\ c \in Stops => s = session[c] /\ status[s] = "COMPLETED"

\* Observers saw what they report; confirmations have their evidence.
Witnessed ==
    /\ \A o \in observed : /\ status[o.session] # "NONE"
                           /\ o.kind = "stop" => status[o.session] = "COMPLETED"
    /\ \A t \in tasks : t.kind = "confirm" => Proves(t.cmd, t.link)

EInv == Targeted /\ Witnessed /\ ConfirmedHasEvidence

WInv == AcceptedIsWatched /\ StopConfirmationNotLost

LEMMA SteadyStep == ASSUME IInv, [Next]_vars PROVE Steady
<1> USE DEF IInv, TypeOK, Steady
<1>1. CASE UNCHANGED vars
  BY <1>1 DEF vars, database, memory
<1>2. ASSUME NEW c \in Commands,
             \/ AssertNoConflictingCommand(c) \/ CreateCommand(c)
             \/ RejectBeforeSend(c) \/ SendCall(c) \/ PersistSent(c)
             \/ RegisterAccepted(c) \/ PendingTimeout(c) \/ ExpiryFires(c) \/ RequestStart(c)
      PROVE  Steady
  BY <1>2 DEF AssertNoConflictingCommand, CreateCommand, RejectBeforeSend, SendCall,
              PersistSent, RegisterAccepted, PendingTimeout, ExpiryFires, RequestStart,
              Move, database
<1>3. ASSUME NEW c \in Commands, PersistOutcome(c) PROVE Steady
  <2>1. UNCHANGED <<connector, session, status>>
    BY <1>3 DEF PersistOutcome
  <2>2. \A d \in Commands : stage[d] # "idle" => stage'[d] # "idle"
    BY <1>3 DEF PersistOutcome, Move
  <2>3. QED
    BY <2>1, <2>2
<1>4. ASSUME NEW t \in tasks,
             \/ CheckImmediately(t) \/ ReadCommand(t) \/ ConfirmCommand(t) \/ MarkUnconfirmed(t)
      PROVE  Steady
  BY <1>4, ConstantsAssumption
  DEF CheckImmediately, ReadCommand, ConfirmCommand, MarkUnconfirmed, database, Commands
<1>5. ASSUME NEW c \in Commands, NEW s \in Sessions, RequestStop(c, s) PROVE Steady
  BY <1>5 DEF RequestStop, Move
<1>6. CASE \/ \E o \in observed : OnTransactionObserved(o)
           \/ \E c \in Commands, v \in Verdict : ChargerAnswers(c, v)
           \/ \E st \in Stations : LinkChanges(st)
  BY <1>6 DEF OnTransactionObserved, ChargerAnswers, LinkChanges, database, memory
<1>7. ASSUME NEW r \in replies, ReceiveReply(r) PROVE Steady
  BY <1>7 DEF ReceiveReply, Move, database
<1>8. ASSUME NEW s \in Sessions,
             \/ StartTransaction(s) \/ RepeatedStartTransaction(s)
             \/ StopTransaction(s) \/ SessionConnectivity(s)
      PROVE  Steady
  BY <1>8 DEF StartTransaction, RepeatedStartTransaction, StopTransaction,
              SessionConnectivity, LiveSession, database, memory
<1>9. ASSUME NEW old \in Sessions, NEW s \in Sessions, SupersedeSession(old, s) PROVE Steady
  BY <1>9 DEF SupersedeSession
<1>10. CASE Restart \/ DatabaseError
  BY <1>10 DEF Restart, DatabaseError, Move, database
<1>11. QED
  BY <1>1, <1>2, <1>3, <1>4, <1>5, <1>6, <1>7, <1>8, <1>9, <1>10, NextCases

\* A command that was ACCEPTED has begun.
LEMMA AcceptedHasBegun ==
    ASSUME IInv, NEW c \in Commands, state[c] # "NONE" PROVE stage[c] # "idle"
BY DEF IInv, RowsAsKnown, RequestKnowsItsRow

LEMMA ProvesStays ==
    ASSUME IInv, Steady, NEW c \in Commands, state[c] # "NONE", NEW s, Proves(c, s)
    PROVE  Proves(c, s)'
BY AcceptedHasBegun DEF Steady, Proves

LEMMA TargetedStep == ASSUME IInv, Targeted, [Next]_vars PROVE Targeted'
<1>1. Steady
  BY SteadyStep
<1> SUFFICES ASSUME NEW c \in Stops, stage'[c] # "idle"
             PROVE  session'[c] \in Sessions /\ ConnectorOf[session'[c]] = connector'[c]
  BY DEF Targeted
<1>2. c \in Commands
  BY DEF Commands
<1>3. CASE stage[c] # "idle"
  BY <1>1, <1>2, <1>3 DEF Steady, Targeted
<1>4. CASE stage[c] = "idle"
  <2> USE <1>2, <1>4 DEF IInv, TypeOK
  <2>1. ASSUME NEW d \in Commands, NEW s \in Sessions, RequestStop(d, s)
        PROVE  session'[c] \in Sessions /\ ConnectorOf[session'[c]] = connector'[c]
    BY <2>1 DEF RequestStop, Move
  <2>2. ASSUME NEW d \in Commands, RequestStart(d) PROVE FALSE
    BY <2>2, ConstantsAssumption DEF RequestStart, Move
  <2>3. ASSUME NEW d \in Commands,
               \/ AssertNoConflictingCommand(d) \/ CreateCommand(d)
               \/ RejectBeforeSend(d) \/ SendCall(d) \/ PersistSent(d)
               \/ RegisterAccepted(d) \/ ExpiryFires(d)
        PROVE  FALSE
    BY <2>3 DEF AssertNoConflictingCommand, CreateCommand, RejectBeforeSend, SendCall,
                PersistSent, RegisterAccepted, ExpiryFires, Move
  <2>4. ASSUME NEW d \in Commands, PersistOutcome(d) PROVE FALSE
    BY <2>4 DEF PersistOutcome, Move
  <2>5. ASSUME NEW d \in Commands, PendingTimeout(d) PROVE FALSE
    BY <2>5 DEF PendingTimeout, Move, AwaitingIsPending
  <2>6. ASSUME NEW r \in replies, ReceiveReply(r) PROVE FALSE
    BY <2>6 DEF ReceiveReply, Reply, Move, AwaitingIsPending
  <2>7. CASE UNCHANGED stage
    BY <2>7
  <2>8. CASE \/ \E t \in tasks : \/ CheckImmediately(t) \/ ReadCommand(t)
                                 \/ ConfirmCommand(t) \/ MarkUnconfirmed(t)
             \/ \E o \in observed : OnTransactionObserved(o)
             \/ \E d \in Commands, v \in Verdict : ChargerAnswers(d, v)
             \/ \E s \in Sessions : \/ StartTransaction(s) \/ RepeatedStartTransaction(s)
                                    \/ StopTransaction(s) \/ SessionConnectivity(s)
             \/ \E old, s \in Sessions : SupersedeSession(old, s)
             \/ \E st \in Stations : LinkChanges(st)
             \/ UNCHANGED vars
    <3>1. UNCHANGED stage
      BY <2>8 DEF CheckImmediately, ReadCommand, ConfirmCommand, MarkUnconfirmed,
                  OnTransactionObserved, ChargerAnswers, StartTransaction,
                  RepeatedStartTransaction, StopTransaction, SessionConnectivity,
                  SupersedeSession, LinkChanges, vars, memory
    <3>2. QED
      BY <2>7, <3>1
  <2>9. CASE Restart \/ DatabaseError
    BY <2>9 DEF Restart, DatabaseError, Move
  <2>10. QED
    BY <2>1, <2>2, <2>3, <2>4, <2>5, <2>6, <2>8, <2>9, NextCases
<1>5. QED
  BY <1>3, <1>4

\* Where a coroutine that confirms comes from: from itself a step earlier, or
\* from evidence found.
LEMMA TasksComeFrom ==
    ASSUME IInv, EInv, [Next]_vars, NEW t \in tasks', t.kind = "confirm"
    PROVE  \/ \E u \in tasks : u.kind = "confirm" /\ u.cmd = t.cmd /\ u.link = t.link
           \/ t.cmd \in Commands /\ state[t.cmd] # "NONE" /\ Proves(t.cmd, t.link)
<1> DEFINE G == \/ \E u \in tasks : u.kind = "confirm" /\ u.cmd = t.cmd /\ u.link = t.link
                \/ t.cmd \in Commands /\ state[t.cmd] # "NONE" /\ Proves(t.cmd, t.link)
<1> SUFFICES G
  OBVIOUS
<1>1. CASE t \in tasks
  BY <1>1
<1>2. ASSUME t \notin tasks PROVE G
  <2> USE <1>2
  <2>1. ASSUME NEW c \in Commands,
               \/ AssertNoConflictingCommand(c) \/ CreateCommand(c)
               \/ RejectBeforeSend(c) \/ SendCall(c) \/ PersistSent(c)
               \/ PersistOutcome(c) \/ RegisterAccepted(c) \/ PendingTimeout(c)
               \/ ExpiryFires(c) \/ RequestStart(c)
        PROVE  FALSE
    BY <2>1 DEF AssertNoConflictingCommand, CreateCommand, RejectBeforeSend, SendCall,
                PersistSent, PersistOutcome, RegisterAccepted, PendingTimeout, ExpiryFires,
                RequestStart, CheckTask, ExpireTask
  <2>2. ASSUME NEW u \in tasks, CheckImmediately(u) PROVE G
    <3>1. u.cmd \in Commands /\ state[u.cmd] # "NONE"
      BY DEF IInv, TypeOK, Task, RowsAsKnown, WatchedWasAccepted, WasAccepted
    <3>2. PICK s \in Sessions : Evidence(u.cmd, s) /\ t = ConfirmTask(u.cmd, s)
      BY <2>2 DEF CheckImmediately, Confirm
    <3>3. Proves(u.cmd, s)
      BY <3>1, <3>2, ConstantsAssumption, AcceptedHasBegun
      DEF Evidence, Proves, EInv, Targeted
    <3>4. t.cmd = u.cmd /\ t.link = s
      BY <3>2 DEF ConfirmTask
    <3>5. QED
      BY <3>1, <3>3, <3>4
  <2>3. ASSUME NEW u \in tasks, ReadCommand(u) PROVE G
    <3>1. u \in Task
      BY DEF IInv, TypeOK
    <3>2. PICK at : t = [u EXCEPT !.at = at]
      BY <2>3 DEF ReadCommand, At
    <3>3. t.kind = u.kind /\ t.cmd = u.cmd /\ t.link = u.link
      BY <3>1, <3>2 DEF Task
    <3>4. QED
      BY <3>3
  <2>4. ASSUME NEW o \in observed, OnTransactionObserved(o) PROVE G
    <3>1. PICK c \in Matching(o) : t = ConfirmTask(c, o.session)
      BY <2>4 DEF OnTransactionObserved, Confirm
    <3>2. c \in Commands /\ state[c] = "ACCEPTED" /\ o \in Observation
      BY <3>1 DEF Matching, IInv, TypeOK
    <3>3. Proves(c, o.session)
      BY <3>1, <3>2, ConstantsAssumption, AcceptedHasBegun
      DEF Matching, Observation, Proves, EInv, Targeted, Witnessed, Commands
    <3>4. t.cmd = c /\ t.link = o.session
      BY <3>1 DEF ConfirmTask
    <3>5. QED
      BY <3>2, <3>3, <3>4
  <2>5. CASE \/ \E u \in tasks : ConfirmCommand(u) \/ MarkUnconfirmed(u)
             \/ \E c \in Commands, s \in Sessions : RequestStop(c, s)
             \/ \E c \in Commands, v \in Verdict : ChargerAnswers(c, v)
             \/ \E r \in replies : ReceiveReply(r)
             \/ \E s \in Sessions : \/ StartTransaction(s) \/ RepeatedStartTransaction(s)
                                    \/ StopTransaction(s) \/ SessionConnectivity(s)
             \/ \E old, s \in Sessions : SupersedeSession(old, s)
             \/ \E st \in Stations : LinkChanges(st)
             \/ Restart \/ DatabaseError \/ UNCHANGED vars
    BY <2>5 DEF ConfirmCommand, MarkUnconfirmed, RequestStop, ChargerAnswers, ReceiveReply,
                StartTransaction, RepeatedStartTransaction, StopTransaction,
                SessionConnectivity, SupersedeSession, LinkChanges, Restart, DatabaseError,
                vars, memory
  <2>6. QED
    BY <2>1, <2>2, <2>3, <2>4, <2>5, NextCases
<1>3. QED
  BY <1>1, <1>2

LEMMA ObservedComesFrom ==
    ASSUME IInv, [Next]_vars, NEW o \in observed', o \notin observed
    PROVE  /\ o.session \in Sessions /\ status'[o.session] # "NONE"
           /\ o.kind = "stop" => status'[o.session] = "COMPLETED"
<1> DEFINE G == /\ o.session \in Sessions /\ status'[o.session] # "NONE"
                /\ o.kind = "stop" => status'[o.session] = "COMPLETED"
<1>1. ASSUME NEW s \in Sessions, StartTransaction(s) \/ RepeatedStartTransaction(s) PROVE G
  BY <1>1 DEF StartTransaction, RepeatedStartTransaction, Observe, LiveSession,
              IInv, TypeOK, database
<1>2. ASSUME NEW s \in Sessions, StopTransaction(s) PROVE G
  BY <1>2 DEF StopTransaction, Observe, IInv, TypeOK
<1>3. ASSUME NEW old \in Sessions, NEW s \in Sessions, SupersedeSession(old, s) PROVE G
  BY <1>3 DEF SupersedeSession, Observe, IInv, TypeOK
<1>4. CASE \/ \E c \in Commands :
                 \/ AssertNoConflictingCommand(c) \/ CreateCommand(c)
                 \/ RejectBeforeSend(c) \/ SendCall(c) \/ PersistSent(c)
                 \/ PersistOutcome(c) \/ RegisterAccepted(c)
                 \/ PendingTimeout(c) \/ ExpiryFires(c) \/ RequestStart(c)
           \/ \E t \in tasks : \/ CheckImmediately(t) \/ ReadCommand(t)
                               \/ ConfirmCommand(t) \/ MarkUnconfirmed(t)
           \/ \E p \in observed : OnTransactionObserved(p)
           \/ \E c \in Commands, s \in Sessions : RequestStop(c, s)
           \/ \E c \in Commands, v \in Verdict : ChargerAnswers(c, v)
           \/ \E r \in replies : ReceiveReply(r)
           \/ \E s \in Sessions : SessionConnectivity(s)
           \/ \E st \in Stations : LinkChanges(st)
           \/ Restart \/ DatabaseError \/ UNCHANGED vars
  BY <1>4 DEF AssertNoConflictingCommand, CreateCommand, RejectBeforeSend, SendCall,
              PersistSent, PersistOutcome, RegisterAccepted, PendingTimeout, ExpiryFires,
              RequestStart, CheckImmediately, ReadCommand, ConfirmCommand, MarkUnconfirmed,
              OnTransactionObserved, RequestStop, ChargerAnswers, ReceiveReply,
              SessionConnectivity, LinkChanges, Restart, DatabaseError, vars, memory
<1>5. QED
  BY <1>1, <1>2, <1>3, <1>4, NextCases

LEMMA WitnessedStep == ASSUME IInv, EInv, [Next]_vars PROVE Witnessed'
<1>1. Steady
  BY SteadyStep
<1>2. ASSUME NEW o \in observed'
      PROVE  /\ status'[o.session] # "NONE"
             /\ o.kind = "stop" => status'[o.session] = "COMPLETED"
  <2>1. CASE o \in observed
    BY <1>1, <2>1 DEF Steady, EInv, Witnessed, IInv, TypeOK, Observation
  <2>2. CASE o \notin observed
    BY <1>2, <2>2, ObservedComesFrom
  <2>3. QED
    BY <2>1, <2>2
<1>3. ASSUME NEW t \in tasks', t.kind = "confirm" PROVE Proves(t.cmd, t.link)'
  <2>1. /\ t.cmd \in Commands /\ state[t.cmd] # "NONE"
        /\ Proves(t.cmd, t.link)
    BY <1>3, TasksComeFrom
    DEF EInv, Witnessed, IInv, TypeOK, Task, RowsAsKnown, WatchedWasAccepted, WasAccepted
  <2>2. PICK c, s : c = t.cmd /\ s = t.link
    OBVIOUS
  <2>3. Proves(c, s)'
    BY <1>1, <2>1, <2>2, ProvesStays
  <2>4. QED
    BY <2>2, <2>3 DEF Proves
<1>4. QED
  BY <1>2, <1>3 DEF Witnessed

LEMMA ConfirmedStep == ASSUME IInv, EInv, [Next]_vars PROVE ConfirmedHasEvidence'
<1>1. Steady
  BY SteadyStep
<1> SUFFICES ASSUME NEW c \in Commands, state'[c] = "CONFIRMED"
             PROVE  /\ session'[c] \in Sessions
                    /\ ConnectorOf[session'[c]] = connector'[c]
                    /\ IF c \in Starts THEN status'[session'[c]] # "NONE"
                                       ELSE status'[session'[c]] = "COMPLETED"
  BY DEF ConfirmedHasEvidence
<1>2. ASSUME NEW t \in tasks, ConfirmCommand(t), t.cmd = c
      PROVE  Proves(c, session'[c])
  <2>1. Proves(c, t.link)
    BY <1>2 DEF ConfirmCommand, EInv, Witnessed
  <2>2. session'[c] = t.link
    BY <1>2, <2>1 DEF ConfirmCommand, Proves, Commands, IInv, TypeOK
  <2>3. QED
    BY <2>1, <2>2
<1>3. ASSUME NEW t \in tasks, ConfirmCommand(t), t.cmd = c
      PROVE  /\ session'[c] \in Sessions
             /\ ConnectorOf[session'[c]] = connector'[c]
             /\ IF c \in Starts THEN status'[session'[c]] # "NONE"
                                ELSE status'[session'[c]] = "COMPLETED"
  <2>1. UNCHANGED <<connector, status>>
    BY <1>3 DEF ConfirmCommand
  <2>2. QED
    BY <1>2, <1>3, <2>1 DEF Proves, Commands
<1>4. ASSUME ~ \E t \in tasks : ConfirmCommand(t) /\ t.cmd = c
      PROVE  state[c] = "CONFIRMED" /\ session'[c] = session[c]
  <2> USE <1>4 DEF IInv, TypeOK
  <2>1. ASSUME NEW d \in Commands, PersistOutcome(d)
        PROVE  state[c] = "CONFIRMED" /\ session'[c] = session[c]
    <3>1. PICK to \in {"TIMED_OUT", "REJECTED", "ACCEPTED"} : state' = [state EXCEPT ![d] = to]
      BY <2>1 DEF PersistOutcome, TransitionAndPersist
    <3>2. UNCHANGED session
      BY <2>1 DEF PersistOutcome
    <3>3. QED
      BY <3>1, <3>2
  <2>2. ASSUME NEW d \in Commands,
               \/ AssertNoConflictingCommand(d) \/ CreateCommand(d)
               \/ RejectBeforeSend(d) \/ SendCall(d) \/ PersistSent(d)
               \/ RegisterAccepted(d) \/ PendingTimeout(d) \/ ExpiryFires(d) \/ RequestStart(d)
        PROVE  state[c] = "CONFIRMED" /\ session'[c] = session[c]
    BY <2>2 DEF AssertNoConflictingCommand, CreateCommand, RejectBeforeSend, SendCall,
                PersistSent, RegisterAccepted, PendingTimeout, ExpiryFires, RequestStart,
                TransitionAndPersist, database
  <2>3. ASSUME NEW t \in tasks, ConfirmCommand(t)
        PROVE  state[c] = "CONFIRMED" /\ session'[c] = session[c]
    <3>1. t.cmd # c /\ t.cmd \in Commands
      BY <2>3 DEF Task
    <3>2. QED
      BY <2>3, <3>1 DEF ConfirmCommand, TransitionAndPersist
  <2>4. ASSUME NEW t \in tasks, CheckImmediately(t) \/ ReadCommand(t) \/ MarkUnconfirmed(t)
        PROVE  state[c] = "CONFIRMED" /\ session'[c] = session[c]
    BY <2>4 DEF CheckImmediately, ReadCommand, MarkUnconfirmed, TransitionAndPersist, database
  <2>5. ASSUME NEW d \in Commands, NEW s \in Sessions, RequestStop(d, s)
        PROVE  state[c] = "CONFIRMED" /\ session'[c] = session[c]
    BY <2>5 DEF RequestStop, RowsAsKnown, RequestKnowsItsRow
  <2>6. CASE \/ \E o \in observed : OnTransactionObserved(o)
             \/ \E d \in Commands, v \in Verdict : ChargerAnswers(d, v)
             \/ \E r \in replies : ReceiveReply(r)
             \/ \E s \in Sessions : \/ StartTransaction(s) \/ RepeatedStartTransaction(s)
                                    \/ StopTransaction(s) \/ SessionConnectivity(s)
             \/ \E old, s \in Sessions : SupersedeSession(old, s)
             \/ \E st \in Stations : LinkChanges(st)
             \/ Restart \/ DatabaseError \/ UNCHANGED vars
    BY <2>6 DEF OnTransactionObserved, ChargerAnswers, ReceiveReply, StartTransaction,
                RepeatedStartTransaction, StopTransaction, SessionConnectivity,
                SupersedeSession, LinkChanges, Restart, DatabaseError, vars, database
  <2>7. QED
    BY <2>1, <2>2, <2>3, <2>4, <2>5, <2>6, NextCases
<1>5. ASSUME ~ \E t \in tasks : ConfirmCommand(t) /\ t.cmd = c
      PROVE  /\ session'[c] \in Sessions
             /\ ConnectorOf[session'[c]] = connector'[c]
             /\ IF c \in Starts THEN status'[session'[c]] # "NONE"
                                ELSE status'[session'[c]] = "COMPLETED"
  <2>1. state[c] = "CONFIRMED" /\ session'[c] = session[c]
    BY <1>4, <1>5
  <2>2. /\ session[c] \in Sessions
        /\ ConnectorOf[session[c]] = connector[c]
        /\ IF c \in Starts THEN status[session[c]] # "NONE"
                           ELSE status[session[c]] = "COMPLETED"
    BY <2>1 DEF EInv, ConfirmedHasEvidence
  <2>3. connector'[c] = connector[c]
    BY <1>1, <2>1, AcceptedHasBegun DEF Steady
  <2>4. QED
    BY <1>1, <2>1, <2>2, <2>3 DEF Steady
<1>6. QED
  BY <1>3, <1>5

LEMMA EvidenceInit == Init => EInv
BY DEF Init, EInv, Targeted, Witnessed, ConfirmedHasEvidence, Commands

LEMMA EvidenceInvariance == Spec => [](IInv /\ EInv)
<1>1. Init => IInv /\ EInv
  BY InvInit, EvidenceInit
<1>2. (IInv /\ EInv) /\ [Next]_vars => (IInv /\ EInv)'
  BY InvStep, TargetedStep, WitnessedStep, ConfirmedStep DEF EInv
<1>3. QED
  BY <1>1, <1>2, PTL DEF Spec

\* CONFIRMED never rests on ACCEPTED alone, whatever comes between the
\* evidence and the write.
THEOREM EvidenceCorrect == Spec => []ConfirmedHasEvidence
<1>1. IInv /\ EInv => ConfirmedHasEvidence
  BY DEF EInv
<1>2. QED
  BY <1>1, EvidenceInvariance, PTL

LEMMA TaskFields ==
    /\ \A c, s : ConfirmTask(c, s).cmd = c /\ ConfirmTask(c, s).kind = "confirm"
    /\ \A c : CheckTask(c).cmd = c /\ CheckTask(c).kind = "check"
    /\ \A c : ExpireTask(c).cmd = c /\ ExpireTask(c).kind = "expire"
BY DEF ConfirmTask, CheckTask, ExpireTask

\* A step without a fault hands a command over, or found it handed over.
LEMMA HandedOver ==
    ASSUME IInv, [Next]_vars, NEW c \in Commands,
           state'[c] = "ACCEPTED", stage'[c] = "done", faults' = 0
    PROVE  /\ faults = 0
           /\ (state[c] = "ACCEPTED" /\ stage[c] = "done") \/ RegisterAccepted(c)
<1> DEFINE G == /\ faults = 0
                /\ (state[c] = "ACCEPTED" /\ stage[c] = "done") \/ RegisterAccepted(c)
<1> USE DEF IInv, TypeOK, RowsAsKnown, RequestKnowsItsRow
<1>1. ASSUME NEW d \in Commands, RegisterAccepted(d) PROVE G
  BY <1>1 DEF RegisterAccepted, Move, database
<1>2. ASSUME NEW d \in Commands, PersistOutcome(d) PROVE G
  <2>1. PICK to, at : /\ state' = [state EXCEPT ![d] = to] /\ Move(d, at)
                      /\ to = "ACCEPTED" => at = "accepted"
    BY <1>2 DEF PersistOutcome, TransitionAndPersist
  <2>2. faults' = faults
    BY <1>2 DEF PersistOutcome
  <2>3. QED
    BY <2>1, <2>2 DEF Move
<1>3. ASSUME NEW d \in Commands,
             \/ AssertNoConflictingCommand(d) \/ CreateCommand(d)
             \/ RejectBeforeSend(d) \/ SendCall(d) \/ PersistSent(d)
             \/ PendingTimeout(d) \/ RequestStart(d)
      PROVE  G
  BY <1>3 DEF AssertNoConflictingCommand, CreateCommand, RejectBeforeSend, SendCall,
              PersistSent, PendingTimeout, RequestStart, TransitionAndPersist, Move, database
<1>4. ASSUME NEW t \in tasks, ConfirmCommand(t) \/ MarkUnconfirmed(t) PROVE G
  BY <1>4 DEF ConfirmCommand, MarkUnconfirmed, TransitionAndPersist
<1>5. ASSUME NEW d \in Commands, NEW s \in Sessions, RequestStop(d, s) PROVE G
  BY <1>5 DEF RequestStop, Move
<1>6. ASSUME NEW r \in replies, ReceiveReply(r) PROVE G
  BY <1>6 DEF ReceiveReply, Move, database
<1>7. CASE \/ \E d \in Commands : ExpiryFires(d)
           \/ \E t \in tasks : CheckImmediately(t) \/ ReadCommand(t)
           \/ \E o \in observed : OnTransactionObserved(o)
           \/ \E d \in Commands, v \in Verdict : ChargerAnswers(d, v)
           \/ \E s \in Sessions : \/ StartTransaction(s) \/ RepeatedStartTransaction(s)
                                  \/ StopTransaction(s) \/ SessionConnectivity(s)
           \/ \E old, s \in Sessions : SupersedeSession(old, s)
           \/ \E st \in Stations : LinkChanges(st)
           \/ UNCHANGED vars
  BY <1>7 DEF ExpiryFires, CheckImmediately, ReadCommand, OnTransactionObserved, ChargerAnswers,
              StartTransaction, RepeatedStartTransaction, StopTransaction, SessionConnectivity,
              SupersedeSession, LinkChanges, vars, memory, database
<1>8. ASSUME Restart \/ DatabaseError PROVE FALSE
  BY <1>8, ConstantsAssumption DEF Restart, DatabaseError, FaultHappens
<1>9. QED
  BY <1>1, <1>2, <1>3, <1>4, <1>5, <1>6, <1>7, <1>8, NextCases

\* Coroutines that confirm or expire an ACCEPTED command go on.
LEMMA TaskGoesOn ==
    ASSUME IInv, [Next]_vars, NEW u \in tasks, u.kind # "check",
           state[u.cmd] = "ACCEPTED", state'[u.cmd] = "ACCEPTED", faults' = 0
    PROVE  \E t \in tasks' : t.cmd = u.cmd /\ t.kind = u.kind
<1> DEFINE G == \E t \in tasks' : t.cmd = u.cmd /\ t.kind = u.kind
<1> USE DEF IInv, TypeOK
<1>1. CASE u \in tasks'
  BY <1>1
<1>2. ASSUME u \notin tasks' PROVE G
  <2> USE <1>2
  <2>1. ASSUME NEW t \in tasks, ReadCommand(t) PROVE G
    <3>1. t = u /\ u \in Task
      BY <2>1 DEF ReadCommand
    <3>2. PICK at : [u EXCEPT !.at = at] \in tasks'
      BY <2>1, <3>1 DEF ReadCommand, At
    <3>3. [u EXCEPT !.at = at].cmd = u.cmd /\ [u EXCEPT !.at = at].kind = u.kind
      BY <3>1 DEF Task
    <3>4. QED
      BY <3>2, <3>3
  <2>2. ASSUME NEW t \in tasks, ConfirmCommand(t) \/ MarkUnconfirmed(t) PROVE G
    BY <2>2 DEF ConfirmCommand, MarkUnconfirmed, TransitionAndPersist, Task
  <2>3. ASSUME NEW t \in tasks, CheckImmediately(t) PROVE G
    BY <2>3 DEF CheckImmediately, Confirm
  <2>4. CASE \/ \E c \in Commands :
                   \/ AssertNoConflictingCommand(c) \/ CreateCommand(c)
                   \/ RejectBeforeSend(c) \/ SendCall(c) \/ PersistSent(c)
                   \/ PersistOutcome(c) \/ RegisterAccepted(c)
                   \/ PendingTimeout(c) \/ ExpiryFires(c) \/ RequestStart(c)
             \/ \E o \in observed : OnTransactionObserved(o)
    BY <2>4 DEF AssertNoConflictingCommand, CreateCommand, RejectBeforeSend, SendCall,
                PersistSent, PersistOutcome, RegisterAccepted, PendingTimeout, ExpiryFires,
                RequestStart, OnTransactionObserved, Confirm
  <2>5. CASE \/ \E c \in Commands, s \in Sessions : RequestStop(c, s)
             \/ \E c \in Commands, v \in Verdict : ChargerAnswers(c, v)
             \/ \E r \in replies : ReceiveReply(r)
             \/ \E s \in Sessions : \/ StartTransaction(s) \/ RepeatedStartTransaction(s)
                                    \/ StopTransaction(s) \/ SessionConnectivity(s)
             \/ \E old, s \in Sessions : SupersedeSession(old, s)
             \/ \E st \in Stations : LinkChanges(st)
             \/ UNCHANGED vars
    BY <2>5 DEF RequestStop, ChargerAnswers, ReceiveReply, StartTransaction,
                RepeatedStartTransaction, StopTransaction, SessionConnectivity,
                SupersedeSession, LinkChanges, vars, memory
  <2>6. ASSUME Restart \/ DatabaseError PROVE FALSE
    BY <2>6, ConstantsAssumption DEF Restart, DatabaseError, FaultHappens
  <2>7. QED
    BY <2>1, <2>2, <2>3, <2>4, <2>5, <2>6, NextCases
<1>3. QED
  BY <1>1, <1>2

\* A timer leaves a coroutine behind: confirm clears it, expire is what it runs.
LEMMA TimerGoesOn ==
    ASSUME IInv, [Next]_vars, NEW c \in timers, c \notin timers', faults' = 0
    PROVE  \E t \in tasks' : t.cmd = c /\ t.kind # "check"
<1> DEFINE G == \E t \in tasks' : t.cmd = c /\ t.kind # "check"
<1> USE DEF IInv, TypeOK
<1>1. ASSUME NEW t \in tasks, CheckImmediately(t) PROVE G
  BY <1>1, TaskFields DEF CheckImmediately, Confirm
<1>2. ASSUME NEW o \in observed, OnTransactionObserved(o) PROVE G
  BY <1>2, TaskFields DEF OnTransactionObserved, Confirm
<1>3. ASSUME NEW d \in Commands, ExpiryFires(d) PROVE G
  BY <1>3, TaskFields DEF ExpiryFires
<1>4. ASSUME NEW d \in Commands,
             \/ AssertNoConflictingCommand(d) \/ CreateCommand(d)
             \/ RejectBeforeSend(d) \/ SendCall(d) \/ PersistSent(d)
             \/ PersistOutcome(d) \/ RegisterAccepted(d)
             \/ PendingTimeout(d) \/ RequestStart(d)
      PROVE  FALSE
  BY <1>4 DEF AssertNoConflictingCommand, CreateCommand, RejectBeforeSend, SendCall,
              PersistSent, PersistOutcome, RegisterAccepted, PendingTimeout, RequestStart
<1>5. ASSUME \/ \E t \in tasks : ReadCommand(t) \/ ConfirmCommand(t) \/ MarkUnconfirmed(t)
             \/ \E d \in Commands, s \in Sessions : RequestStop(d, s)
             \/ \E d \in Commands, v \in Verdict : ChargerAnswers(d, v)
             \/ \E r \in replies : ReceiveReply(r)
             \/ \E s \in Sessions : \/ StartTransaction(s) \/ RepeatedStartTransaction(s)
                                    \/ StopTransaction(s) \/ SessionConnectivity(s)
             \/ \E old, s \in Sessions : SupersedeSession(old, s)
             \/ \E st \in Stations : LinkChanges(st)
             \/ UNCHANGED vars
      PROVE  FALSE
  BY <1>5 DEF ReadCommand, ConfirmCommand, MarkUnconfirmed, RequestStop, ChargerAnswers,
              ReceiveReply, StartTransaction, RepeatedStartTransaction, StopTransaction,
              SessionConnectivity, SupersedeSession, LinkChanges, vars, memory
<1>6. ASSUME Restart \/ DatabaseError PROVE FALSE
  BY <1>6, ConstantsAssumption DEF Restart, DatabaseError, FaultHappens
<1>7. QED
  BY <1>1, <1>2, <1>3, <1>4, <1>5, <1>6, NextCases

LEMMA WatchedStep == ASSUME IInv, AcceptedIsWatched, [Next]_vars PROVE AcceptedIsWatched'
<1> SUFFICES ASSUME NEW c \in Commands,
                    state'[c] = "ACCEPTED", stage'[c] = "done", faults' = 0
             PROVE  c \in timers' \/ \E t \in tasks' : t.cmd = c /\ t.kind # "check"
  BY DEF AcceptedIsWatched
<1>1. faults = 0 /\ ((state[c] = "ACCEPTED" /\ stage[c] = "done") \/ RegisterAccepted(c))
  BY HandedOver
<1>2. CASE RegisterAccepted(c)
  BY <1>2 DEF RegisterAccepted
<1>3. CASE state[c] = "ACCEPTED" /\ stage[c] = "done"
  <2>1. c \in timers \/ \E u \in tasks : u.cmd = c /\ u.kind # "check"
    BY <1>1, <1>3 DEF AcceptedIsWatched
  <2>2. CASE c \in timers
    BY <2>2, TimerGoesOn
  <2>3. ASSUME NEW u \in tasks, u.cmd = c, u.kind # "check"
        PROVE  \E t \in tasks' : t.cmd = c /\ t.kind # "check"
    BY <1>3, <2>3, TaskGoesOn
  <2>4. QED
    BY <2>1, <2>2, <2>3
<1>4. QED
  BY <1>1, <1>2, <1>3

\* Two requests to stop one session are not both ACCEPTED.
LEMMA OneStopOfASession ==
    ASSUME IInv, Targeted, NEW c \in Stops, NEW d \in Stops,
           state[c] = "ACCEPTED", state[d] = "ACCEPTED", session[c] = session[d]
    PROVE  c = d
<1>1. c \in Commands /\ d \in Commands
  BY DEF Commands
<1>2. connector[c] = connector[d]
  BY <1>1, AcceptedHasBegun DEF Targeted
<1>3. QED
  BY <1>1, <1>2 DEF IInv, OneActivePerConnector, NonTerminal

\* The check of a stop whose session is COMPLETED confirms it.
LEMMA CheckGoesOn ==
    ASSUME IInv, Targeted, [Next]_vars, NEW u \in tasks, u.kind = "check", u.cmd \in Stops,
           state[u.cmd] = "ACCEPTED", status[session[u.cmd]] = "COMPLETED", faults' = 0
    PROVE  \E t \in tasks' : t.cmd = u.cmd /\ t.kind \in {"check", "confirm"}
<1> DEFINE G == \E t \in tasks' : t.cmd = u.cmd /\ t.kind \in {"check", "confirm"}
<1> USE DEF IInv, TypeOK
<1>1. CASE u \in tasks'
  BY <1>1
<1>2. ASSUME u \notin tasks' PROVE G
  <2> USE <1>2
  <2>1. ASSUME NEW t \in tasks, CheckImmediately(t) PROVE G
    <3>1. t = u
      BY <2>1 DEF CheckImmediately, Confirm
    <3>2. session[u.cmd] \in Sessions /\ u.cmd \in Commands /\ u.cmd \notin Starts
      BY AcceptedHasBegun, ConstantsAssumption DEF Targeted, Commands
    <3>3. ~NoEvidence(u.cmd)
      BY <3>2 DEF NoEvidence, Evidence
    <3>4. QED
      BY <2>1, <3>1, <3>3, TaskFields DEF CheckImmediately, Confirm
  <2>2. ASSUME NEW t \in tasks, ReadCommand(t) \/ ConfirmCommand(t) \/ MarkUnconfirmed(t)
        PROVE  FALSE
    BY <2>2 DEF ReadCommand, ConfirmCommand, MarkUnconfirmed
  <2>3. ASSUME \/ \E c \in Commands :
                     \/ AssertNoConflictingCommand(c) \/ CreateCommand(c)
                     \/ RejectBeforeSend(c) \/ SendCall(c) \/ PersistSent(c)
                     \/ PersistOutcome(c) \/ RegisterAccepted(c)
                     \/ PendingTimeout(c) \/ ExpiryFires(c) \/ RequestStart(c)
               \/ \E o \in observed : OnTransactionObserved(o)
        PROVE  FALSE
    BY <2>3 DEF AssertNoConflictingCommand, CreateCommand, RejectBeforeSend, SendCall,
                PersistSent, PersistOutcome, RegisterAccepted, PendingTimeout, ExpiryFires,
                RequestStart, OnTransactionObserved, Confirm
  <2>4. ASSUME \/ \E c \in Commands, s \in Sessions : RequestStop(c, s)
               \/ \E c \in Commands, v \in Verdict : ChargerAnswers(c, v)
               \/ \E r \in replies : ReceiveReply(r)
               \/ \E s \in Sessions : \/ StartTransaction(s) \/ RepeatedStartTransaction(s)
                                      \/ StopTransaction(s) \/ SessionConnectivity(s)
               \/ \E old, s \in Sessions : SupersedeSession(old, s)
               \/ \E st \in Stations : LinkChanges(st)
               \/ UNCHANGED vars
        PROVE  FALSE
    BY <2>4 DEF RequestStop, ChargerAnswers, ReceiveReply, StartTransaction,
                RepeatedStartTransaction, StopTransaction, SessionConnectivity,
                SupersedeSession, LinkChanges, vars, memory
  <2>5. ASSUME Restart \/ DatabaseError PROVE FALSE
    BY <2>5, ConstantsAssumption DEF Restart, DatabaseError, FaultHappens
  <2>6. QED
    BY <2>1, <2>2, <2>3, <2>4, <2>5, NextCases
<1>3. QED
  BY <1>1, <1>2

\* An observed stop of an ACCEPTED command stays observed or is being confirmed.
LEMMA ObservationGoesOn ==
    ASSUME IInv, Targeted, [Next]_vars, NEW c \in Stops, NEW o \in observed, faults' = 0,
           state[c] = "ACCEPTED", o.kind = "stop", o.session = session[c]
    PROVE  o \in observed' \/ \E t \in tasks' : t.cmd = c /\ t.kind = "confirm"
<1> DEFINE G == \E t \in tasks' : t.cmd = c /\ t.kind = "confirm"
<1> SUFFICES ASSUME o \notin observed' PROVE G
  OBVIOUS
<1>1. ASSUME NEW p \in observed, OnTransactionObserved(p) PROVE G
  <2>1. p = o
    BY <1>1 DEF OnTransactionObserved
  <2>2. c \in Matching(o)
    BY DEF Matching, Commands
  <2>3. PICK d \in Matching(o) : Confirm(d, o.session, {})
    BY <1>1, <2>1, <2>2 DEF OnTransactionObserved
  <2>4. d = c
    BY <2>3, OneStopOfASession DEF Matching
  <2>5. QED
    BY <2>3, <2>4, TaskFields DEF Confirm
<1>2. ASSUME \/ \E d \in Commands :
                   \/ AssertNoConflictingCommand(d) \/ CreateCommand(d)
                   \/ RejectBeforeSend(d) \/ SendCall(d) \/ PersistSent(d)
                   \/ PersistOutcome(d) \/ RegisterAccepted(d)
                   \/ PendingTimeout(d) \/ ExpiryFires(d) \/ RequestStart(d)
             \/ \E t \in tasks : \/ CheckImmediately(t) \/ ReadCommand(t)
                                 \/ ConfirmCommand(t) \/ MarkUnconfirmed(t)
      PROVE  FALSE
  BY <1>2 DEF AssertNoConflictingCommand, CreateCommand, RejectBeforeSend, SendCall,
              PersistSent, PersistOutcome, RegisterAccepted, PendingTimeout, ExpiryFires,
              RequestStart, CheckImmediately, ReadCommand, ConfirmCommand, MarkUnconfirmed
<1>3. ASSUME \/ \E d \in Commands, s \in Sessions : RequestStop(d, s)
             \/ \E d \in Commands, v \in Verdict : ChargerAnswers(d, v)
             \/ \E r \in replies : ReceiveReply(r)
             \/ \E s \in Sessions : \/ StartTransaction(s) \/ RepeatedStartTransaction(s)
                                    \/ StopTransaction(s) \/ SessionConnectivity(s)
             \/ \E old, s \in Sessions : SupersedeSession(old, s)
             \/ \E st \in Stations : LinkChanges(st)
             \/ UNCHANGED vars
      PROVE  FALSE
  BY <1>3 DEF RequestStop, ChargerAnswers, ReceiveReply, StartTransaction,
              RepeatedStartTransaction, StopTransaction, SessionConnectivity,
              SupersedeSession, LinkChanges, Observe, vars, memory
<1>4. ASSUME Restart \/ DatabaseError PROVE FALSE
  BY <1>4, ConstantsAssumption DEF Restart, DatabaseError, FaultHappens, IInv, TypeOK
<1>5. QED
  BY <1>1, <1>2, <1>3, <1>4, NextCases

\* Only a StopTransaction completes a session, and it is observed.
LEMMA CompletionIsObserved ==
    ASSUME IInv, [Next]_vars, NEW s \in Sessions,
           status[s] # "COMPLETED", status'[s] = "COMPLETED"
    PROVE  [kind |-> "stop", session |-> s] \in observed'
<1> DEFINE G == [kind |-> "stop", session |-> s] \in observed'
<1> USE DEF IInv, TypeOK
<1>1. ASSUME NEW p \in Sessions, StopTransaction(p) PROVE G
  BY <1>1 DEF StopTransaction, Observe
<1>2. ASSUME NEW p \in Sessions,
             StartTransaction(p) \/ RepeatedStartTransaction(p) \/ SessionConnectivity(p)
      PROVE  FALSE
  BY <1>2 DEF StartTransaction, RepeatedStartTransaction, SessionConnectivity, database
<1>3. ASSUME NEW old \in Sessions, NEW p \in Sessions, SupersedeSession(old, p) PROVE FALSE
  BY <1>3 DEF SupersedeSession
<1>4. ASSUME \/ \E c \in Commands :
                   \/ AssertNoConflictingCommand(c) \/ CreateCommand(c)
                   \/ RejectBeforeSend(c) \/ SendCall(c) \/ PersistSent(c)
                   \/ PersistOutcome(c) \/ RegisterAccepted(c)
                   \/ PendingTimeout(c) \/ ExpiryFires(c) \/ RequestStart(c)
             \/ \E t \in tasks : \/ CheckImmediately(t) \/ ReadCommand(t)
                                 \/ ConfirmCommand(t) \/ MarkUnconfirmed(t)
      PROVE  FALSE
  BY <1>4 DEF AssertNoConflictingCommand, CreateCommand, RejectBeforeSend, SendCall,
              PersistSent, PersistOutcome, RegisterAccepted, PendingTimeout, ExpiryFires,
              RequestStart, CheckImmediately, ReadCommand, ConfirmCommand, MarkUnconfirmed,
              database
<1>5. ASSUME \/ \E o \in observed : OnTransactionObserved(o)
             \/ \E c \in Commands, p \in Sessions : RequestStop(c, p)
             \/ \E c \in Commands, v \in Verdict : ChargerAnswers(c, v)
             \/ \E r \in replies : ReceiveReply(r)
             \/ \E st \in Stations : LinkChanges(st)
             \/ Restart \/ DatabaseError \/ UNCHANGED vars
      PROVE  FALSE
  BY <1>5 DEF OnTransactionObserved, RequestStop, ChargerAnswers, ReceiveReply, LinkChanges,
              Restart, DatabaseError, vars, database
<1>6. QED
  BY <1>1, <1>2, <1>3, <1>4, <1>5, NextCases

LEMMA StopStep ==
    ASSUME IInv, EInv, StopConfirmationNotLost, [Next]_vars PROVE StopConfirmationNotLost'
<1> SUFFICES ASSUME NEW c \in Stops,
                    state'[c] = "ACCEPTED", stage'[c] = "done", faults' = 0,
                    status'[session'[c]] = "COMPLETED"
             PROVE  \/ [kind |-> "stop", session |-> session'[c]] \in observed'
                    \/ \E t \in tasks' : t.cmd = c /\ t.kind \in {"check", "confirm"}
  BY DEF StopConfirmationNotLost
<1>1. c \in Commands /\ Targeted /\ Steady
  BY SteadyStep DEF Commands, EInv
<1>2. faults = 0 /\ ((state[c] = "ACCEPTED" /\ stage[c] = "done") \/ RegisterAccepted(c))
  BY <1>1, HandedOver
<1>3. CASE RegisterAccepted(c)
  BY <1>3, TaskFields DEF RegisterAccepted
<1>4. CASE state[c] = "ACCEPTED" /\ stage[c] = "done"
  <2>1. session'[c] = session[c] /\ session[c] \in Sessions
    BY <1>1, <1>4 DEF Steady, Targeted
  <2>2. CASE status[session[c]] # "COMPLETED"
    BY <2>1, <2>2, CompletionIsObserved
  <2>3. CASE status[session[c]] = "COMPLETED"
    <3>1. \/ [kind |-> "stop", session |-> session[c]] \in observed
          \/ \E u \in tasks : u.cmd = c /\ u.kind \in {"check", "confirm"}
      BY <1>2, <1>4, <2>3 DEF StopConfirmationNotLost
    <3>2. CASE [kind |-> "stop", session |-> session[c]] \in observed
      <4> DEFINE o == [kind |-> "stop", session |-> session[c]]
      <4>1. o \in observed /\ o.kind = "stop" /\ o.session = session[c]
        BY <3>2
      <4>2. o \in observed' \/ \E t \in tasks' : t.cmd = c /\ t.kind = "confirm"
        <5> HIDE DEF o
        <5>1. QED
          BY <1>1, <1>4, <4>1, ObservationGoesOn
      <4>3. QED
        BY <2>1, <4>2
    <3>3. ASSUME NEW u \in tasks, u.cmd = c, u.kind \in {"check", "confirm"}
          PROVE  \E t \in tasks' : t.cmd = c /\ t.kind \in {"check", "confirm"}
      <4>1. CASE u.kind = "check"
        BY <1>1, <1>4, <2>3, <3>3, <4>1, CheckGoesOn
      <4>2. CASE u.kind = "confirm"
        BY <1>4, <3>3, <4>2, TaskGoesOn
      <4>3. QED
        BY <3>3, <4>1, <4>2
    <3>4. QED
      BY <3>1, <3>2, <3>3
  <2>4. QED
    BY <2>2, <2>3
<1>5. QED
  BY <1>2, <1>3, <1>4

LEMMA WatchInvariance == Spec => []WInv
<1>1. Init => WInv
  BY DEF Init, WInv, AcceptedIsWatched, StopConfirmationNotLost, Commands
<1>2. WInv /\ (IInv /\ EInv) /\ [Next]_vars => WInv'
  BY WatchedStep, StopStep DEF WInv
<1>3. QED
  BY <1>1, <1>2, EvidenceInvariance, PTL DEF Spec

\* Without a fault, a registered ACCEPTED command always has a timer or a
\* coroutine that resolves it.
THEOREM WatchCorrect == Spec => []AcceptedIsWatched
<1>1. WInv => AcceptedIsWatched
  BY DEF WInv
<1>2. QED
  BY <1>1, WatchInvariance, PTL

\* Whichever of the answer and the StopTransaction comes first, the stop is
\* on its way to be confirmed.
THEOREM StopRaceCorrect == Spec => []StopConfirmationNotLost
<1>1. WInv => StopConfirmationNotLost
  BY DEF WInv
<1>2. QED
  BY <1>1, WatchInvariance, PTL

-----------------------------------------------------------------------------
(* Nobody is left behind: what Resolved rests on besides fairness.         *)

\* A request that is over has not left its row before ACCEPTED.
NoneLeftOpen ==
    faults = 0 => \A c \in Commands : stage[c] = "done" => state[c] \notin {"REQUESTED", "SENT"}

LEMMA NoneLeftStep ==
    ASSUME IInv, NoneLeftOpen, [Next]_vars
    PROVE  NoneLeftOpen'
<1> SUFFICES ASSUME faults' = 0, NEW c \in Commands, stage'[c] = "done"
             PROVE  state'[c] \notin {"REQUESTED", "SENT"}
  BY DEF NoneLeftOpen
<1> DEFINE G == state'[c] \notin {"REQUESTED", "SENT"}
<1>0. /\ state \in [Commands -> CommandState] /\ stage \in [Commands -> Stage]
      /\ stage[c] \in {"idle", "checked", "clear"} => state[c] = "NONE"
      /\ stage[c] = "accepted" => state[c] \notin {"REQUESTED", "SENT"}
      /\ faults = 0 /\ stage[c] = "done" => state[c] \notin {"REQUESTED", "SENT"}
  BY DEF IInv, TypeOK, RowsAsKnown, RequestKnowsItsRow, WasAccepted, NoneLeftOpen
<1>1. ASSUME UNCHANGED <<state, stage, faults>> PROVE G
  BY <1>1, <1>0
<1>2. ASSUME NEW d \in Commands, AssertNoConflictingCommand(d) \/ CreateCommand(d) PROVE G
  BY <1>2, <1>0 DEF AssertNoConflictingCommand, CreateCommand, Move, database
<1>3. ASSUME NEW d \in Commands, RejectBeforeSend(d) \/ SendCall(d) \/ PersistSent(d) PROVE G
  BY <1>3, <1>0 DEF RejectBeforeSend, SendCall, PersistSent, TransitionAndPersist, Move, database
<1>4. ASSUME NEW d \in Commands, PersistOutcome(d) PROVE G
  <2>1. PICK to, at : /\ state' = [state EXCEPT ![d] = to] /\ Move(d, at)
                      /\ to \in {"TIMED_OUT", "REJECTED", "ACCEPTED"}
    BY <1>4 DEF PersistOutcome, TransitionAndPersist
  <2>2. faults = 0
    BY <1>4 DEF PersistOutcome
  <2>3. QED
    BY <1>0, <2>1, <2>2 DEF Move
<1>5. ASSUME NEW d \in Commands, RegisterAccepted(d) \/ PendingTimeout(d) \/ RequestStart(d) PROVE G
  BY <1>5, <1>0 DEF RegisterAccepted, PendingTimeout, RequestStart, Move, database
<1>6. ASSUME NEW d \in Commands, NEW s \in Sessions, RequestStop(d, s) PROVE G
  BY <1>6, <1>0 DEF RequestStop, Move
<1>7. ASSUME NEW r \in replies, ReceiveReply(r) PROVE G
  BY <1>7, <1>0 DEF ReceiveReply, Move, database
<1>8. ASSUME NEW t \in tasks, ConfirmCommand(t) \/ MarkUnconfirmed(t) PROVE G
  BY <1>8, <1>0 DEF ConfirmCommand, MarkUnconfirmed, TransitionAndPersist
<1>9. ~ Restart /\ ~ DatabaseError
  <2>1. faults \in Nat
    BY ConstantsAssumption DEF IInv, TypeOK
  <2>2. QED
    BY <2>1 DEF Restart, DatabaseError, FaultHappens
<1>10. ASSUME \/ \E t \in tasks : CheckImmediately(t) \/ ReadCommand(t)
              \/ \E d \in Commands : ExpiryFires(d)
              \/ \E o \in observed : OnTransactionObserved(o)
              \/ \E d \in Commands, v \in Verdict : ChargerAnswers(d, v)
              \/ \E s \in Sessions : \/ StartTransaction(s) \/ RepeatedStartTransaction(s)
                                     \/ StopTransaction(s) \/ SessionConnectivity(s)
              \/ \E old, s \in Sessions : SupersedeSession(old, s)
              \/ \E st \in Stations : LinkChanges(st)
              \/ UNCHANGED vars
      PROVE  UNCHANGED <<state, stage, faults>>
  BY <1>10 DEF CheckImmediately, ReadCommand, ExpiryFires, OnTransactionObserved, ChargerAnswers,
              StartTransaction, RepeatedStartTransaction, StopTransaction, SessionConnectivity,
              SupersedeSession, LinkChanges, vars, database, memory
<1>11. ASSUME Next PROVE G
  BY <1>1, <1>2, <1>3, <1>4, <1>5, <1>6, <1>7, <1>8, <1>9, <1>10, <1>11, NextCases
<1>12. ASSUME UNCHANGED vars PROVE G
  BY <1>1, <1>10, <1>12
<1>13. QED
  BY <1>11, <1>12 DEF G

\* Without a fault, every command in progress has somebody in charge: its own
\* request, a timer, or a coroutine that resolves it.
THEOREM InProgressIsDriven ==
  Spec => [](\A c \in Commands :
               state[c] \in NonTerminal /\ faults = 0 =>
                  \/ stage[c] \in {"created", "awaiting", "answered", "sent", "accepted"}
                  \/ c \in timers
                  \/ \E t \in tasks : t.cmd = c /\ t.kind # "check")
<1> DEFINE Driven(c) == \/ stage[c] \in {"created", "awaiting", "answered", "sent", "accepted"}
                        \/ c \in timers
                        \/ \E t \in tasks : t.cmd = c /\ t.kind # "check"
<1>1. Init => NoneLeftOpen
  BY DEF Init, NoneLeftOpen
<1>2. IInv /\ NoneLeftOpen /\ [Next]_vars => NoneLeftOpen'
  BY NoneLeftStep
<1>3. IInv /\ NoneLeftOpen /\ AcceptedIsWatched =>
         \A c \in Commands : state[c] \in NonTerminal /\ faults = 0 => Driven(c)
  <2> SUFFICES ASSUME IInv, NoneLeftOpen, AcceptedIsWatched, NEW c \in Commands,
                      state[c] \in NonTerminal, faults = 0
               PROVE  Driven(c)
    OBVIOUS
  <2>1. stage[c] \in Stage \ {"idle", "checked", "clear"}
    BY DEF IInv, TypeOK, RowsAsKnown, RequestKnowsItsRow, NonTerminal
  <2>2. CASE stage[c] = "done"
    <3>1. state[c] = "ACCEPTED"
      BY <2>2 DEF NoneLeftOpen, NonTerminal
    <3>2. QED
      BY <2>2, <3>1 DEF AcceptedIsWatched
  <2>3. QED
    BY <2>1, <2>2 DEF Stage
<1>4. QED
  BY <1>1, <1>2, <1>3, Invariance, WatchCorrect, PTL DEF Spec

=============================================================================
