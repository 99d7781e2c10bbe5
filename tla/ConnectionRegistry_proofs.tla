---------------------- MODULE ConnectionRegistry_proofs ----------------------
(***************************************************************************)
(* Theorems of ConnectionRegistry: for every set of stations and sockets,  *)
(* every threshold and every sweep interval.                               *)
(***************************************************************************)
EXTENDS ConnectionRegistry, TLAPS

\* A record is at most as old as the threshold and the time since the last
\* sweep; a station without one has no age.
AgeInv ==
    \A st \in Stations :
        /\ age[st] <= StaleThreshold + (SweepInterval - due)
        /\ record[st] = NoSocket => age[st] = 0

\* A peer that is still there was heard within MaxSilence.
HeardInv == \A s \in Sockets : socket[s] = "open" => age[Owner[s]] <= MaxSilence

\* A station's record is a socket of its own.
OwnRecord == \A st \in Stations : record[st] # NoSocket => Owner[record[st]] = st

IInv == TypeOK /\ OwnRecord /\ RecordIsOpenSocket /\ AgeInv /\ HeardInv

LEMMA InvInit == Init => IInv
BY ConstantsAssumption
DEF Init, IInv, TypeOK, OwnRecord, RecordIsOpenSocket, AgeInv, HeardInv, Held

LEMMA InvStep == IInv /\ [Next]_vars => IInv'
<1> SUFFICES ASSUME IInv, [Next]_vars PROVE IInv'
  OBVIOUS
<1> USE ConstantsAssumption DEF IInv, TypeOK, OwnRecord, RecordIsOpenSocket, Held
<1>1. ASSUME NEW s \in Sockets, Register(s) PROVE IInv'
  <2>1. TypeOK'
    BY <1>1 DEF Register
  <2>2. OwnRecord' /\ RecordIsOpenSocket'
    BY <1>1 DEF Register
  <2>3. AgeInv' /\ HeardInv'
    BY <1>1, <2>1 DEF Register, AgeInv, HeardInv
  <2>4. QED
    BY <2>1, <2>2, <2>3
<1>2. ASSUME NEW s \in Sockets, Touch(s) PROVE IInv'
  BY <1>2 DEF Touch, AgeInv, HeardInv
<1>3. ASSUME NEW s \in Sockets, Unregister(s) PROVE IInv'
  <2>1. TypeOK' /\ OwnRecord' /\ RecordIsOpenSocket'
    BY <1>3 DEF Unregister
  <2>2. AgeInv' /\ HeardInv'
    BY <1>3, <2>1 DEF Unregister, AgeInv, HeardInv
  <2>3. QED
    BY <2>1, <2>2
<1>4. ASSUME NEW s \in Sockets, PeerVanishes(s) PROVE IInv'
  BY <1>4 DEF PeerVanishes, AgeInv, HeardInv
<1>5. ASSUME NEW st \in Stations, ForceDisconnect(st) PROVE IInv'
  <2>1. TypeOK' /\ OwnRecord' /\ RecordIsOpenSocket'
    BY <1>5 DEF ForceDisconnect
  <2>2. AgeInv' /\ HeardInv'
    BY <1>5, <2>1 DEF ForceDisconnect, AgeInv, HeardInv
  <2>3. QED
    BY <2>1, <2>2
<1>6. CASE SweepStale
  <2>1. TypeOK' /\ OwnRecord' /\ RecordIsOpenSocket'
    BY <1>6 DEF SweepStale, Stale
  <2>2. AgeInv'
    BY <1>6, <2>1 DEF SweepStale, Stale, AgeInv
  <2>3. HeardInv'
    BY <1>6, <2>1 DEF SweepStale, Stale, HeardInv
  <2>4. QED
    BY <2>1, <2>2, <2>3
<1>7. CASE Tick
  <2>1. TypeOK' /\ OwnRecord' /\ RecordIsOpenSocket'
    BY <1>7 DEF Tick
  <2>2. AgeInv'
    BY <1>7, <2>1 DEF Tick, AgeInv
  <2>3. HeardInv'
    BY <1>7, <2>1 DEF Tick, HeardInv
  <2>4. QED
    BY <2>1, <2>2, <2>3
<1>8. CASE Restart
  BY <1>8 DEF Restart, AgeInv, HeardInv
<1>9. CASE UNCHANGED vars
  BY <1>9 DEF vars, AgeInv, HeardInv
<1>10. QED
  BY <1>1, <1>2, <1>3, <1>4, <1>5, <1>6, <1>7, <1>8, <1>9 DEF Next

LEMMA Invariance == Spec => []IInv
BY InvInit, InvStep, PTL DEF Spec

\* Every record, socket and timer of the registry stays in its range.
THEOREM TypeCorrect == Spec => []TypeOK
<1>1. IInv => TypeOK
  BY DEF IInv
<1>2. QED
  BY <1>1, Invariance, PTL

\* One socket in use per station, and the registry knows which, whatever close
\* events arrive late.
THEOREM RecordCorrect == Spec => []RecordIsOpenSocket
<1>1. IInv => RecordIsOpenSocket
  BY DEF IInv
<1>2. QED
  BY <1>1, Invariance, PTL

\* Staleness is detected within one sweep interval of the threshold.
THEOREM StaleInTime == Spec => []SilenceBounded
<1>1. ASSUME IInv, NEW st \in Stations
      PROVE  age[st] <= StaleThreshold + SweepInterval
  <2>1. age[st] \in Nat /\ due \in 0..SweepInterval
    BY <1>1 DEF IInv, TypeOK
  <2>2. age[st] <= StaleThreshold + (SweepInterval - due)
    BY <1>1 DEF IInv, AgeInv
  <2>3. QED
    BY <2>1, <2>2, ConstantsAssumption
<1>2. IInv => SilenceBounded
  BY <1>1 DEF SilenceBounded
<1>3. QED
  BY <1>2, Invariance, PTL

\* A station with a connection is ONLINE, whatever close events arrive late.
THEOREM ConnectedCorrect == Spec => []ConnectedIsOnline
<1> USE ConstantsAssumption DEF TypeOK, ConnectedIsOnline
<1>1. Init => ConnectedIsOnline
  BY DEF Init
<1>2. ASSUME IInv, TypeOK', ConnectedIsOnline, [Next]_vars PROVE ConnectedIsOnline'
  <2>0. TypeOK
    BY <1>2 DEF IInv
  <2>1. ASSUME NEW s \in Sockets,
               Register(s) \/ Touch(s) \/ Unregister(s) \/ PeerVanishes(s)
        PROVE  ConnectedIsOnline'
    BY <1>2, <2>0, <2>1 DEF Register, Touch, Unregister, PeerVanishes
  <2>2. ASSUME NEW st \in Stations, ForceDisconnect(st) PROVE ConnectedIsOnline'
    BY <1>2, <2>0, <2>2 DEF ForceDisconnect
  <2>3. CASE SweepStale \/ Tick \/ Restart \/ UNCHANGED vars
    BY <1>2, <2>0, <2>3 DEF SweepStale, Stale, Tick, Restart, vars
  <2>4. QED
    BY <1>2, <2>1, <2>2, <2>3 DEF Next
<1>3. IInv /\ IInv' /\ ConnectedIsOnline /\ [Next]_vars => ConnectedIsOnline'
  BY <1>2 DEF IInv
<1>4. QED
  BY <1>1, <1>3, Invariance, PTL DEF Spec

\* A connection that goes off the record is reported, revocations aside.
THEOREM LossCorrect == Spec => LossIsReported
<1> DEFINE A == \A st \in Stations :
                  record[st] # NoSocket /\ record'[st] = NoSocket =>
                      status'[st] # "ONLINE" \/ ForceDisconnect(st)
<1> USE ConstantsAssumption DEF TypeOK
<1>1. ASSUME TypeOK, [Next]_vars PROVE A
  <2>1. ASSUME NEW s \in Sockets,
               Register(s) \/ Touch(s) \/ Unregister(s) \/ PeerVanishes(s)
        PROVE  A
    BY <1>1, <2>1 DEF Register, Touch, Unregister, PeerVanishes
  <2>2. ASSUME NEW st \in Stations, ForceDisconnect(st) PROVE A
    <3>1. \A su \in Stations \ {st} : record'[su] = record[su]
      BY <1>1, <2>2 DEF ForceDisconnect
    <3>2. QED
      BY <2>2, <3>1
  <2>3. CASE SweepStale \/ Tick \/ Restart \/ UNCHANGED vars
    BY <1>1, <2>3 DEF SweepStale, Stale, Tick, Restart, vars
  <2>4. QED
    BY <1>1, <2>1, <2>2, <2>3 DEF Next
<1>2. IInv /\ [Next]_vars => [A]_vars
  BY <1>1 DEF IInv
<1>3. QED
  BY <1>2, Invariance, PTL DEF Spec, LossIsReported

\* A peer that keeps to the threshold is never swept.
THEOREM LivePeerNeverSwept ==
    ASSUME MaxSilence <= StaleThreshold
    PROVE  Spec => LivePeerKept
<1> DEFINE A == \A s \in Sockets :
                  socket[s] = "open" /\ socket'[s] = "closing" =>
                      \/ record'[Owner[s]] \in Sockets \ {s}
                      \/ ForceDisconnect(Owner[s])
<1> USE ConstantsAssumption DEF IInv, TypeOK
<1>1. ASSUME IInv, [Next]_vars PROVE A
  <2>1. ASSUME NEW s \in Sockets, Register(s) PROVE A
    BY <1>1, <2>1 DEF Register, OwnRecord
  <2>2. ASSUME NEW s \in Sockets, Touch(s) \/ Unregister(s) \/ PeerVanishes(s)
        PROVE  A
    BY <1>1, <2>2 DEF Touch, Unregister, PeerVanishes
  <2>3. ASSUME NEW st \in Stations, ForceDisconnect(st) PROVE A
    <3>1. Owner[record[st]] = st
      BY <1>1, <2>3 DEF ForceDisconnect, OwnRecord
    <3>2. \A s \in Sockets \ {record[st]} : socket'[s] = socket[s]
      BY <1>1, <2>3 DEF ForceDisconnect
    <3>3. QED
      BY <2>3, <3>1, <3>2
  <2>4. CASE SweepStale
    <3>1. \A s \in Sockets : socket[s] = "open" => ~Stale(Owner[s])
      BY <1>1 DEF HeardInv, Stale
    <3>2. QED
      BY <1>1, <2>4, <3>1 DEF SweepStale
  <2>5. CASE Tick \/ Restart \/ UNCHANGED vars
    BY <1>1, <2>5 DEF Tick, Restart, vars
  <2>6. QED
    BY <1>1, <2>1, <2>2, <2>3, <2>4, <2>5 DEF Next
<1>2. IInv /\ [Next]_vars => [A]_vars
  BY <1>1
<1>3. QED
  BY <1>2, Invariance, PTL DEF Spec, LivePeerKept
=============================================================================
