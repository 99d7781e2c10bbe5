------------------------ MODULE Memberships_proofs --------------------------
(***************************************************************************)
(* For any people, invitations and number of handlers: who may hand out    *)
(* the roles OWNER and ADMIN, that an invitation is used once, and that an *)
(* owner remains while updates do not overlap (Guarded).                   *)
(*                                                                         *)
(* The inductive invariant IInv says what a running handler knows: a       *)
(* member's request carries a role its actor may give (Good), an           *)
(* invitation carries who stood behind it (WellFounded), and an accepted   *)
(* one has its membership, which is never deleted.                         *)
(***************************************************************************)
EXTENDS Memberships, TLAPS

MemberOps == {"add", "update", "invite"}

Good(j) ==
    /\ j.op \in MemberOps =>
          /\ j.who \in People /\ j.as \in Privileged
          /\ j.as = "ADMIN" /\ ~(j.op = "update" /\ j.at = "read") => j.role \notin Privileged
    /\ j.op \in {"add", "invite"} => j.role \in Roles
    /\ j.op = "update" /\ j.at \in {"count", "write"} => j.role \in Roles /\ j.status \in Statuses
    /\ j.op = "accept" => j.i \in Invitations /\ invitation[j.i].state # "none"
    /\ j.op = "accept" /\ j.at = "commit" =>
          j.who = invitation[j.i].who /\ j.role = invitation[j.i].role

WellFounded(i) ==
    /\ invitation[i].state # "none" =>
          /\ invitation[i].who \in People /\ invitation[i].role \in Roles
          /\ invitation[i].role \in Privileged => invitation[i].by = "OWNER"
    /\ invitation[i].state = "accepted" => member[invitation[i].who] # NoMember

IInv ==
    /\ TypeOK
    /\ \A s \in Slots : Good(job[s])
    /\ \A i \in Invitations : WellFounded(i)
    /\ PrivilegeFromOwner
    /\ AcceptedOnce

LEMMA IdleGood == Idle \in Job /\ Good(Idle)
  BY DEF Idle, Job, Good, MemberOps

LEMMA NoMemberIsNone == NoMember \notin Row /\ NoMember.role \notin Privileged
  BY DEF NoMember, Row, Roles, Privileged

\* What handlers rely on: an invitation keeps its person and role.
InvitationsKept ==
    \A i \in Invitations :
       invitation[i].state # "none" =>
          /\ invitation'[i].state # "none"
          /\ invitation'[i].who = invitation[i].who /\ invitation'[i].role = invitation[i].role

\* A handler that moves on leaves the others' knowledge true.
LEMMA JobsStayGood ==
    ASSUME IInv, TypeOK', InvitationsKept,
           NEW p \in Slots, NEW j \in Job, Good(j)', job' = [job EXCEPT ![p] = j]
    PROVE  \A q \in Slots : Good(job[q])'
<1> SUFFICES ASSUME NEW q \in Slots PROVE Good(job[q])'
  OBVIOUS
<1>1. CASE q = p
  BY <1>1 DEF IInv, TypeOK, Good
<1>2. CASE q # p
  <2>1. job'[q] = job[q] /\ job[q] \in Job /\ Good(job[q])
    BY <1>2 DEF IInv, TypeOK
  <2>2. QED
    BY <2>1 DEF Good, InvitationsKept
<1>3. QED
  BY <1>1, <1>2

\* A step that only moves a handler on.
LEMMA JobStep ==
    ASSUME IInv, NEW p \in Slots, NEW j \in Job, Good(j), Continue(p, j),
           UNCHANGED <<account, member, invitation, grantor, joined>>,
           requests' \in 0..MaxRequests, overlapped' \in BOOLEAN
    PROVE  IInv'
<1>1. TypeOK'
  BY DEF IInv, TypeOK, Continue
<1>2. InvitationsKept
  BY DEF InvitationsKept
<1>3. Good(j)'
  BY DEF Good
<1>4. \A q \in Slots : Good(job[q])'
  BY <1>1, <1>2, <1>3, JobsStayGood DEF Continue
<1>5. \A i \in Invitations : WellFounded(i)'
  BY DEF IInv, WellFounded
<1>6. PrivilegeFromOwner' /\ AcceptedOnce'
  BY DEF IInv, PrivilegeFromOwner, AcceptedOnce
<1>7. QED
  BY <1>1, <1>4, <1>5, <1>6 DEF IInv

LEMMA FinishStep ==
    ASSUME IInv, NEW p \in Slots, Finish(p),
           UNCHANGED <<account, member, invitation, grantor, joined>>,
           requests' \in 0..MaxRequests, overlapped' \in BOOLEAN
    PROVE  IInv'
  BY IdleGood, JobStep DEF Finish

\* A step that writes one row of the members, given by g.
LEMMA MemberStep ==
    ASSUME IInv, NEW p \in Slots, Finish(p), NEW who \in People, NEW r \in Row,
           NEW g \in Roles \union {"NONE"}, r.role \in Privileged => g = "OWNER",
           member' = [member EXCEPT ![who] = r], grantor' = [grantor EXCEPT ![who] = g],
           UNCHANGED <<account, invitation, requests, joined, overlapped>>
    PROVE  IInv'
<1>1. TypeOK'
  BY IdleGood DEF IInv, TypeOK, Continue, Finish
<1>2. InvitationsKept
  BY DEF InvitationsKept
<1>3. Good(Idle)'
  BY DEF Good, Idle, MemberOps
<1>4. \A q \in Slots : Good(job[q])'
  BY <1>1, <1>2, <1>3, IdleGood, JobsStayGood DEF Continue, Finish
<1>5. \A q \in People : member[q] # NoMember => member'[q] # NoMember
  BY NoMemberIsNone DEF IInv, TypeOK
<1>6. \A i \in Invitations : WellFounded(i)'
  BY <1>5 DEF IInv, WellFounded
<1>7. PrivilegeFromOwner'
  BY DEF IInv, TypeOK, PrivilegeFromOwner
<1>8. AcceptedOnce'
  BY DEF IInv, AcceptedOnce
<1>9. QED
  BY <1>1, <1>4, <1>6, <1>7, <1>8 DEF IInv

-----------------------------------------------------------------------------
(* The steps.                                                              *)

LEMMA InitInv == Init => IInv
<1> SUFFICES ASSUME Init PROVE IInv
  OBVIOUS
<1>1. TypeOK
  <2>1. member \in [People -> Row \union {NoMember}]
    BY SeedAssumption DEF Init, Row, Statuses
  <2>2. NoInvitation \in Invitation
    BY DEF NoInvitation, Invitation
  <2>3. grantor \in [People -> Roles \union {"NONE"}]
    BY DEF Init, Roles, Privileged
  <2>4. account \subseteq People /\ joined \in [Invitations -> Nat]
    BY DEF Init
  <2>5. requests \in 0..MaxRequests
    <3>1. MaxRequests \in Nat /\ requests = 0
      BY SeedAssumption DEF Init
    <3>2. QED
      BY <3>1
  <2>6. overlapped \in BOOLEAN
    BY DEF Init
  <2>7. job \in [Slots -> Job] /\ invitation \in [Invitations -> Invitation]
    <3>1. Idle \in Job
      BY IdleGood
    <3>2. job = [s \in Slots |-> Idle] /\ invitation = [i \in Invitations |-> NoInvitation]
      BY DEF Init
    <3>3. QED
      BY <2>2, <3>1, <3>2
  <2>8. QED
    BY <2>1, <2>3, <2>4, <2>5, <2>6, <2>7 DEF TypeOK
<1>2. \A s \in Slots : Good(job[s])
  BY IdleGood DEF Init
<1>3. \A i \in Invitations : WellFounded(i)
  BY DEF Init, WellFounded, NoInvitation
<1>4. PrivilegeFromOwner
  BY DEF Init, PrivilegeFromOwner, NoMember, Privileged
<1>5. AcceptedOnce
  BY DEF Init, AcceptedOnce, NoInvitation
<1>6. QED
  BY <1>1, <1>2, <1>3, <1>4, <1>5 DEF IInv

\* A member's request is admitted.
LEMMA RequestStep ==
    ASSUME IInv, NEW s \in Slots, NEW actor \in People, NEW j \in Job, Request(s, actor, j),
           j.op \in MemberOps, j.at = "read", j.who \in People,
           j.op \in {"add", "invite"} => j.role \in Roles /\ MayGive(member[actor].role, j.role)
    PROVE  IInv'
<1> DEFINE k == [j EXCEPT !.as = member[actor].role]
<1>1. member[actor].role \in Privileged
  BY DEF Request, Admitted
<1>2. k \in Job
  BY <1>1 DEF Job, Roles
<1>3. k.op = j.op /\ k.at = j.at /\ k.who = j.who /\ k.role = j.role /\ k.as = member[actor].role
  BY DEF Job
<1>4. Good(k)
  BY <1>1, <1>3 DEF Good, MemberOps, MayGive
<1>5. requests' \in 0..MaxRequests
  BY SeedAssumption DEF IInv, TypeOK, Request
<1> HIDE DEF k
<1>6. Continue(s, k)
  BY DEF Request, k
<1>7. QED
  BY <1>2, <1>4, <1>5, <1>6, JobStep DEF Request, IInv, TypeOK

LEMMA AskStep == ASSUME IInv, NEW s \in Slots, Ask(s) PROVE IInv'
<1>1. ASSUME NEW actor \in People, NEW who \in People, NEW role \in Roles, RequestAdd(s, actor, who, role)
      PROVE  IInv'
  <2> DEFINE j == [Idle EXCEPT !.op = "add", !.at = "read", !.who = who, !.role = role]
  <2>1. j \in Job /\ j.op = "add" /\ j.at = "read" /\ j.who = who /\ j.role = role
    BY DEF Idle, Job
  <2> HIDE DEF j
  <2>2. Request(s, actor, j) /\ MayGive(member[actor].role, role)
    BY <1>1 DEF RequestAdd, j
  <2>3. QED
    BY <2>1, <2>2, RequestStep DEF MemberOps
<1>2. ASSUME NEW actor \in People, NEW who \in People, NEW role \in Roles, RequestInvite(s, actor, who, role)
      PROVE  IInv'
  <2> DEFINE j == [Idle EXCEPT !.op = "invite", !.at = "read", !.who = who, !.role = role]
  <2>1. j \in Job /\ j.op = "invite" /\ j.at = "read" /\ j.who = who /\ j.role = role
    BY DEF Idle, Job
  <2> HIDE DEF j
  <2>2. Request(s, actor, j) /\ MayGive(member[actor].role, role)
    BY <1>2 DEF RequestInvite, j
  <2>3. QED
    BY <2>1, <2>2, RequestStep DEF MemberOps
<1>3. ASSUME NEW actor \in People, NEW who \in People, NEW role \in Roles \union {"NONE"},
             NEW status \in Statuses \union {"NONE"}, RequestUpdate(s, actor, who, role, status)
      PROVE  IInv'
  <2> DEFINE j == [Idle EXCEPT !.op = "update", !.at = "read", !.who = who, !.role = role, !.status = status]
  <2>1. j \in Job /\ j.op = "update" /\ j.at = "read" /\ j.who = who /\ j.role = role
    BY DEF Idle, Job
  <2> HIDE DEF j
  <2>2. Request(s, actor, j)
    BY <1>3 DEF RequestUpdate, j
  <2>3. QED
    BY <2>1, <2>2, RequestStep DEF MemberOps
<1>4. ASSUME NEW i \in Invitations, Open(s, i) PROVE IInv'
  <2> DEFINE j == [Idle EXCEPT !.op = "accept", !.at = "tx", !.i = i]
  <2>1. j \in Job /\ j.op = "accept" /\ j.at = "tx" /\ j.i = i
    BY DEF Idle, Job
  <2> HIDE DEF j
  <2>2. Good(j)
    BY <1>4, <2>1 DEF Good, MemberOps, Open
  <2>3. Continue(s, j)
    BY <1>4 DEF Open, j
  <2>4. QED
    BY <1>4, <2>1, <2>2, <2>3, JobStep DEF Open, IInv, TypeOK
<1>5. QED
  BY <1>1, <1>2, <1>3, <1>4 DEF Ask

LEMMA AddStep == ASSUME IInv, NEW s \in Slots, FindUser(s) \/ Add(s) PROVE IInv'
<1>1. job[s] \in Job /\ Good(job[s])
  BY DEF IInv, TypeOK
<1>2. CASE FindUser(s)
  <2> DEFINE j == [job[s] EXCEPT !.at = "write"]
  <2>1. j \in Job /\ Good(j)
    BY <1>1, <1>2 DEF Job, Good, MemberOps, FindUser, At
  <2> HIDE DEF j
  <2>2. CASE Continue(s, j)
    BY <1>2, <2>1, <2>2, JobStep DEF FindUser, IInv, TypeOK
  <2>3. CASE Finish(s)
    BY <1>2, <2>3, FinishStep DEF FindUser, IInv, TypeOK
  <2>4. QED
    BY <1>2, <2>2, <2>3 DEF FindUser, j
<1>3. CASE Add(s)
  <2> DEFINE r == [role |-> job[s].role, status |-> "ACTIVE"]
  <2>1. /\ job[s].who \in People /\ job[s].as \in Roles /\ job[s].role \in Roles
        /\ job[s].role \in Privileged => job[s].as = "OWNER"
    BY <1>1, <1>3 DEF Good, MemberOps, Add, At, Privileged, Roles
  <2>2. r \in Row /\ r.role = job[s].role
    BY <2>1 DEF Row, Statuses
  <2> HIDE DEF r
  <2>3. CASE /\ member' = [member EXCEPT ![job[s].who] = r]
             /\ grantor' = [grantor EXCEPT ![job[s].who] = job[s].as]
    BY <1>3, <2>1, <2>2, <2>3, MemberStep DEF Add
  <2>4. CASE UNCHANGED <<member, grantor>>
    BY <1>3, <2>4, FinishStep DEF Add, IInv, TypeOK
  <2>5. QED
    BY <1>3, <2>3, <2>4 DEF Add, r
<1>4. QED
  BY <1>2, <1>3

LEMMA UpdateStep == ASSUME IInv, NEW s \in Slots, ReadTarget(s) \/ CountOwners(s) \/ Update(s) PROVE IInv'
<1>1. job[s] \in Job /\ Good(job[s])
  BY DEF IInv, TypeOK
<1>2. CASE ReadTarget(s)
  <2> DEFINE old == member[job[s].who]
             new == Changed(job[s], old)
  <2>1. job[s].who \in People
    BY <1>1, <1>2 DEF Good, MemberOps, ReadTarget, At
  <2>2. CASE Finish(s) /\ UNCHANGED overlapped
    BY <1>2, <2>2, FinishStep DEF ReadTarget, IInv, TypeOK
  <2>3. ASSUME old # NoMember, MayChange(job[s].as, old, job[s].role), NEW at \in {"count", "write"},
               Continue(s, [job[s] EXCEPT !.at = at, !.role = new.role, !.status = new.status]),
               overlapped' \in BOOLEAN
        PROVE  IInv'
    <3> DEFINE j == [job[s] EXCEPT !.at = at, !.role = new.role, !.status = new.status]
    <3>1. old \in Row
      BY <2>1, <2>3 DEF IInv, TypeOK
    <3>2. /\ new.role \in Roles /\ new.status \in Statuses
          /\ job[s].as = "ADMIN" => new.role \notin Privileged
      BY <1>1, <2>3, <3>1 DEF Changed, Row, Job, MayChange
    <3>3. j \in Job /\ j.op = job[s].op /\ j.at = at /\ j.as = job[s].as /\ j.who = job[s].who
          /\ j.role = new.role /\ j.status = new.status
      <4>1. new.role \in Roles \union {"NONE"} /\ new.status \in Statuses \union {"NONE"}
        BY <3>2
      <4> HIDE DEF new, old
      <4>2. j \in Job
        BY <1>1, <4>1 DEF Job
      <4>3. j.op = job[s].op /\ j.as = job[s].as /\ j.who = job[s].who
        BY <1>1 DEF Job
      <4>4. j.at = at /\ j.role = new.role /\ j.status = new.status
        BY <1>1 DEF Job
      <4>5. QED
        BY <4>2, <4>3, <4>4
    <3>4. job[s].op = "update"
      BY <1>2 DEF ReadTarget, At
    <3> HIDE DEF j, new, old
    <3>5. Good(j)
      BY <1>1, <3>2, <3>3, <3>4 DEF Good, MemberOps
    <3>6. Continue(s, j)
      BY <2>3 DEF j
    <3>7. j.op = "update" /\ j.role \in Roles
      BY <3>2, <3>3, <3>4
    <3>8. QED
      BY <1>2, <2>3, <3>3, <3>5, <3>6, JobStep DEF ReadTarget, IInv, TypeOK
  <2>4. CASE old # NoMember /\ MayChange(job[s].as, old, job[s].role)
    <3> DEFINE at == IF StopsBeingOwner(old, new) THEN "count" ELSE "write"
    <3>1. at \in {"count", "write"}
      OBVIOUS
    <3>2. /\ Continue(s, [job[s] EXCEPT !.at = at, !.role = new.role, !.status = new.status])
          /\ overlapped' = (overlapped \/ \E t \in Slots : job[t].op = "update" /\ job[t].at # "read")
      BY <1>2, <2>4 DEF ReadTarget
    <3>3. overlapped' \in BOOLEAN
      BY <3>2 DEF IInv, TypeOK
    <3> HIDE DEF at, old, new
    <3>4. QED
      BY <2>3, <2>4, <3>1, <3>2, <3>3
  <2>5. CASE ~(old # NoMember /\ MayChange(job[s].as, old, job[s].role))
    BY <1>2, <2>2, <2>5 DEF ReadTarget
  <2>6. QED
    BY <2>4, <2>5
<1>3. CASE CountOwners(s)
  <2> DEFINE j == [job[s] EXCEPT !.at = "write"]
  <2>1. j \in Job /\ Good(j)
    BY <1>1, <1>3 DEF Job, Good, MemberOps, CountOwners, At
  <2> HIDE DEF j
  <2>2. CASE Continue(s, j)
    BY <1>3, <2>1, <2>2, JobStep DEF CountOwners, IInv, TypeOK
  <2>3. CASE Finish(s)
    BY <1>3, <2>3, FinishStep DEF CountOwners, IInv, TypeOK
  <2>4. QED
    BY <1>3, <2>2, <2>3 DEF CountOwners, j
<1>4. CASE Update(s)
  <2> DEFINE r == [role |-> job[s].role, status |-> job[s].status]
             g == IF job[s].role = member[job[s].who].role THEN grantor[job[s].who] ELSE job[s].as
  <2>1. /\ job[s].who \in People /\ job[s].as \in Roles /\ job[s].role \in Roles
        /\ job[s].status \in Statuses
        /\ job[s].role \in Privileged => job[s].as = "OWNER"
    BY <1>1, <1>4 DEF Good, MemberOps, Update, At, Privileged, Roles
  <2>2. r \in Row /\ r.role = job[s].role
    BY <2>1 DEF Row
  <2>3. r.role \in Privileged => g = "OWNER"
    BY <2>1, <2>2 DEF IInv, PrivilegeFromOwner
  <2>4. g \in Roles \union {"NONE"}
    BY <2>1 DEF IInv, TypeOK
  <2>5. /\ member' = [member EXCEPT ![job[s].who] = r]
        /\ grantor' = [grantor EXCEPT ![job[s].who] = g]
    BY <1>4, <2>1 DEF Update, IInv, TypeOK
  <2> HIDE DEF r, g
  <2>6. QED
    BY <1>4, <2>1, <2>2, <2>3, <2>4, <2>5, MemberStep DEF Update
<1>5. QED
  BY <1>2, <1>3, <1>4

LEMMA InviteStep ==
    ASSUME IInv, NEW s \in Slots, FindNoUser(s) \/ FindPending(s) \/ Invite(s)
    PROVE  IInv'
<1>1. job[s] \in Job /\ Good(job[s])
  BY DEF IInv, TypeOK
<1>2. CASE FindNoUser(s)
  <2> DEFINE j == [job[s] EXCEPT !.at = "find"]
  <2>1. j \in Job /\ Good(j)
    BY <1>1, <1>2 DEF Job, Good, MemberOps, FindNoUser, At
  <2> HIDE DEF j
  <2>2. CASE Continue(s, j)
    BY <1>2, <2>1, <2>2, JobStep DEF FindNoUser, IInv, TypeOK
  <2>3. CASE Finish(s)
    BY <1>2, <2>3, FinishStep DEF FindNoUser, IInv, TypeOK
  <2>4. QED
    BY <1>2, <2>2, <2>3 DEF FindNoUser, j
<1>3. CASE FindPending(s)
  <2> DEFINE j == [job[s] EXCEPT !.at = "write"]
  <2>1. j \in Job /\ Good(j)
    BY <1>1, <1>3 DEF Job, Good, MemberOps, FindPending, At
  <2> HIDE DEF j
  <2>2. CASE Continue(s, j)
    BY <1>3, <2>1, <2>2, JobStep DEF FindPending, IInv, TypeOK
  <2>3. CASE Finish(s)
    BY <1>3, <2>3, FinishStep DEF FindPending, IInv, TypeOK
  <2>4. QED
    BY <1>3, <2>2, <2>3 DEF FindPending, j
<1>4. CASE Invite(s)
  <2> DEFINE n == [state |-> "pending", who |-> job[s].who, role |-> job[s].role, by |-> job[s].as]
             new(i) == Unused # {} /\ i = (CHOOSE u \in Unused : TRUE)
  <2>1. /\ job[s].who \in People /\ job[s].as \in Roles /\ job[s].role \in Roles
        /\ job[s].role \in Privileged => job[s].as = "OWNER"
    BY <1>1, <1>4 DEF Good, MemberOps, Invite, At, Privileged, Roles
  <2>2. n \in Invitation /\ n.state = "pending" /\ n.who = job[s].who /\ n.role = job[s].role /\ n.by = job[s].as
    BY <2>1 DEF Invitation
  <2>3. invitation' = [i \in Invitations |-> IF new(i) THEN n ELSE invitation[i]]
    BY <1>4 DEF Invite
  <2>4. ASSUME NEW i \in Invitations, new(i) PROVE invitation[i].state = "none"
    BY <2>4 DEF Unused
  <2> HIDE DEF n, new
  <2>5. InvitationsKept
    BY <2>3, <2>4 DEF InvitationsKept
  <2>6. invitation' \in [Invitations -> Invitation]
    BY <2>2, <2>3 DEF IInv, TypeOK
  <2>7. TypeOK'
    BY <1>4, <2>6, IdleGood DEF Invite, IInv, TypeOK, Continue, Finish
  <2>8. Good(Idle)'
    BY DEF Good, Idle, MemberOps
  <2>9. \A q \in Slots : Good(job[q])'
    BY <1>4, <2>5, <2>7, <2>8, IdleGood, JobsStayGood DEF Invite, Continue, Finish
  <2>10. ASSUME NEW i \in Invitations PROVE WellFounded(i)'
    <3>1. CASE new(i)
      <4>1. invitation'[i] = n
        BY <2>3, <3>1
      <4>2. QED
        BY <2>1, <2>2, <4>1 DEF WellFounded
    <3>2. CASE ~new(i)
      <4>1. invitation'[i] = invitation[i] /\ member' = member
        BY <1>4, <2>3, <3>2 DEF Invite
      <4>2. QED
        BY <4>1 DEF IInv, WellFounded
    <3>3. QED
      BY <3>1, <3>2
  <2>11. PrivilegeFromOwner'
    BY <1>4 DEF Invite, IInv, PrivilegeFromOwner
  <2>12. AcceptedOnce'
    <3> SUFFICES ASSUME NEW i \in Invitations
                 PROVE  joined'[i] = IF invitation'[i].state = "accepted" THEN 1 ELSE 0
      BY DEF AcceptedOnce
    <3>1. joined'[i] = joined[i]
      BY <1>4 DEF Invite
    <3>2. invitation'[i].state = "accepted" <=> invitation[i].state = "accepted"
      BY <2>2, <2>3, <2>4
    <3>3. QED
      BY <3>1, <3>2 DEF IInv, AcceptedOnce
  <2>13. QED
    BY <2>7, <2>9, <2>10, <2>11, <2>12 DEF IInv
<1>5. QED
  BY <1>2, <1>3, <1>4

LEMMA AcceptStep == ASSUME IInv, NEW s \in Slots, ReadFresh(s) \/ Commit(s) PROVE IInv'
<1>1. job[s] \in Job /\ Good(job[s])
  BY DEF IInv, TypeOK
<1>2. CASE ReadFresh(s)
  <2> DEFINE fresh == invitation[job[s].i]
             seen == fresh.who \in account
             j == [job[s] EXCEPT !.at = "commit", !.who = fresh.who, !.role = fresh.role, !.seen = seen]
  <2>1. job[s].op = "accept" /\ job[s].i \in Invitations /\ fresh.state # "none"
    BY <1>1, <1>2 DEF Good, ReadFresh, At
  <2>2. fresh \in Invitation
    BY <2>1 DEF IInv, TypeOK
  <2>3. j \in Job /\ j.op = "accept" /\ j.i = job[s].i /\ j.who = fresh.who /\ j.role = fresh.role
    <3>1. fresh.who \in People \union {None} /\ fresh.role \in Roles \union {"NONE"}
      BY <2>2 DEF Invitation
    <3>2. seen \in BOOLEAN
      OBVIOUS
    <3> HIDE DEF fresh, seen
    <3>3. j \in Job
      BY <1>1, <3>1, <3>2 DEF Job
    <3>4. j.op = job[s].op /\ j.i = job[s].i
      BY <1>1 DEF Job
    <3>5. j.who = fresh.who /\ j.role = fresh.role
      BY <1>1 DEF Job
    <3>6. QED
      BY <2>1, <3>3, <3>4, <3>5
  <2> HIDE DEF j
  <2>4. Good(j)
    BY <2>1, <2>3 DEF Good, MemberOps
  <2>5. CASE Continue(s, j)
    BY <1>2, <2>3, <2>4, <2>5, JobStep DEF ReadFresh, IInv, TypeOK
  <2>6. CASE Finish(s)
    BY <1>2, <2>6, FinishStep DEF ReadFresh, IInv, TypeOK
  <2>7. QED
    BY <1>2, <2>5, <2>6 DEF ReadFresh, j
<1>3. CASE Commit(s) /\ ~Commits(job[s])
  BY <1>3, FinishStep DEF Commit, IInv, TypeOK
<1>4. CASE Commit(s) /\ Commits(job[s])
  <2> DEFINE k == job[s].i
             p == job[s].who
             r == [role |-> job[s].role, status |-> "ACTIVE"]
  <2>1. /\ k \in Invitations /\ invitation[k].state # "none"
        /\ p = invitation[k].who /\ job[s].role = invitation[k].role
    BY <1>1, <1>4 DEF Good, Commit, At
  <2>2. /\ p \in People /\ job[s].role \in Roles
        /\ job[s].role \in Privileged => invitation[k].by = "OWNER"
    BY <2>1 DEF IInv, WellFounded
  <2>3. r \in Row /\ r.role = job[s].role
    BY <2>2 DEF Row, Statuses
  <2>4. invitation[k] \in Invitation /\ invitation[k].by \in Roles \union {"NONE"}
    BY <2>1 DEF IInv, TypeOK, Invitation
  <2>5. member[p] = NoMember
    BY <1>4 DEF Commits
  <2>6. invitation[k].state # "accepted"
    BY <2>1, <2>5 DEF IInv, WellFounded
  <2>7. /\ account' = account \union {p}
        /\ member' = [member EXCEPT ![p] = r]
        /\ invitation' = [invitation EXCEPT ![k].state = "accepted"]
        /\ grantor' = [grantor EXCEPT ![p] = invitation[k].by]
        /\ joined' = [joined EXCEPT ![k] = joined[k] + 1]
        /\ Finish(s)
        /\ UNCHANGED <<requests, overlapped>>
    BY <1>4 DEF Commit
  <2> HIDE DEF k, p, r
  <2>8. [invitation[k] EXCEPT !.state = "accepted"] \in Invitation
    BY <2>4 DEF Invitation
  <2>9. invitation' \in [Invitations -> Invitation]
    BY <2>1, <2>7, <2>8 DEF IInv, TypeOK
  <2>10. TypeOK'
    BY <2>2, <2>3, <2>4, <2>7, <2>9, <2>1, IdleGood DEF IInv, TypeOK, Continue, Finish
  <2>11. /\ \A i \in Invitations : /\ invitation'[i].who = invitation[i].who
                                   /\ invitation'[i].role = invitation[i].role
                                   /\ invitation'[i].by = invitation[i].by
                                   /\ i # k => invitation'[i].state = invitation[i].state
         /\ invitation'[k].state = "accepted"
    BY <2>1, <2>4, <2>7 DEF IInv, TypeOK, Invitation
  <2>12. InvitationsKept
    BY <2>11 DEF InvitationsKept
  <2>13. Good(Idle)'
    BY DEF Good, Idle, MemberOps
  <2>14. \A q \in Slots : Good(job[q])'
    BY <2>7, <2>10, <2>12, <2>13, IdleGood, JobsStayGood DEF Continue, Finish
  <2>15. \A q \in People : member[q] # NoMember => member'[q] # NoMember
    BY <2>2, <2>3, <2>7, NoMemberIsNone DEF IInv, TypeOK
  <2>16. member'[p] # NoMember
    BY <2>2, <2>3, <2>7, NoMemberIsNone DEF IInv, TypeOK
  <2>17. \A i \in Invitations : WellFounded(i)'
    BY <2>1, <2>11, <2>15, <2>16, <2>2 DEF IInv, WellFounded, k, p
  <2>18. PrivilegeFromOwner'
    BY <2>2, <2>3, <2>7 DEF IInv, TypeOK, PrivilegeFromOwner
  <2>19. AcceptedOnce'
    <3> SUFFICES ASSUME NEW i \in Invitations
                 PROVE  joined'[i] = IF invitation'[i].state = "accepted" THEN 1 ELSE 0
      BY DEF AcceptedOnce
    <3>1. joined[i] = IF invitation[i].state = "accepted" THEN 1 ELSE 0
      BY DEF IInv, AcceptedOnce
    <3>2. CASE i = k
      <4>1. joined[k] = 0 /\ joined'[k] = joined[k] + 1
        BY <2>1, <2>6, <2>7, <3>1, <3>2 DEF IInv, TypeOK
      <4>2. QED
        BY <2>11, <3>2, <4>1
    <3>3. CASE i # k
      BY <2>7, <2>11, <3>1, <3>3
    <3>4. QED
      BY <3>2, <3>3
  <2>20. QED
    BY <2>10, <2>14, <2>17, <2>18, <2>19 DEF IInv
<1>5. QED
  BY <1>2, <1>3, <1>4

LEMMA EnvironmentStep ==
    ASSUME IInv, (\E i \in Invitations : Expire(i)) \/ (\E p \in People : SignUpElsewhere(p))
    PROVE  IInv'
<1>1. ASSUME NEW k \in Invitations, Expire(k) PROVE IInv'
  <2>1. invitation[k] \in Invitation /\ invitation[k].state = "pending"
    BY <1>1 DEF IInv, TypeOK, Expire
  <2>2. [invitation[k] EXCEPT !.state = "expired"] \in Invitation
    BY <2>1 DEF Invitation
  <2>3. TypeOK'
    BY <1>1, <2>2 DEF IInv, TypeOK, Expire
  <2>4. /\ \A i \in Invitations : /\ invitation'[i].who = invitation[i].who
                                  /\ invitation'[i].role = invitation[i].role
                                  /\ invitation'[i].by = invitation[i].by
                                  /\ i # k => invitation'[i].state = invitation[i].state
        /\ invitation'[k].state = "expired"
    BY <1>1, <2>1 DEF IInv, TypeOK, Invitation, Expire
  <2>5. \A q \in Slots : Good(job[q])'
    <3> SUFFICES ASSUME NEW q \in Slots PROVE Good(job[q])'
      OBVIOUS
    <3>1. job'[q] = job[q] /\ job[q] \in Job /\ Good(job[q])
      BY <1>1 DEF IInv, TypeOK, Expire
    <3>2. QED
      BY <2>4, <3>1 DEF Good
  <2>6. \A i \in Invitations : WellFounded(i)'
    BY <1>1, <2>1, <2>4 DEF IInv, WellFounded, Expire
  <2>7. PrivilegeFromOwner'
    BY <1>1 DEF IInv, PrivilegeFromOwner, Expire
  <2>8. AcceptedOnce'
    BY <1>1, <2>1, <2>4 DEF IInv, AcceptedOnce, Expire
  <2>9. QED
    BY <2>3, <2>5, <2>6, <2>7, <2>8 DEF IInv
<1>2. ASSUME NEW p \in People, SignUpElsewhere(p) PROVE IInv'
  <2>1. TypeOK'
    BY <1>2 DEF IInv, TypeOK, SignUpElsewhere
  <2>2. QED
    BY <1>2, <2>1 DEF IInv, SignUpElsewhere, Good, WellFounded, PrivilegeFromOwner, AcceptedOnce
<1>3. QED
  BY <1>1, <1>2

-----------------------------------------------------------------------------
(* The final-OWNER rule.  While updates do not overlap, at most one of them  *)
(* is past its read, and what it is about to write leaves an OWNER, whoever  *)
(* is added or accepted meanwhile: an added member had no row to lose.       *)

PastRead(s) == job[s].op = "update" /\ job[s].at # "read"

Written(j) == [role |-> j.role, status |-> j.status]

\* With j's row written, somebody is still an OWNER.
LeavesOwner(j) ==
    \E p \in People : ActiveOwner(IF p = j.who THEN Written(j) ELSE member[p])

Guarded ==
    ~overlapped =>
       /\ HasActiveOwner
       /\ \A s, t \in Slots : PastRead(s) /\ PastRead(t) => s = t
       /\ \A s \in Slots : At(s, "update", "write") => LeavesOwner(job[s])

LEMMA InitGuarded == Init => Guarded
<1> SUFFICES ASSUME Init PROVE Guarded
  OBVIOUS
<1>1. PICK p \in People : Seed[p] = "OWNER"
  BY SeedAssumption
<1>2. ActiveOwner(member[p])
  BY <1>1 DEF Init, ActiveOwner
<1>3. \A s \in Slots : job[s].op = "idle"
  BY DEF Init, Idle
<1>4. QED
  BY <1>2, <1>3 DEF Guarded, HasActiveOwner, PastRead, At

\* A step that moves no update on and takes no row away.
LEMMA GuardedElsewhere ==
    ASSUME Guarded, ~overlapped' => ~overlapped,
           \A p \in People : ActiveOwner(member[p]) => member'[p] = member[p],
           \A s \in Slots : PastRead(s)' => job'[s] = job[s]
    PROVE  Guarded'
<1> SUFFICES ASSUME ~overlapped' PROVE Guarded'
  BY DEF Guarded
<1>1. /\ HasActiveOwner
      /\ \A s, t \in Slots : PastRead(s) /\ PastRead(t) => s = t
      /\ \A s \in Slots : At(s, "update", "write") => LeavesOwner(job[s])
  BY DEF Guarded
<1>2. HasActiveOwner'
  BY <1>1 DEF HasActiveOwner
<1>3. \A s \in Slots : PastRead(s)' => PastRead(s)
  BY DEF PastRead
<1>4. ASSUME NEW s \in Slots, At(s, "update", "write")' PROVE LeavesOwner(job[s])'
  <2>1. job'[s] = job[s] /\ At(s, "update", "write")
    BY <1>4 DEF PastRead, At
  <2>2. PICK p \in People : ActiveOwner(IF p = job[s].who THEN Written(job[s]) ELSE member[p])
    BY <1>1, <2>1 DEF LeavesOwner
  <2>3. ActiveOwner(IF p = job'[s].who THEN Written(job'[s]) ELSE member'[p])
    BY <2>1, <2>2
  <2>4. QED
    BY <2>3 DEF LeavesOwner, Written
<1>5. QED
  BY <1>1, <1>2, <1>3, <1>4 DEF Guarded

LEMMA ReadGuarded == ASSUME IInv, Guarded, NEW s \in Slots, ReadTarget(s) PROVE Guarded'
<1> DEFINE old == member[job[s].who]
           new == Changed(job[s], old)
<1>1. CASE Finish(s) /\ UNCHANGED overlapped
  <2>1. \A t \in Slots : PastRead(t)' => job'[t] = job[t]
    BY <1>1 DEF IInv, TypeOK, Finish, Continue, Idle, PastRead
  <2>2. member' = member
    BY DEF ReadTarget
  <2>3. QED
    BY <1>1, <2>1, <2>2, GuardedElsewhere
<1>2. CASE /\ old # NoMember
           /\ Continue(s, [job[s] EXCEPT !.at = IF StopsBeingOwner(old, new) THEN "count" ELSE "write",
                                         !.role = new.role, !.status = new.status])
           /\ overlapped' = (overlapped \/ \E t \in Slots : PastRead(t))
  <2> SUFFICES ASSUME ~overlapped' PROVE Guarded'
    BY DEF Guarded
  <2>1. ~overlapped /\ HasActiveOwner /\ \A t \in Slots : ~PastRead(t)
    BY <1>2 DEF Guarded
  <2>2. member' = member
    BY DEF ReadTarget
  <2>3. \A t \in Slots : t # s => job'[t] = job[t]
    BY <1>2 DEF IInv, TypeOK, Continue
  <2>4. \A t \in Slots : PastRead(t)' => t = s
    BY <2>1, <2>3 DEF PastRead
  <2>5. HasActiveOwner'
    BY <2>1, <2>2 DEF HasActiveOwner
  <2>6. ASSUME At(s, "update", "write")' PROVE LeavesOwner(job[s])'
    <3>1. job[s] \in Job /\ job'[s] = [job[s] EXCEPT !.at = IF StopsBeingOwner(old, new) THEN "count" ELSE "write",
                                                     !.role = new.role, !.status = new.status]
      BY <1>2 DEF IInv, TypeOK, Continue
    <3>2. /\ job'[s].who = job[s].who /\ job'[s].role = new.role /\ job'[s].status = new.status
          /\ job'[s].at = IF StopsBeingOwner(old, new) THEN "count" ELSE "write"
      BY <3>1 DEF Job
    <3>3. ~StopsBeingOwner(old, new)
      BY <2>6, <3>2 DEF At
    <3>4. PICK p \in People : ActiveOwner(member[p])
      BY <2>1 DEF HasActiveOwner
    <3>5. CASE p = job[s].who
      <4>1. ActiveOwner(new)
        BY <3>3, <3>4, <3>5 DEF StopsBeingOwner
      <4>2. ActiveOwner(Written(job'[s]))
        BY <3>2, <4>1 DEF ActiveOwner, Written
      <4>3. QED
        BY <3>2, <3>5, <4>2 DEF LeavesOwner, Written
    <3>6. CASE p # job[s].who
      BY <2>2, <3>2, <3>4, <3>6 DEF LeavesOwner
    <3>7. QED
      BY <3>5, <3>6
  <2>7. \A t \in Slots : At(t, "update", "write")' => LeavesOwner(job[t])'
    BY <2>4, <2>6 DEF PastRead, At
  <2>8. QED
    BY <2>4, <2>5, <2>7 DEF Guarded
<1>3. QED
  BY <1>1, <1>2 DEF ReadTarget, PastRead

\* The others are counted without the target.
LEMMA CountGuarded == ASSUME IInv, Guarded, NEW s \in Slots, CountOwners(s) PROVE Guarded'
<1>1. member' = member /\ overlapped' = overlapped
  BY DEF CountOwners
<1>2. CASE Finish(s)
  <2>1. \A t \in Slots : PastRead(t)' => job'[t] = job[t]
    BY <1>2 DEF IInv, TypeOK, Finish, Continue, Idle, PastRead
  <2>2. QED
    BY <1>1, <2>1, GuardedElsewhere
<1>3. CASE /\ \E p \in People \ {job[s].who} : ActiveOwner(member[p])
           /\ Continue(s, [job[s] EXCEPT !.at = "write"])
  <2> SUFFICES ASSUME ~overlapped PROVE Guarded'
    BY <1>1 DEF Guarded
  <2>1. /\ HasActiveOwner
        /\ \A t, u \in Slots : PastRead(t) /\ PastRead(u) => t = u
    BY DEF Guarded
  <2>2. PastRead(s)
    BY DEF CountOwners, At, PastRead
  <2>3. \A t \in Slots : t # s => job'[t] = job[t]
    BY <1>3 DEF IInv, TypeOK, Continue
  <2>4. \A t \in Slots : PastRead(t)' => t = s
    BY <2>1, <2>2, <2>3 DEF PastRead
  <2>5. job'[s].who = job[s].who
    BY <1>3 DEF IInv, TypeOK, Continue, Job
  <2>6. LeavesOwner(job[s])'
    BY <1>1, <1>3, <2>5 DEF LeavesOwner
  <2>7. QED
    BY <1>1, <2>1, <2>4, <2>6 DEF Guarded, HasActiveOwner, PastRead, At
<1>4. QED
  BY <1>2, <1>3 DEF CountOwners

LEMMA UpdateGuarded == ASSUME IInv, Guarded, NEW s \in Slots, Update(s) PROVE Guarded'
<1> SUFFICES ASSUME ~overlapped' PROVE Guarded'
  BY DEF Guarded
<1>1. /\ PastRead(s) /\ At(s, "update", "write") /\ Finish(s) /\ ~overlapped
      /\ member' = [member EXCEPT ![job[s].who] = Written(job[s])]
  BY DEF Update, At, PastRead, Written
<1>2. /\ \A t, u \in Slots : PastRead(t) /\ PastRead(u) => t = u
      /\ LeavesOwner(job[s])
  BY <1>1 DEF Guarded
<1>3. \A t \in Slots : ~PastRead(t)'
  BY <1>1, <1>2 DEF IInv, TypeOK, Finish, Continue, Idle, PastRead
<1>4. job[s].who \in People
  BY <1>1 DEF IInv, Good, MemberOps, At
<1>5. \A p \in People : member'[p] = IF p = job[s].who THEN Written(job[s]) ELSE member[p]
  BY <1>1, <1>4 DEF IInv, TypeOK
<1>6. HasActiveOwner'
  BY <1>2, <1>5 DEF LeavesOwner, HasActiveOwner
<1>7. QED
  BY <1>3, <1>6 DEF Guarded, PastRead, At

\* Whoever is added or accepted had no row.
LEMMA InsertGuarded ==
    ASSUME IInv, Guarded, NEW s \in Slots, Add(s) \/ Commit(s) PROVE Guarded'
<1>1. \A t \in Slots : PastRead(t)' => job'[t] = job[t]
  BY DEF IInv, TypeOK, Add, Commit, Finish, Continue, Idle, PastRead
<1>2. ASSUME NEW p \in People, ActiveOwner(member[p]) PROVE member'[p] = member[p]
  <2>1. member[p] # NoMember
    BY <1>2 DEF ActiveOwner, NoMember
  <2>2. QED
    BY <2>1 DEF IInv, TypeOK, Add, Commit, Commits
<1>3. overlapped' = overlapped
  BY DEF Add, Commit
<1>4. QED
  BY <1>1, <1>2, <1>3, GuardedElsewhere

\* A step of the rest: no row changes, and no update moves past its read.
LEMMA OtherGuarded ==
    ASSUME IInv, Guarded, NEW s \in Slots,
           Ask(s) \/ FindUser(s) \/ FindNoUser(s) \/ FindPending(s) \/ Invite(s) \/ ReadFresh(s)
    PROVE  Guarded'
<1>1. member' = member /\ overlapped' = overlapped
  BY DEF Ask, RequestAdd, RequestInvite, RequestUpdate, Request, Open,
         FindUser, FindNoUser, FindPending, Invite, ReadFresh
<1>2. ASSUME NEW j, Continue(s, j), ~(j.op = "update" /\ j.at # "read") PROVE Guarded'
  <2>1. \A t \in Slots : PastRead(t)' => job'[t] = job[t]
    BY <1>2 DEF IInv, TypeOK, Continue, PastRead
  <2>2. QED
    BY <1>1, <2>1, GuardedElsewhere
<1>3. CASE Finish(s)
  BY <1>2, <1>3 DEF Finish, Idle
<1>4. CASE Ask(s)
  <2>1. ASSUME NEW j, NEW actor \in People, Request(s, actor, j), j \in Job, j.op # "update" \/ j.at = "read"
        PROVE  Guarded'
    <3>1. Continue(s, [j EXCEPT !.as = member[actor].role])
      BY <2>1 DEF Request
    <3>2. [j EXCEPT !.as = member[actor].role].op = j.op /\ [j EXCEPT !.as = member[actor].role].at = j.at
      BY <2>1 DEF Job
    <3>3. QED
      BY <1>2, <2>1, <3>1, <3>2
  <2>2. ASSUME NEW actor \in People, NEW who \in People, NEW role \in Roles, RequestAdd(s, actor, who, role)
        PROVE  Guarded'
    <3>1. /\ [Idle EXCEPT !.op = "add", !.at = "read", !.who = who, !.role = role] \in Job
          /\ [Idle EXCEPT !.op = "add", !.at = "read", !.who = who, !.role = role].at = "read"
      BY DEF Idle, Job
    <3>2. QED
      BY <2>1, <2>2, <3>1 DEF RequestAdd
  <2>3. ASSUME NEW actor \in People, NEW who \in People, NEW role \in Roles, RequestInvite(s, actor, who, role)
        PROVE  Guarded'
    <3>1. /\ [Idle EXCEPT !.op = "invite", !.at = "read", !.who = who, !.role = role] \in Job
          /\ [Idle EXCEPT !.op = "invite", !.at = "read", !.who = who, !.role = role].at = "read"
      BY DEF Idle, Job
    <3>2. QED
      BY <2>1, <2>3, <3>1 DEF RequestInvite
  <2>4. ASSUME NEW actor \in People, NEW who \in People, NEW role \in Roles \union {"NONE"},
               NEW status \in Statuses \union {"NONE"}, RequestUpdate(s, actor, who, role, status)
        PROVE  Guarded'
    <3>1. /\ [Idle EXCEPT !.op = "update", !.at = "read", !.who = who,
                          !.role = role, !.status = status] \in Job
          /\ [Idle EXCEPT !.op = "update", !.at = "read", !.who = who,
                          !.role = role, !.status = status].at = "read"
      BY DEF Idle, Job
    <3>2. QED
      BY <2>1, <2>4, <3>1 DEF RequestUpdate
  <2>5. ASSUME NEW i \in Invitations, Open(s, i) PROVE Guarded'
    <3>1. [Idle EXCEPT !.op = "accept", !.at = "tx", !.i = i].op = "accept"
      BY DEF Idle
    <3>2. QED
      BY <1>2, <2>5, <3>1 DEF Open
  <2>6. QED
    BY <1>4, <2>2, <2>3, <2>4, <2>5 DEF Ask
<1>5. CASE FindUser(s) \/ FindNoUser(s) \/ FindPending(s) \/ ReadFresh(s)
  <2>1. job[s] \in Job /\ job[s].op \in {"add", "invite", "accept"}
    BY <1>5 DEF IInv, TypeOK, FindUser, FindNoUser, FindPending, ReadFresh, At
  <2>2. \A at : [job[s] EXCEPT !.at = at].op = job[s].op
    BY <2>1 DEF Job
  <2>3. CASE FindUser(s) \/ FindNoUser(s) \/ FindPending(s)
    BY <1>2, <1>3, <2>1, <2>2, <2>3 DEF FindUser, FindNoUser, FindPending
  <2>4. CASE ReadFresh(s)
    <3> DEFINE fresh == invitation[job[s].i]
               next == [job[s] EXCEPT !.at = "commit", !.who = fresh.who, !.role = fresh.role,
                                      !.seen = fresh.who \in account]
    <3>1. Finish(s) \/ Continue(s, next)
      BY <2>4 DEF ReadFresh
    <3>2. next.op = job[s].op
      BY <2>1 DEF Job
    <3>3. QED
      BY <1>2, <1>3, <2>1, <3>1, <3>2
  <2>5. QED
    BY <1>5, <2>3, <2>4
<1>6. CASE Invite(s)
  BY <1>3, <1>6 DEF Invite
<1>7. QED
  BY <1>4, <1>5, <1>6

LEMMA NextGuarded == IInv /\ Guarded /\ [Next]_vars => Guarded'
<1> SUFFICES ASSUME IInv, Guarded, [Next]_vars PROVE Guarded'
  OBVIOUS
<1>1. CASE UNCHANGED vars
  BY <1>1, GuardedElsewhere DEF vars
<1>2. ASSUME NEW s \in Slots, Ask(s) \/ Step(s) PROVE Guarded'
  BY <1>2, ReadGuarded, CountGuarded, UpdateGuarded, InsertGuarded, OtherGuarded DEF Step
<1>3. CASE (\E i \in Invitations : Expire(i)) \/ (\E p \in People : SignUpElsewhere(p))
  BY <1>3, GuardedElsewhere DEF Expire, SignUpElsewhere
<1>4. QED
  BY <1>1, <1>2, <1>3 DEF Next

-----------------------------------------------------------------------------
(* The theorems.                                                           *)

LEMMA NextInv == IInv /\ [Next]_vars => IInv'
<1> SUFFICES ASSUME IInv, [Next]_vars PROVE IInv'
  OBVIOUS
<1>1. CASE UNCHANGED vars
  BY <1>1 DEF vars, IInv, TypeOK, Good, WellFounded, PrivilegeFromOwner, AcceptedOnce
<1>2. ASSUME NEW s \in Slots, Ask(s) \/ Step(s) PROVE IInv'
  BY <1>2, AskStep, AddStep, UpdateStep, InviteStep, AcceptStep DEF Step
<1>3. CASE (\E i \in Invitations : Expire(i)) \/ (\E p \in People : SignUpElsewhere(p))
  BY <1>3, EnvironmentStep
<1>4. QED
  BY <1>1, <1>2, <1>3 DEF Next

LEMMA Invariant == Spec => []IInv
  BY InitInv, NextInv, PTL DEF Spec

\* Type correctness.
THEOREM TypeCorrect == Spec => []TypeOK
<1>1. IInv => TypeOK
  BY DEF IInv
<1>2. QED
  BY <1>1, Invariant, PTL

\* However many requests overlap, with whatever roles their actors lose on the
\* way, only an OWNER's decision makes an OWNER or an ADMIN.
THEOREM PrivilegeCorrect == Spec => []PrivilegeFromOwner
<1>1. IInv => PrivilegeFromOwner
  BY DEF IInv
<1>2. QED
  BY <1>1, Invariant, PTL

\* However many attempts overlap, an invitation leads to one membership.
THEOREM InvitationUsedOnce == Spec => []AcceptedOnce
<1>1. IInv => AcceptedOnce
  BY DEF IInv
<1>2. QED
  BY <1>1, Invariant, PTL

\* While no two updates overlap, the organization keeps an active OWNER,
\* however many are added, invited and accepted beside the update.
THEOREM FinalOwnerCorrect == Spec => []AnOwnerRemains
<1>1. Init => IInv /\ Guarded
  BY InitInv, InitGuarded
<1>2. (IInv /\ Guarded) /\ [Next]_vars => (IInv /\ Guarded)'
  BY NextInv, NextGuarded
<1>3. IInv /\ Guarded => AnOwnerRemains
  BY DEF Guarded, AnOwnerRemains
<1>4. QED
  BY <1>1, <1>2, <1>3, PTL DEF Spec

=============================================================================
