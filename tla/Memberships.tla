---------------------------- MODULE Memberships ----------------------------
(***************************************************************************)
(* The members of one organization: who is added, invited and changed, by  *)
(* whom (MembershipsService, MembershipInvitationsService, and the guards  *)
(* in front of their controllers).                                         *)
(*                                                                         *)
(* A request is admitted with the role its actor has at that moment and    *)
(* keeps that role to its end.  One action is the code between two awaits  *)
(* with the statement that ends it; a transaction takes effect when it     *)
(* commits, and reads what was committed before.  Handlers run in Slots.   *)
(***************************************************************************)
EXTENDS Naturals

CONSTANTS
    People,       \* a User row is known by its email, so it is the person
    Invitations,  \* rows that may come to exist
    Seed,         \* person -> the role given by the seed, or "NONE"
    None,
    Slots,        \* bound: handlers running at the same time
    MaxRequests   \* bound: requests of members

\* ADMIN_MANAGEABLE_ROLES is five roles that nothing here tells apart.
Privileged == {"OWNER", "ADMIN"}
Roles      == Privileged \union {"OPERATOR"}
\* INVITED, which an update may also set, is as inactive as SUSPENDED.
Statuses   == {"ACTIVE", "SUSPENDED"}

\* A Membership row, and its absence.
Row      == [role : Roles, status : Statuses]
NoMember == [role |-> "NONE", status |-> "NONE"]

ASSUME SeedAssumption ==
    /\ Seed \in [People -> Roles \union {"NONE"}]
    /\ None \notin People \union Invitations
    /\ MaxRequests \in Nat
    /\ \E p \in People : Seed[p] = "OWNER"

\* by: the role of the member who created it (createdByUserId).
Invitation == [state : {"none", "pending", "expired", "accepted"},
               who : People \union {None}, role : Roles \union {"NONE"}, by : Roles \union {"NONE"}]
NoInvitation == [state |-> "none", who |-> None, role |-> "NONE", by |-> "NONE"]

\* A running handler: as is the role of its actor, who and i its subject, role
\* and status what is asked for and, once the row is read, what will be written;
\* seen, was there a User row?
Job == [op : {"idle", "add", "update", "invite", "accept"},
        at : {"idle", "read", "find", "count", "write", "tx", "commit"},
        as : Roles \union {"NONE"}, who : People \union {None},
        i : Invitations \union {None}, role : Roles \union {"NONE"},
        status : Statuses \union {"NONE"}, seen : BOOLEAN]

VARIABLES
    account,     \* people with a User row
    member,      \* person -> Membership row
    invitation,  \* the MembershipInvitation table
    job,         \* slot -> running handler
    requests,    \* requests admitted so far (bounded)
    grantor,     \* history: the role of whoever gave a person the role it has
    joined,      \* history: memberships an invitation has led to
    overlapped   \* history: an update began while another was under way

vars == <<account, member, invitation, job, requests, grantor, joined, overlapped>>

Idle == [op |-> "idle", at |-> "idle", as |-> "NONE", who |-> None, i |-> None,
         role |-> "NONE", status |-> "NONE", seen |-> FALSE]

TypeOK ==
    /\ account \subseteq People
    /\ member \in [People -> Row \union {NoMember}]
    /\ invitation \in [Invitations -> Invitation]
    /\ job \in [Slots -> Job]
    /\ requests \in 0..MaxRequests
    /\ grantor \in [People -> Roles \union {"NONE"}]
    /\ joined \in [Invitations -> Nat]
    /\ overlapped \in BOOLEAN

Init ==
    /\ account = {p \in People : Seed[p] # "NONE"}
    /\ member = [p \in People |-> IF Seed[p] = "NONE" THEN NoMember
                                  ELSE [role |-> Seed[p], status |-> "ACTIVE"]]
    /\ invitation = [i \in Invitations |-> NoInvitation]
    /\ job = [s \in Slots |-> Idle]
    /\ requests = 0
    /\ grantor = [p \in People |-> IF Seed[p] = "NONE" THEN "NONE" ELSE "OWNER"]
    /\ joined = [i \in Invitations |-> 0]
    /\ overlapped = FALSE

-----------------------------------------------------------------------------
Continue(s, j) == job' = [job EXCEPT ![s] = j]
Finish(s) == Continue(s, Idle)
At(s, op, at) == job[s].op = op /\ job[s].at = at

\* OrgContextGuard, and RolesGuard with @Roles(OWNER, ADMIN).
Admitted(actor) == member[actor].status = "ACTIVE" /\ member[actor].role \in Privileged

\* Mutant: an ADMIN may hand out every role.
MayGiveAny(as, role) == role \in Roles

\* An ADMIN gives the roles of ADMIN_MANAGEABLE_ROLES.
MayGive(as, role) == as = "ADMIN" => role \notin Privileged

Request(s, actor, j) ==
    /\ job[s] = Idle /\ Admitted(actor) /\ requests < MaxRequests
    /\ requests' = requests + 1
    /\ Continue(s, [j EXCEPT !.as = member[actor].role])
    /\ UNCHANGED <<account, member, invitation, grantor, joined, overlapped>>

-----------------------------------------------------------------------------
(* MembershipsService.create: people with an account.                      *)

RequestAdd(s, actor, who, role) ==
    /\ MayGive(member[actor].role, role)
    /\ Request(s, actor, [Idle EXCEPT !.op = "add", !.at = "read", !.who = who, !.role = role])

\* Rows of users and memberships are never deleted: the two reads are one.
FindUser(s) ==
    /\ At(s, "add", "read")
    /\ IF job[s].who \in account /\ member[job[s].who] = NoMember
       THEN Continue(s, [job[s] EXCEPT !.at = "write"])
       ELSE Finish(s)
    /\ UNCHANGED <<account, member, invitation, requests, grantor, joined, overlapped>>

\* @@unique([userId, organizationId]) refuses a second row.
Add(s) ==
    /\ At(s, "add", "write")
    /\ IF member[job[s].who] = NoMember
       THEN /\ member' = [member EXCEPT ![job[s].who] = [role |-> job[s].role, status |-> "ACTIVE"]]
            /\ grantor' = [grantor EXCEPT ![job[s].who] = job[s].as]
       ELSE UNCHANGED <<member, grantor>>
    /\ Finish(s)
    /\ UNCHANGED <<account, invitation, requests, joined, overlapped>>

-----------------------------------------------------------------------------
(* MembershipsService.update: a new role, a new status, or both.           *)

RequestUpdate(s, actor, who, role, status) ==
    /\ role # "NONE" \/ status # "NONE"
    /\ Request(s, actor, [Idle EXCEPT !.op = "update", !.at = "read", !.who = who,
                                      !.role = role, !.status = status])

\* The row as it will be: what is not asked for stays as it was read.
Changed(j, old) ==
    [role   |-> IF j.role = "NONE" THEN old.role ELSE j.role,
     status |-> IF j.status = "NONE" THEN old.status ELSE j.status]

ActiveOwner(row) == row.role = "OWNER" /\ row.status = "ACTIVE"

\* Mutant: only a change of the role is looked at.
StopsBeingOwnerByRole(old, new) == old.role = "OWNER" /\ new.role # "OWNER"

StopsBeingOwner(old, new) == ActiveOwner(old) /\ ~ActiveOwner(new)

\* The refusals of a target an ADMIN may not touch.
MayChange(as, old, role) ==
    as = "ADMIN" => old.role \notin Privileged /\ role \notin Privileged

ReadTarget(s) ==
    LET j == job[s]
        old == member[j.who]
        new == Changed(j, old) IN
    /\ At(s, "update", "read")
    /\ IF old # NoMember /\ MayChange(j.as, old, j.role)
       THEN /\ Continue(s, [j EXCEPT !.at = IF StopsBeingOwner(old, new) THEN "count" ELSE "write",
                                     !.role = new.role, !.status = new.status])
            /\ overlapped' = (overlapped \/ \E t \in Slots : job[t].op = "update" /\ job[t].at # "read")
       ELSE Finish(s) /\ UNCHANGED overlapped
    /\ UNCHANGED <<account, member, invitation, requests, grantor, joined>>

CountOwners(s) ==
    /\ At(s, "update", "count")
    /\ IF \E p \in People \ {job[s].who} : ActiveOwner(member[p])
       THEN Continue(s, [job[s] EXCEPT !.at = "write"])
       ELSE Finish(s)
    /\ UNCHANGED <<account, member, invitation, requests, grantor, joined, overlapped>>

\* update where id: both columns are written, one of them as it was read.
Update(s) ==
    /\ At(s, "update", "write")
    /\ member' = [member EXCEPT ![job[s].who] = [role |-> job[s].role, status |-> job[s].status]]
    /\ grantor' = [grantor EXCEPT ![job[s].who] =
                      IF job[s].role = member[job[s].who].role THEN @ ELSE job[s].as]
    /\ Finish(s)
    /\ UNCHANGED <<account, invitation, requests, joined, overlapped>>

-----------------------------------------------------------------------------
(* Invitations, for people without an account.                             *)

RequestInvite(s, actor, who, role) ==
    /\ MayGive(member[actor].role, role)
    /\ Request(s, actor, [Idle EXCEPT !.op = "invite", !.at = "read", !.who = who, !.role = role])

Pending(who) == \E i \in Invitations : invitation[i].state = "pending" /\ invitation[i].who = who

FindNoUser(s) ==
    /\ At(s, "invite", "read")
    /\ IF job[s].who \in account THEN Finish(s) ELSE Continue(s, [job[s] EXCEPT !.at = "find"])
    /\ UNCHANGED <<account, member, invitation, requests, grantor, joined, overlapped>>

FindPending(s) ==
    /\ At(s, "invite", "find")
    /\ IF Pending(job[s].who) THEN Finish(s) ELSE Continue(s, [job[s] EXCEPT !.at = "write"])
    /\ UNCHANGED <<account, member, invitation, requests, grantor, joined, overlapped>>

Unused == {i \in Invitations : invitation[i].state = "none"}

\* Bound: with no row left nothing is inserted.
Invite(s) ==
    /\ At(s, "invite", "write")
    /\ invitation' = [i \in Invitations |->
                         IF Unused # {} /\ i = (CHOOSE n \in Unused : TRUE)
                         THEN [state |-> "pending", who |-> job[s].who, role |-> job[s].role, by |-> job[s].as]
                         ELSE invitation[i]]
    /\ Finish(s)
    /\ UNCHANGED <<account, member, requests, grantor, joined, overlapped>>

\* The invited person: findValidByToken, then the hash of the password.
Open(s, i) ==
    /\ job[s] = Idle /\ invitation[i].state = "pending"
    /\ Continue(s, [Idle EXCEPT !.op = "accept", !.at = "tx", !.i = i])
    /\ UNCHANGED <<account, member, invitation, requests, grantor, joined, overlapped>>

\* The reads of the transaction.
ReadFresh(s) ==
    LET fresh == invitation[job[s].i] IN
    /\ At(s, "accept", "tx")
    /\ IF fresh.state = "pending" /\ member[fresh.who] = NoMember
       THEN Continue(s, [job[s] EXCEPT !.at = "commit", !.who = fresh.who, !.role = fresh.role,
                                       !.seen = fresh.who \in account])
       ELSE Finish(s)
    /\ UNCHANGED <<account, member, invitation, requests, grantor, joined, overlapped>>

\* Mutant: no unique index stops the transaction.
CommitsUnchecked(j) == TRUE

\* Its writes: the unique indexes on the email and on the membership stop it if
\* another transaction was first.
Commits(j) == (j.who \in account => j.seen) /\ member[j.who] = NoMember

Commit(s) ==
    LET j == job[s] IN
    /\ At(s, "accept", "commit")
    /\ IF Commits(j)
       THEN /\ account' = account \union {j.who}
            /\ member' = [member EXCEPT ![j.who] = [role |-> j.role, status |-> "ACTIVE"]]
            /\ invitation' = [invitation EXCEPT ![j.i].state = "accepted"]
            /\ grantor' = [grantor EXCEPT ![j.who] = invitation[j.i].by]
            /\ joined' = [joined EXCEPT ![j.i] = @ + 1]
       ELSE UNCHANGED <<account, member, invitation, grantor, joined>>
    /\ Finish(s)
    /\ UNCHANGED <<requests, overlapped>>

-----------------------------------------------------------------------------
(* The environment.                                                        *)

\* expiresAt passes.
Expire(i) ==
    /\ invitation[i].state = "pending"
    /\ invitation' = [invitation EXCEPT ![i].state = "expired"]
    /\ UNCHANGED <<account, member, job, requests, grantor, joined, overlapped>>

\* An invitation of another organization makes the account.
SignUpElsewhere(p) ==
    /\ p \notin account
    /\ account' = account \union {p}
    /\ UNCHANGED <<member, invitation, job, requests, grantor, joined, overlapped>>

-----------------------------------------------------------------------------
Ask(s) ==
    \/ \E actor, who \in People, role \in Roles : RequestAdd(s, actor, who, role) \/ RequestInvite(s, actor, who, role)
    \/ \E actor, who \in People, role \in Roles \union {"NONE"}, status \in Statuses \union {"NONE"} :
          RequestUpdate(s, actor, who, role, status)
    \/ \E i \in Invitations : Open(s, i)

Step(s) ==
    \/ FindUser(s) \/ Add(s)
    \/ ReadTarget(s) \/ CountOwners(s) \/ Update(s)
    \/ FindNoUser(s) \/ FindPending(s) \/ Invite(s)
    \/ ReadFresh(s) \/ Commit(s)

Next ==
    \/ \E s \in Slots : Ask(s) \/ Step(s)
    \/ \E i \in Invitations : Expire(i)
    \/ \E p \in People : SignUpElsewhere(p)

Spec == Init /\ [][Next]_vars

-----------------------------------------------------------------------------
(* Properties.                                                             *)

\* The final-OWNER rule: while no two updates overlap, somebody who is ACTIVE
\* is an OWNER, whatever runs beside the update.
HasActiveOwner == \E p \in People : ActiveOwner(member[p])
AnOwnerRemains == ~overlapped => HasActiveOwner

\* An OWNER or ADMIN was made one by an OWNER, directly or by an invitation
\* accepted long after, however requests overlap and whatever became of the
\* roles of those who asked.
PrivilegeFromOwner ==
    \A p \in People : member[p].role \in Privileged => grantor[p] = "OWNER"

\* An invitation leads to one membership at most, and is marked as accepted
\* exactly when it has: attempts that overlap, or come again, leave nothing.
AcceptedOnce ==
    \A i \in Invitations : joined[i] = IF invitation[i].state = "accepted" THEN 1 ELSE 0

\* Not an invariant when requests overlap: "la organización debe conservar al
\* menos un OWNER activo".
OwnerAlways == HasActiveOwner

\* Not an invariant when requests overlap: "Ya existe una invitación pendiente".
OnePending ==
    \A i, k \in Invitations :
       invitation[i].state = "pending" /\ invitation[k].state = "pending"
       /\ invitation[i].who = invitation[k].who => i = k

=============================================================================
