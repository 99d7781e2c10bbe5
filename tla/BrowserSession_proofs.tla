----------------------- MODULE BrowserSession_proofs ------------------------
(***************************************************************************)
(* For any number of pages, refreshes, tokens and widgets: the types, that *)
(* a page refreshes once at a time and nobody waits for a refresh that is  *)
(* not under way, and, while no two pages refresh the same live session at *)
(* the same moment (Apart; one page never does), what becomes of the       *)
(* refresh tokens.                                                         *)
(*                                                                         *)
(* AllTied ties each page to its refresh, whether answers are lost or not. *)
(* Until one may have been lost more is true: in Page no refresh is        *)
(* abandoned; Safe needs Apart, at the revocation: what was presented,     *)
(* granted or brought by a login is live or over, never replaced by        *)
(* somebody else; Bounded counts the live sessions together with those     *)
(* that are still to be written.                                           *)
(***************************************************************************)
EXTENDS BrowserSession, TLAPS, FiniteSetTheorems, WellFoundedInduction

\* The least element of a set of numbers: what the CHOOSE of NewToken needs.
LEMMA LeastNumber ==
    ASSUME NEW T, T \subseteq Nat, T # {}
    PROVE  \E k \in T : \A n \in T : k <= n
<1>1. PICK k \in T : \A n \in T : <<n, k>> \notin OpToRel(<, Nat)
  BY NatLessThanWellFounded, WFMin
<1>2. ASSUME NEW n \in T PROVE k <= n
  <2>1. n \in Nat /\ k \in Nat
    OBVIOUS
  <2>2. CASE n < k
    <3>1. <<n, k>> \in Nat \X Nat /\ <<n, k>>[1] = n /\ <<n, k>>[2] = k
      BY <2>1
    <3>2. <<n, k>> \in OpToRel(<, Nat)
      BY <2>2, <3>1 DEF OpToRel
    <3>3. QED
      BY <1>1, <3>2
  <2>3. QED
    BY <2>1, <2>2
<1>3. QED
  BY <1>2

LEMMA NewTokenFresh == ASSUME Unheld # {} PROVE NewToken \in Unheld
<1>1. Unheld \subseteq Nat
  BY BrowserAssumption DEF Unheld, Tokens
<1>2. \E k \in Unheld : \A n \in Unheld : k <= n
  BY <1>1, LeastNumber
<1>3. QED
  BY <1>2 DEF NewToken

LEMMA StillTyped == Still \in Request /\ Still.at = "idle" /\ Still.token = NoToken
  BY DEF Still, Request

LEMMA NoCallTyped == NoCall \in Call /\ NoCall.at = "none" /\ NoCall.token = NoToken /\ NoCall.new = NoToken
  BY DEF NoCall, Call

LEMMA OpeningTyped == Opening \in Realm
  BY DEF Opening, Realm

LEMMA RequestNames == {"restore", "me", "login", "logout"} \subseteq Requests /\ Widgets \subseteq Requests
  BY DEF Requests

LEMMA NewTokenTyped == ASSUME Unheld # {} PROVE NewToken \in Tokens /\ NewToken \notin Held /\ db[NewToken] # "live"
  BY NewTokenFresh DEF Unheld

-----------------------------------------------------------------------------
(* Types.                                                                  *)

LEMMA NewCallTyped == ASSUME TypeOK, NEW t \in Tabs PROVE NewCall(t) \in Call
  BY DEF TypeOK, NewCall, Call

\* What the actions write into the state of a page.
LEMMA RealmWrites ==
    ASSUME NEW p \in Realm
    PROVE  /\ [p EXCEPT !.user = TRUE, !.loading = FALSE] \in Realm
           /\ [p EXCEPT !.access = "valid", !.shared = None] \in Realm
           /\ [p EXCEPT !.access = "expired"] \in Realm
           /\ \A c \in Calls : [p EXCEPT !.shared = c] \in Realm
<1>1. [p EXCEPT !.user = TRUE, !.loading = FALSE] \in Realm
  BY DEF Realm
<1>2. [p EXCEPT !.access = "valid", !.shared = None] \in Realm
  BY DEF Realm
<1>3. [p EXCEPT !.access = "expired"] \in Realm
  BY DEF Realm
<1>4. ASSUME NEW c \in Calls PROVE [p EXCEPT !.shared = c] \in Realm
  BY DEF Realm
<1>5. QED
  BY <1>1, <1>2, <1>3, <1>4

\* A page is replaced by one of the right type.
LEMMA RealmPut ==
    ASSUME realm \in [Tabs -> Realm], NEW t \in Tabs, NEW p \in Realm, realm' = [realm EXCEPT ![t] = p]
    PROVE  realm' \in [Tabs -> Realm]
  OBVIOUS

LEMMA RealmTyped ==
    ASSUME TypeOK, NEW t \in Tabs
    PROVE  realm[t] \in Realm /\ realm \in [Tabs -> Realm]
  BY DEF TypeOK

LEMMA WaitsTyped == ASSUME NEW c \in Calls PROVE Waits(c) \in Request
  BY DEF Waits, Still, Request

LEMMA AbandonedTyped == ASSUME TypeOK, NEW t \in Tabs PROVE Abandoned(t) \in [Calls -> Call]
<1>1. ASSUME NEW c \in Calls PROVE Abandoned(t)[c] \in Call
  BY DEF TypeOK, Abandoned, Call
<1>2. QED
  BY <1>1 DEF Abandoned

LEMMA LeaveTyped ==
    ASSUME TypeOK, NEW t \in Tabs, Leave(t)
    PROVE  realm' \in [Tabs -> Realm] /\ req' \in [Tabs -> [Requests -> Request]]
<1>1. [r \in Requests |-> Still] \in [Requests -> Request]
  BY StillTyped
<1>2. QED
  BY <1>1, OpeningTyped DEF TypeOK, Leave

LEMMA AttemptTyped ==
    ASSUME TypeOK, NEW t \in Tabs, NEW r \in Requests, AttemptRefresh(t, r)
    PROVE  /\ realm' \in [Tabs -> Realm]
           /\ req' \in [Tabs -> [Requests -> Request]]
           /\ call' \in [Calls -> Call]
<1>1. ASSUME NEW c \in Calls, req' = [req EXCEPT ![t][r] = Waits(c)]
      PROVE  req' \in [Tabs -> [Requests -> Request]]
  BY <1>1, WaitsTyped DEF TypeOK
<1>2. CASE Shared(t) # None
  <2>1. Shared(t) \in Calls
    BY <1>2 DEF TypeOK, Shared, Realm
  <2>2. QED
    BY <1>1, <1>2, <2>1 DEF AttemptRefresh, TypeOK
<1>3. CASE Shared(t) = None
  <2>1. PICK c \in Calls : /\ call' = [call EXCEPT ![c] = NewCall(t)]
                           /\ realm' = [realm EXCEPT ![t].shared = c]
                           /\ req' = [req EXCEPT ![t][r] = Waits(c)]
    BY <1>3 DEF AttemptRefresh
  <2>2. call' \in [Calls -> Call]
    BY <2>1, NewCallTyped DEF TypeOK
  <2>3. realm' \in [Tabs -> Realm]
    <3>1. realm' = [realm EXCEPT ![t] = [realm[t] EXCEPT !.shared = c]]
      BY <2>1, RealmTyped
    <3>2. [realm[t] EXCEPT !.shared = c] \in Realm
      BY RealmTyped, RealmWrites
    <3>3. QED
      BY <3>1, <3>2, RealmTyped, RealmPut
  <2>4. QED
    BY <1>1, <2>1, <2>2, <2>3
<1>4. QED
  BY <1>2, <1>3

LEMMA GatedTyped ==
    ASSUME NEW p \in Realm, NEW m \in BOOLEAN
    PROVE  /\ Gated(p, m) \in Realm
           /\ Gated(p, m).shared = p.shared
           /\ Gated(p, m).page = "opening" <=> p.page = "opening"
  BY DEF Gated, Realm

LEMMA FailsTyped ==
    ASSUME TypeOK, NEW t \in Tabs, NEW W \in SUBSET Requests, NEW c \in Calls \union {None},
           Fails(t, W, c)
    PROVE  /\ realm' \in [Tabs -> Realm]
           /\ req' \in [Tabs -> [Requests -> Request]]
           /\ marker' \in BOOLEAN
<1>1. CASE Leave(t) /\ marker' = Cleared(marker)
  BY <1>1, LeaveTyped DEF Cleared
<1>2. CASE ~(realm[t].page = "app" /\ W \ {"restore"} # {})
  <2> DEFINE p == [realm[t] EXCEPT !.loading = @ /\ W \intersect {"restore", "me"} = {}, !.shared = c]
             q == IF W \ {"restore"} # {} THEN [p EXCEPT !.access = "none"] ELSE p
             o == IF W \intersect {"me", "logout"} # {} THEN SignedOut(q) ELSE q
  <2>1. p \in Realm
    BY DEF TypeOK, Realm
  <2>2. q \in Realm
    BY <2>1 DEF Realm
  <2>3. o \in Realm
    BY <2>2 DEF Realm, SignedOut
  <2> HIDE DEF p, q
  <2>4. marker' \in BOOLEAN
    BY <1>2 DEF TypeOK, Fails, Cleared
  <2>5. realm' = [realm EXCEPT ![t] = Gated(o, marker')]
    BY <1>2 DEF Fails, o, p, q
  <2>6. Gated(o, marker') \in Realm
    BY <2>3, <2>4, GatedTyped
  <2>7. req' = [req EXCEPT ![t] = [r \in Requests |-> IF r \in W THEN Still ELSE req[t][r]]]
    BY <1>2 DEF Fails
  <2>8. [r \in Requests |-> IF r \in W THEN Still ELSE req[t][r]] \in [Requests -> Request]
    BY StillTyped DEF TypeOK
  <2> HIDE DEF o
  <2>9. QED
    BY <2>4, <2>5, <2>6, <2>7, <2>8 DEF TypeOK
<1>3. QED
  BY <1>1, <1>2 DEF Fails

LEMMA InitType == Init => TypeOK
<1> SUFFICES ASSUME Init PROVE TypeOK
  OBVIOUS
<1>1. req \in [Tabs -> [Requests -> Request]]
  BY StillTyped DEF Init
<1>2. realm \in [Tabs -> Realm] /\ call \in [Calls -> Call]
  BY OpeningTyped, NoCallTyped DEF Init
<1>3. logins \in 0..MaxLogins /\ reloads \in 0..MaxReloads
  BY BrowserAssumption DEF Init
<1>4. QED
  BY <1>1, <1>2, <1>3 DEF Init, TypeOK

LEMMA MountType == ASSUME TypeOK, NEW t \in Tabs, Mount(t) PROVE TypeOK'
<1>1. PICK c \in Calls :
        /\ call' = [call EXCEPT ![c] = NewCall(t)]
        /\ realm' = [realm EXCEPT ![t] = [Opening EXCEPT !.page = IF marker THEN "app" ELSE "login",
                                                         !.shared = c]]
        /\ req' = [req EXCEPT ![t]["restore"] = Waits(c)]
  BY DEF Mount
<1>2. [Opening EXCEPT !.page = IF marker THEN "app" ELSE "login", !.shared = c] \in Realm
  BY DEF Opening, Realm
<1>3. QED
  BY <1>1, <1>2, NewCallTyped, WaitsTyped, RequestNames DEF TypeOK, Mount

LEMMA ReloadType == ASSUME TypeOK, NEW t \in Tabs, Reload(t) PROVE TypeOK'
<1>1. reloads' \in 0..MaxReloads
  BY BrowserAssumption DEF TypeOK, Reload
<1>2. QED
  BY <1>1, LeaveTyped, AbandonedTyped DEF TypeOK, Reload

LEMMA SentTyped == ASSUME TypeOK, NEW t \in Tabs PROVE Sent(t) \in Request
  BY DEF TypeOK, Sent, Still, Request

LEMMA AskType ==
    ASSUME TypeOK, NEW t \in Tabs, (\E w \in Widgets : Poll(t, w) \/ PollServed(t, w)) \/ Logout(t)
    PROVE  TypeOK'
<1>1. ASSUME NEW r \in Requests, NEW q \in Request, req' = [req EXCEPT ![t][r] = q]
      PROVE  req' \in [Tabs -> [Requests -> Request]]
  BY <1>1 DEF TypeOK
<1>2. PICK r \in Requests, q \in Request :
         /\ req' = [req EXCEPT ![t][r] = q]
         /\ UNCHANGED <<db, cookie, marker, realm, call, logins, reloads, lost>>
  BY SentTyped, StillTyped, RequestNames DEF Poll, PollServed, Logout
<1>3. QED
  BY <1>1, <1>2 DEF TypeOK

LEMMA UnauthorizedType ==
    ASSUME TypeOK, NEW t \in Tabs, NEW r \in Requests, Unauthorized(t, r)
    PROVE  TypeOK'
  BY AttemptTyped DEF TypeOK, Unauthorized

LEMMA MeServedType == ASSUME TypeOK, NEW t \in Tabs, MeServed(t) PROVE TypeOK'
<1>1. realm' = [realm EXCEPT ![t] = [realm[t] EXCEPT !.user = TRUE, !.loading = FALSE]]
  BY RealmTyped DEF MeServed
<1>2. [realm[t] EXCEPT !.user = TRUE, !.loading = FALSE] \in Realm
  BY RealmTyped, RealmWrites
<1>3. realm' \in [Tabs -> Realm]
  BY <1>1, <1>2, RealmTyped, RealmPut
<1>4. QED
  BY <1>3, StillTyped, RequestNames DEF TypeOK, MeServed

LEMMA LogoutServedType == ASSUME TypeOK, NEW t \in Tabs, LogoutServed(t) PROVE TypeOK'
<1>1. req' \in [Tabs -> [Requests -> Request]]
  <2> DEFINE q == [req[t]["logout"] EXCEPT !.at = "served"]
  <2>1. q \in Request
    <3>1. req[t]["logout"] \in Request
      BY RequestNames DEF TypeOK
    <3>2. QED
      BY <3>1 DEF Request
  <2>2. req' = [req EXCEPT ![t]["logout"] = q]
    BY RequestNames DEF TypeOK, LogoutServed
  <2> HIDE DEF q
  <2>3. QED
    BY <2>1, <2>2, RequestNames DEF TypeOK
<1>2. db' \in [Tokens -> {"none", "live", "rotated", "ended"}]
  BY DEF TypeOK, LogoutServed
<1>3. QED
  BY <1>1, <1>2 DEF TypeOK, LogoutServed

LEMMA LogoutAnsweredType == ASSUME TypeOK, NEW t \in Tabs, LogoutAnswered(t) PROVE TypeOK'
<1>1. SignedOut(realm[t]) \in Realm
  BY DEF TypeOK, SignedOut, Realm
<1>2. marker' \in BOOLEAN
  BY DEF LogoutAnswered, Cleared
<1>3. Gated(SignedOut(realm[t]), marker') \in Realm
  BY <1>1, <1>2, GatedTyped
<1>4. realm' = [realm EXCEPT ![t] = Gated(SignedOut(realm[t]), marker')]
  BY DEF LogoutAnswered, TypeOK
<1>5. realm' \in [Tabs -> Realm]
  BY <1>3, <1>4 DEF TypeOK
<1>6. QED
  BY <1>2, <1>5, StillTyped, RequestNames DEF TypeOK, LogoutAnswered

LEMMA RefusedType ==
    ASSUME TypeOK, NEW t \in Tabs, NEW r \in Requests, Refused(t, r)
    PROVE  TypeOK'
<1>1. realm[t].shared \in Calls \union {None}
  BY DEF TypeOK, Realm
<1>2. {r} \in SUBSET Requests /\ Fails(t, {r}, realm[t].shared)
  BY DEF Refused
<1>3. realm' \in [Tabs -> Realm] /\ req' \in [Tabs -> [Requests -> Request]] /\ marker' \in BOOLEAN
  BY <1>1, <1>2, FailsTyped
<1>4. call' \in [Calls -> Call] /\ lost' \in BOOLEAN
  BY AbandonedTyped DEF TypeOK, Refused
<1>5. QED
  BY <1>3, <1>4 DEF TypeOK, Refused

LEMMA LoginType ==
    ASSUME TypeOK, NEW t \in Tabs, Submit(t) \/ LoginServed(t) \/ LoginAnswered(t)
    PROVE  TypeOK'
<1>1. [Still EXCEPT !.at = "sent"] \in Request
  BY DEF Still, Request
<1>2. CASE Submit(t)
  <2>1. logins' \in 0..MaxLogins
    BY <1>2, BrowserAssumption DEF TypeOK, Submit
  <2>2. QED
    BY <1>1, <1>2, <2>1, RequestNames DEF TypeOK, Submit
<1>3. CASE LoginServed(t)
  <2>1. NewToken \in Tokens
    BY <1>3, NewTokenTyped DEF LoginServed
  <2>2. [Still EXCEPT !.at = "served", !.token = NewToken] \in Request
    BY <2>1 DEF Still, Request
  <2>3. QED
    BY <1>3, <2>1, <2>2, RequestNames DEF TypeOK, LoginServed
<1>4. CASE LoginAnswered(t)
  <2>1. realm' \in [Tabs -> Realm]
    <3>1. [realm[t] EXCEPT !.access = "valid", !.user = TRUE, !.page = "app"] \in Realm
      BY DEF TypeOK, Realm
    <3>2. realm' = [realm EXCEPT ![t] = [realm[t] EXCEPT !.access = "valid", !.user = TRUE, !.page = "app"]]
      BY <1>4 DEF TypeOK, LoginAnswered
    <3>3. QED
      BY <3>1, <3>2 DEF TypeOK
  <2>2. cookie' \in Tokens \union {NoToken}
    BY <1>4, RequestNames DEF TypeOK, LoginAnswered, Request
  <2>3. QED
    BY <1>4, <2>1, <2>2, StillTyped, RequestNames DEF TypeOK, LoginAnswered
<1>5. QED
  BY <1>2, <1>3, <1>4

LEMMA ServerType ==
    ASSUME TypeOK, NEW c \in Calls,
           ReadSession(c) \/ RevokeSession(c) \/ IssueSession(c) \/ NetworkError(c)
    PROVE  TypeOK'
<1>1. ASSUME NEW at \in {"revoke", "denied", "issue"}, call' = [call EXCEPT ![c].at = at]
      PROVE  call' \in [Calls -> Call]
  <2>1. [call[c] EXCEPT !.at = at] \in Call
    BY DEF TypeOK, Call
  <2>2. QED
    BY <1>1, <2>1 DEF TypeOK
<1>2. CASE ReadSession(c) \/ NetworkError(c)
  BY <1>1, <1>2 DEF TypeOK, ReadSession, NetworkError
<1>3. CASE RevokeSession(c)
  <2>1. db' \in [Tokens -> {"none", "live", "rotated", "ended"}]
    BY <1>3 DEF TypeOK, RevokeSession, Revoked
  <2>2. QED
    BY <1>1, <1>3, <2>1 DEF TypeOK, RevokeSession
<1>4. CASE IssueSession(c)
  <2>1. NewToken \in Tokens
    BY <1>4, NewTokenTyped DEF IssueSession
  <2>2. [call[c] EXCEPT !.at = "granted", !.new = NewToken] \in Call
    BY <2>1 DEF TypeOK, Call
  <2>3. call' = [call EXCEPT ![c] = [call[c] EXCEPT !.at = "granted", !.new = NewToken]]
    BY <1>4 DEF TypeOK, IssueSession
  <2>4. QED
    BY <1>4, <2>1, <2>2, <2>3 DEF TypeOK, IssueSession
<1>5. QED
  BY <1>2, <1>3, <1>4

LEMMA GrantedType == ASSUME TypeOK, NEW c \in Calls, Granted(c) PROVE TypeOK'
<1> DEFINE t == call[c].tab
           resumed == [Still EXCEPT !.at = "again", !.valid = TRUE, !.token = call[c].new]
           now == [r \in Requests |->
                     IF r = "restore" /\ r \in Waiting(c) THEN Still
                     ELSE IF r \in Waiting(c) THEN resumed
                     ELSE IF r = "me" /\ "restore" \in Waiting(c) THEN [resumed EXCEPT !.at = "sent"]
                     ELSE req[t][r]]
<1>1. t \in Tabs /\ call[c].new \in Tokens \union {NoToken}
  BY DEF TypeOK, Call, Granted
<1>2. resumed \in Request /\ [resumed EXCEPT !.at = "sent"] \in Request
  BY <1>1 DEF Still, Request
<1>3. req' = [req EXCEPT ![t] = now]
  BY DEF Granted
<1> HIDE DEF resumed
<1>4. now \in [Requests -> Request]
  BY <1>1, <1>2, StillTyped DEF TypeOK
<1> HIDE DEF now
<1>5. req' \in [Tabs -> [Requests -> Request]]
  BY <1>1, <1>3, <1>4 DEF TypeOK
<1>6. realm' \in [Tabs -> Realm]
  <2>1. realm' = [realm EXCEPT ![t] = [realm[t] EXCEPT !.access = "valid", !.shared = None]]
    BY <1>1, RealmTyped DEF Granted
  <2>2. [realm[t] EXCEPT !.access = "valid", !.shared = None] \in Realm
    BY <1>1, RealmTyped, RealmWrites
  <2>3. QED
    BY <1>1, <2>1, <2>2, RealmTyped, RealmPut
<1>7. cookie' \in Tokens \union {NoToken} /\ call' \in [Calls -> Call]
  BY <1>1, NoCallTyped DEF TypeOK, Granted, CookieOf
<1>8. QED
  BY <1>5, <1>6, <1>7 DEF TypeOK, Granted

LEMMA DeniedType == ASSUME TypeOK, NEW c \in Calls, Denied(c) PROVE TypeOK'
<1>1. call[c].tab \in Tabs
  BY DEF TypeOK, Call, Denied
<1>2. Waiting(c) \in SUBSET Requests
  BY DEF Waiting
<1>3. realm' \in [Tabs -> Realm] /\ req' \in [Tabs -> [Requests -> Request]] /\ marker' \in BOOLEAN
  BY <1>1, <1>2, FailsTyped DEF Denied
<1>4. QED
  BY <1>3, NoCallTyped DEF TypeOK, Denied

LEMMA AbandonedAnswerType == ASSUME TypeOK, NEW c \in Calls, AnswerAbandoned(c) PROVE TypeOK'
<1>1. cookie' \in Tokens \union {NoToken}
  BY DEF TypeOK, Call, AnswerAbandoned, CookieOf
<1>2. QED
  BY <1>1, NoCallTyped DEF TypeOK, AnswerAbandoned

LEMMA ExpiryType ==
    ASSUME TypeOK, (\E t \in Tabs : AccessExpires(t)) \/ (\E k \in Tokens : SessionExpires(k))
    PROVE  TypeOK'
<1>1. ASSUME NEW t \in Tabs, AccessExpires(t) PROVE TypeOK'
  <2>1. [r \in Requests |-> [req[t][r] EXCEPT !.valid = FALSE]] \in [Requests -> Request]
    <3>1. ASSUME NEW r \in Requests PROVE [req[t][r] EXCEPT !.valid = FALSE] \in Request
      <4>1. req[t][r] \in Request
        BY DEF TypeOK
      <4>2. QED
        BY <4>1 DEF Request
    <3>2. QED
      BY <3>1
  <2>2. req' = [req EXCEPT ![t] = [r \in Requests |-> [req[t][r] EXCEPT !.valid = FALSE]]]
    BY <1>1 DEF AccessExpires
  <2>3. req' \in [Tabs -> [Requests -> Request]]
    BY <2>1, <2>2 DEF TypeOK
  <2>4. realm' \in [Tabs -> Realm]
    <3>1. realm' = [realm EXCEPT ![t] = [realm[t] EXCEPT !.access = "expired"]]
      BY <1>1, RealmTyped DEF AccessExpires
    <3>2. [realm[t] EXCEPT !.access = "expired"] \in Realm
      BY RealmTyped, RealmWrites
    <3>3. QED
      BY <3>1, <3>2, RealmTyped, RealmPut
  <2>5. QED
    BY <1>1, <2>3, <2>4 DEF TypeOK, AccessExpires
<1>2. ASSUME NEW k \in Tokens, SessionExpires(k) PROVE TypeOK'
  BY <1>2 DEF TypeOK, SessionExpires
<1>3. QED
  BY <1>1, <1>2

-----------------------------------------------------------------------------
(* The pages: each waits for one refresh at a time.                        *)

\* Every refresh under way belongs to a page, which waits for it.
Alone ==
    \A c \in Calls : call[c].at # "none" => call[c].tab # None /\ realm[call[c].tab].shared = c

\* A page on its way waits for nothing.
Ready ==
    \A t \in Tabs :
       realm[t].page = "opening" =>
          realm[t].shared = None /\ \A r \in Requests : req[t][r].at = "idle"

\* A login neither waits for a refresh nor is sent again.
LoginsPlain == \A t \in Tabs : req[t]["login"].at \in {"idle", "sent", "served"}

Page == Alone /\ Ready /\ LoginsPlain

OtherTabs(t) == \A u \in Tabs : u # t => realm'[u] = realm[u] /\ req'[u] = req[u]

\* No login is sent or served.
SameLogins ==
    \A t \in Tabs : \/ req'[t]["login"].at = "idle"
                    \/ /\ req'[t]["login"].at = req[t]["login"].at
                       /\ req'[t]["login"].token = req[t]["login"].token

LEMMA CallsTabs == ASSUME TypeOK, NEW c \in Calls, call[c].tab # None PROVE call[c].tab \in Tabs
  BY DEF TypeOK, Call

LEMMA PlainKept == ASSUME Page, SameLogins PROVE LoginsPlain'
  BY DEF Page, LoginsPlain, SameLogins

\* A page goes on: no refresh of it starts, and none ends.
LEMMA PageGoesOn ==
    ASSUME TypeOK, Page, NEW t \in Tabs, OtherTabs(t), call' = call, LoginsPlain',
           realm'[t].shared = realm[t].shared,
           realm'[t].page = "opening" =>
              realm[t].page = "opening" /\ \A r \in Requests : req'[t][r].at = req[t][r].at
    PROVE  Page'
<1>1. Alone'
  <2> SUFFICES ASSUME NEW c \in Calls, call[c].at # "none"
               PROVE  call[c].tab # None /\ realm'[call[c].tab].shared = c
    BY DEF Alone
  <2>1. call[c].tab \in Tabs /\ call[c].tab # None /\ realm[call[c].tab].shared = c
    BY CallsTabs DEF Page, Alone
  <2>2. QED
    BY <2>1 DEF OtherTabs
<1>2. Ready'
  BY DEF Page, Ready, OtherTabs
<1>3. QED
  BY <1>1, <1>2 DEF Page

\* A page starts a refresh while it waits for none.
LEMMA PageStarts ==
    ASSUME TypeOK, Page, NEW t \in Tabs, NEW c \in Calls, OtherTabs(t), LoginsPlain',
           call[c].at = "none", call' = [call EXCEPT ![c] = NewCall(t)],
           realm[t].shared = None, realm'[t].shared = c, realm'[t].page # "opening"
    PROVE  Page'
<1>1. call'[c] = NewCall(t) /\ \A d \in Calls : d # c => call'[d] = call[d]
  BY DEF TypeOK
<1>2. call'[c].tab = t /\ t # None
  BY <1>1, BrowserAssumption DEF NewCall
<1>3. ASSUME NEW d \in Calls, d # c, call[d].at # "none"
      PROVE  call[d].tab # None /\ realm'[call[d].tab].shared = d
  <2>1. call[d].tab \in Tabs /\ call[d].tab # None /\ realm[call[d].tab].shared = d
    BY <1>3, CallsTabs DEF Page, Alone
  <2>2. call[d].tab # t
    BY <2>1, BrowserAssumption
  <2>3. QED
    BY <2>1, <2>2 DEF OtherTabs
<1>4. Alone'
  BY <1>1, <1>2, <1>3 DEF Alone
<1>5. Ready'
  BY DEF Page, Ready, OtherTabs
<1>6. QED
  BY <1>4, <1>5 DEF Page

\* A page has the answer of its refresh.
LEMMA PageEnds ==
    ASSUME TypeOK, Page, NEW c \in Calls, NEW t \in Tabs, call[c].at # "none", call[c].tab = t,
           OtherTabs(t), LoginsPlain', call' = [call EXCEPT ![c] = NoCall],
           realm'[t].shared = None,
           realm'[t].page = "opening" => \A r \in Requests : req'[t][r].at = "idle"
    PROVE  Page'
<1>1. call'[c].at = "none" /\ \A d \in Calls : d # c => call'[d] = call[d]
  BY NoCallTyped DEF TypeOK
<1>2. ASSUME NEW d \in Calls, d # c, call[d].at # "none"
      PROVE  call[d].tab # None /\ realm'[call[d].tab].shared = d
  <2>1. call[d].tab \in Tabs /\ call[d].tab # None /\ realm[call[d].tab].shared = d
    BY <1>2, CallsTabs DEF Page, Alone
  <2>2. realm[t].shared = c
    BY DEF Page, Alone
  <2>3. call[d].tab # t
    BY <1>2, <2>1, <2>2
  <2>4. QED
    BY <2>1, <2>3 DEF OtherTabs
<1>3. Alone'
  BY <1>1, <1>2 DEF Alone
<1>4. Ready'
  BY DEF Page, Ready, OtherTabs
<1>5. QED
  BY <1>3, <1>4 DEF Page

\* A page leaves while it waits for no refresh.
LEMMA PageLeaves ==
    ASSUME TypeOK, Page, NEW t \in Tabs, Leave(t), call' = call, \A c \in Calls : call[c].tab # t
    PROVE  Page' /\ SameLogins
<1>1. realm'[t] = Opening /\ \A r \in Requests : req'[t][r] = Still
  BY DEF TypeOK, Leave
<1>2. OtherTabs(t)
  BY DEF TypeOK, Leave, OtherTabs
<1>3. realm'[t].shared = None /\ \A r \in Requests : req'[t][r].at = "idle"
  BY <1>1, StillTyped DEF Opening
<1>4. SameLogins
  BY <1>2, <1>3, RequestNames DEF SameLogins, OtherTabs
<1>5. Alone'
  <2> SUFFICES ASSUME NEW c \in Calls, call[c].at # "none"
               PROVE  call[c].tab # None /\ realm'[call[c].tab].shared = c
    BY DEF Alone
  <2>1. call[c].tab \in Tabs /\ call[c].tab # None /\ realm[call[c].tab].shared = c
    BY CallsTabs DEF Page, Alone
  <2>2. QED
    BY <1>2, <2>1 DEF OtherTabs
<1>6. Ready'
  BY <1>2, <1>3 DEF Page, Ready, OtherTabs
<1>7. QED
  BY <1>4, <1>5, <1>6, PlainKept DEF Page

\* A request that is no login is written.
LEMMA OneRequest ==
    ASSUME TypeOK, NEW t \in Tabs, NEW r \in Requests, r # "login", NEW q, req' = [req EXCEPT ![t][r] = q]
    PROVE  SameLogins /\ \A u \in Tabs : u # t => req'[u] = req[u]
  BY RequestNames DEF SameLogins, TypeOK

LEMMA MountPage == ASSUME TypeOK, Page, NEW t \in Tabs, Mount(t) PROVE Page' /\ SameLogins
<1>1. PICK c \in Calls :
        /\ call[c].at = "none"
        /\ call' = [call EXCEPT ![c] = NewCall(t)]
        /\ realm' = [realm EXCEPT ![t] = [Opening EXCEPT !.page = IF marker THEN "app" ELSE "login",
                                                         !.shared = c]]
        /\ req' = [req EXCEPT ![t]["restore"] = Waits(c)]
  BY DEF Mount
<1>2. realm'[t].shared = c /\ realm'[t].page # "opening"
  BY <1>1 DEF TypeOK, Opening
<1>3. realm[t].shared = None
  BY DEF Mount, Page, Ready
<1>4. SameLogins /\ \A u \in Tabs : u # t => req'[u] = req[u]
  BY <1>1, OneRequest, RequestNames
<1>5. \A u \in Tabs : u # t => realm'[u] = realm[u]
  BY <1>1 DEF TypeOK
<1>6. OtherTabs(t)
  BY <1>4, <1>5 DEF OtherTabs
<1>7. LoginsPlain'
  BY <1>4, PlainKept
<1>8. QED
  BY <1>1, <1>2, <1>3, <1>4, <1>6, <1>7, PageStarts

LEMMA UnauthorizedPage ==
    ASSUME TypeOK, Page, NEW t \in Tabs, NEW r \in Requests, Unauthorized(t, r)
    PROVE  Page' /\ SameLogins
<1>1. r # "login" /\ AttemptRefresh(t, r)
  BY DEF Unauthorized
<1>2. SameLogins /\ \A u \in Tabs : u # t => req'[u] = req[u]
  <2>1. \E q : req' = [req EXCEPT ![t][r] = q]
    BY <1>1 DEF AttemptRefresh
  <2>2. QED
    BY <1>1, <2>1, OneRequest
<1>3. realm[t].page # "opening"
  BY DEF Page, Ready, Unauthorized
<1>4. LoginsPlain'
  BY <1>2, PlainKept
<1>5. CASE Shared(t) # None
  <2>1. UNCHANGED <<realm, call>>
    BY <1>1, <1>5 DEF AttemptRefresh
  <2>2. OtherTabs(t)
    BY <1>2, <2>1 DEF OtherTabs
  <2>3. QED
    BY <1>2, <1>3, <1>4, <2>1, <2>2, PageGoesOn
<1>6. CASE Shared(t) = None
  <2>1. PICK c \in Calls : /\ call[c].at = "none"
                           /\ call' = [call EXCEPT ![c] = NewCall(t)]
                           /\ realm' = [realm EXCEPT ![t].shared = c]
    BY <1>1, <1>6 DEF AttemptRefresh
  <2>2. realm'[t].shared = c /\ realm'[t].page = realm[t].page
    BY <2>1 DEF TypeOK, Realm
  <2>3. \A u \in Tabs : u # t => realm'[u] = realm[u]
    BY <2>1 DEF TypeOK
  <2>4. OtherTabs(t)
    BY <1>2, <2>3 DEF OtherTabs
  <2>5. QED
    BY <1>2, <1>3, <1>4, <1>6, <2>1, <2>2, <2>4, PageStarts DEF Shared
<1>7. QED
  BY <1>5, <1>6

\* The steps that write one request of a page, and perhaps its user.
LEMMA AskPage ==
    ASSUME TypeOK, Page, NEW t \in Tabs,
           \/ \E w \in Widgets : Poll(t, w) \/ PollServed(t, w)
           \/ Logout(t) \/ MeServed(t) \/ LogoutServed(t)
    PROVE  Page' /\ SameLogins
<1>1. ASSUME NEW r \in Requests, r # "login", NEW q, req' = [req EXCEPT ![t][r] = q],
             req[t][r].at # "idle" \/ realm[t].page # "opening",
             realm'[t].shared = realm[t].shared, realm'[t].page = realm[t].page,
             \A u \in Tabs : u # t => realm'[u] = realm[u], call' = call
      PROVE  Page' /\ SameLogins
  <2>1. SameLogins /\ OtherTabs(t)
    BY <1>1, OneRequest DEF OtherTabs
  <2>2. realm[t].page # "opening"
    BY <1>1 DEF Page, Ready
  <2>3. LoginsPlain'
    BY <2>1, PlainKept
  <2>4. QED
    BY <1>1, <2>1, <2>2, <2>3, PageGoesOn
<1>2. ASSUME NEW w \in Widgets, Poll(t, w) \/ PollServed(t, w) PROVE Page' /\ SameLogins
  <2>1. w \in Requests /\ w # "login"
    BY BrowserAssumption DEF Requests
  <2>2. \E q : req' = [req EXCEPT ![t][w] = q]
    BY <1>2 DEF Poll, PollServed
  <2>3. realm' = realm /\ call' = call /\ (req[t][w].at # "idle" \/ realm[t].page # "opening")
    BY <1>2 DEF Poll, PollServed, Admitted
  <2>4. QED
    BY <1>1, <2>1, <2>2, <2>3
<1>3. CASE Logout(t)
  <2>1. realm' = realm /\ call' = call /\ realm[t].page # "opening" /\ req' = [req EXCEPT ![t]["logout"] = Sent(t)]
    BY <1>3 DEF Logout
  <2>2. QED
    BY <1>1, <2>1, RequestNames
<1>4. CASE MeServed(t)
  <2>1. /\ realm'[t].shared = realm[t].shared /\ realm'[t].page = realm[t].page
        /\ \A u \in Tabs : u # t => realm'[u] = realm[u]
    BY <1>4 DEF TypeOK, MeServed, Realm
  <2>2. req' = [req EXCEPT ![t]["me"] = Still] /\ req[t]["me"].at # "idle" /\ call' = call
    BY <1>4 DEF MeServed, Admitted
  <2>3. QED
    BY <1>1, <2>1, <2>2, RequestNames
<1>5. CASE LogoutServed(t)
  <2>1. realm' = realm /\ call' = call /\ req[t]["logout"].at # "idle"
    BY <1>5 DEF LogoutServed, Admitted
  <2>2. req' = [req EXCEPT ![t]["logout"] = [req[t]["logout"] EXCEPT !.at = "served"]]
    BY <1>5, RequestNames DEF TypeOK, LogoutServed
  <2>3. QED
    BY <1>1, <2>1, <2>2, RequestNames
<1>6. QED
  BY <1>2, <1>3, <1>4, <1>5

LEMMA AccessExpiresPage ==
    ASSUME TypeOK, Page, NEW t \in Tabs, AccessExpires(t)
    PROVE  Page' /\ SameLogins
<1>1. realm'[t].shared = realm[t].shared /\ realm'[t].page = realm[t].page
  BY DEF TypeOK, AccessExpires, Realm
<1>2. \A r \in Requests : req'[t][r].at = req[t][r].at /\ req'[t][r].token = req[t][r].token
  <2> SUFFICES ASSUME NEW r \in Requests
               PROVE  req'[t][r].at = req[t][r].at /\ req'[t][r].token = req[t][r].token
    OBVIOUS
  <2>1. req[t][r] \in Request
    BY DEF TypeOK
  <2>2. req'[t][r] = [req[t][r] EXCEPT !.valid = FALSE]
    BY DEF TypeOK, AccessExpires
  <2>3. QED
    BY <2>1, <2>2 DEF Request
<1>3. OtherTabs(t)
  BY DEF TypeOK, AccessExpires, OtherTabs
<1>4. SameLogins
  BY <1>2, <1>3, RequestNames DEF OtherTabs, SameLogins
<1>5. call' = call
  BY DEF AccessExpires
<1>6. QED
  BY <1>1, <1>2, <1>3, <1>4, <1>5, PlainKept, PageGoesOn

LEMMA LogoutAnsweredPage ==
    ASSUME TypeOK, Page, NEW t \in Tabs, LogoutAnswered(t)
    PROVE  Page' /\ SameLogins
<1>1. call' = call /\ req' = [req EXCEPT ![t]["logout"] = Still]
  BY DEF LogoutAnswered
<1>2. realm[t].page # "opening"
  BY RequestNames DEF Page, Ready, LogoutAnswered
<1>3. realm'[t].shared = realm[t].shared /\ realm'[t].page # "opening"
  BY <1>2 DEF TypeOK, LogoutAnswered, Realm, Gated, SignedOut
<1>4. \A u \in Tabs : u # t => realm'[u] = realm[u]
  BY DEF TypeOK, LogoutAnswered
<1>5. SameLogins /\ OtherTabs(t)
  BY <1>1, <1>4, OneRequest, RequestNames DEF OtherTabs
<1>6. QED
  BY <1>1, <1>3, <1>5, PlainKept, PageGoesOn

\* The steps of a login.
LEMMA LoginPage ==
    ASSUME TypeOK, Page, NEW t \in Tabs, Submit(t) \/ LoginServed(t) \/ LoginAnswered(t)
    PROVE  Page'
<1>1. realm[t].page # "opening"
  BY RequestNames DEF Page, Ready, Submit, LoginServed, LoginAnswered
<1>2. call' = call
  BY DEF Submit, LoginServed, LoginAnswered
<1>3. realm'[t].shared = realm[t].shared /\ realm'[t].page # "opening"
  BY <1>1 DEF TypeOK, Realm, Submit, LoginServed, LoginAnswered
<1>4. \A u \in Tabs : u # t => realm'[u] = realm[u]
  BY DEF TypeOK, Submit, LoginServed, LoginAnswered
<1>5. \A u \in Tabs : u # t => req'[u] = req[u]
  BY DEF TypeOK, Submit, LoginServed, LoginAnswered
<1>6. req'[t]["login"].at \in {"idle", "sent", "served"}
  <2>1. Submit(t) => req'[t]["login"].at = "sent"
    BY RequestNames DEF TypeOK, Submit, Still
  <2>2. LoginServed(t) => req'[t]["login"].at = "served"
    BY RequestNames DEF TypeOK, LoginServed, Still
  <2>3. LoginAnswered(t) => req'[t]["login"].at = "idle"
    BY StillTyped, RequestNames DEF TypeOK, LoginAnswered
  <2>4. QED
    BY <2>1, <2>2, <2>3
<1>7. LoginsPlain'
  BY <1>5, <1>6 DEF Page, LoginsPlain
<1>8. OtherTabs(t)
  BY <1>4, <1>5 DEF OtherTabs
<1>9. QED
  BY <1>2, <1>3, <1>7, <1>8, PageGoesOn

LEMMA LoginAnsweredLogins ==
    ASSUME TypeOK, NEW t \in Tabs, LoginAnswered(t)
    PROVE  SameLogins
  BY StillTyped, RequestNames DEF TypeOK, SameLogins, LoginAnswered

\* What a failure leaves: the page it was on, or one on its way.
LEMMA FailsPage ==
    ASSUME TypeOK, NEW t \in Tabs, NEW W \in SUBSET Requests, NEW s \in Calls \union {None},
           Fails(t, W, s), realm[t].page # "opening"
    PROVE  /\ SameLogins /\ OtherTabs(t)
           /\ realm'[t].page = "opening" =>
                 Leave(t) /\ realm'[t].shared = None /\ \A r \in Requests : req'[t][r].at = "idle"
           /\ realm'[t].page # "opening" =>
                 /\ realm'[t].shared = s
                 /\ \A r \in Requests : req'[t][r] = IF r \in W THEN Still ELSE req[t][r]
<1>1. CASE Leave(t)
  <2>1. realm'[t] = Opening /\ \A r \in Requests : req'[t][r] = Still
    BY <1>1 DEF TypeOK, Leave
  <2>2. realm'[t].page = "opening" /\ realm'[t].shared = None /\ \A r \in Requests : req'[t][r].at = "idle"
    BY <2>1, StillTyped DEF Opening
  <2>3. OtherTabs(t)
    BY <1>1 DEF TypeOK, Leave, OtherTabs
  <2>4. SameLogins
    BY <2>2, <2>3, RequestNames DEF OtherTabs, SameLogins
  <2>5. QED
    BY <1>1, <2>2, <2>3, <2>4
<1>2. CASE ~(realm[t].page = "app" /\ W \ {"restore"} # {})
  <2> DEFINE p == [realm[t] EXCEPT !.loading = @ /\ W \intersect {"restore", "me"} = {}, !.shared = s]
             q == IF W \ {"restore"} # {} THEN [p EXCEPT !.access = "none"] ELSE p
             o == IF W \intersect {"me", "logout"} # {} THEN SignedOut(q) ELSE q
  <2>1. p \in Realm /\ p.page = realm[t].page /\ p.shared = s
    BY DEF TypeOK, Realm
  <2> HIDE DEF p
  <2>2. q \in Realm /\ q.page = realm[t].page /\ q.shared = s
    BY <2>1 DEF Realm
  <2> HIDE DEF q
  <2>3. o \in Realm /\ o.page = realm[t].page /\ o.shared = s
    BY <2>2 DEF Realm, SignedOut
  <2>4. realm' = [realm EXCEPT ![t] = Gated(o, marker')] /\ marker' \in BOOLEAN
    BY <1>2 DEF Fails, Cleared, TypeOK, o, p, q
  <2> HIDE DEF o
  <2>5. realm'[t] = Gated(o, marker') /\ \A u \in Tabs : u # t => realm'[u] = realm[u]
    BY <2>4 DEF TypeOK
  <2>6. realm'[t].page # "opening" /\ realm'[t].shared = s
    BY <2>3, <2>4, <2>5, GatedTyped
  <2>7. req' = [req EXCEPT ![t] = [r \in Requests |-> IF r \in W THEN Still ELSE req[t][r]]]
    BY <1>2 DEF Fails
  <2>8. /\ req'[t]["login"] = Still \/ req'[t]["login"] = req[t]["login"]
        /\ \A u \in Tabs : u # t => req'[u] = req[u]
    BY <2>7, RequestNames DEF TypeOK
  <2>9. OtherTabs(t)
    BY <2>5, <2>8 DEF OtherTabs
  <2>10. SameLogins
    BY <2>8, StillTyped DEF SameLogins
  <2>11. \A r \in Requests : req'[t][r] = IF r \in W THEN Still ELSE req[t][r]
    BY <2>7 DEF TypeOK
  <2>12. QED
    BY <2>6, <2>9, <2>10, <2>11
<1>3. QED
  BY <1>1, <1>2 DEF Fails

\* Without a lost answer, whoever leaves abandons no refresh.
LEMMA NoneAbandoned ==
    ASSUME TypeOK, NEW t \in Tabs, call = Abandoned(t), NEW c \in Calls
    PROVE  call[c].tab # t
<1> SUFFICES ASSUME call[c].tab = t PROVE FALSE
  OBVIOUS
<1>1. call[c] = [call[c] EXCEPT !.tab = None]
  BY DEF Abandoned
<1>2. call[c].tab = None
  BY <1>1 DEF TypeOK, Call
<1>3. QED
  BY <1>2, BrowserAssumption

LEMMA ReloadPage ==
    ASSUME TypeOK, Page, NEW t \in Tabs, Reload(t), ~lost'
    PROVE  Page' /\ SameLogins /\ call' = call
<1>1. \A c \in Calls : call[c].tab # t
  BY DEF Reload
<1>2. call' = call
  <2>1. \A c \in Calls : call'[c] = call[c]
    BY <1>1 DEF Reload, Abandoned
  <2>2. QED
    BY <2>1 DEF Reload, Abandoned, TypeOK
<1>3. Leave(t)
  BY DEF Reload
<1>4. QED
  BY <1>1, <1>2, <1>3, PageLeaves

LEMMA RefusedPage ==
    ASSUME TypeOK, Page, NEW t \in Tabs, NEW r \in Requests, Refused(t, r), ~lost'
    PROVE  Page' /\ SameLogins /\ call' = call
<1>1. call' = call
  BY DEF Refused
<1>2. realm[t].page # "opening" /\ realm[t].shared \in Calls \union {None}
  BY DEF Page, Ready, Refused, TypeOK, Realm
<1>3. {r} \in SUBSET Requests /\ Fails(t, {r}, realm[t].shared)
  BY DEF Refused
<1>4. /\ SameLogins /\ OtherTabs(t)
      /\ realm'[t].page = "opening" => Leave(t)
      /\ realm'[t].page # "opening" => realm'[t].shared = realm[t].shared
  BY <1>2, <1>3, FailsPage
<1>5. CASE realm'[t].page = "opening"
  <2>1. call = Abandoned(t)
    BY <1>1, <1>5 DEF Refused
  <2>2. \A c \in Calls : call[c].tab # t
    BY <2>1, NoneAbandoned
  <2>3. QED
    BY <1>1, <1>4, <1>5, <2>2, PageLeaves
<1>6. CASE realm'[t].page # "opening"
  BY <1>1, <1>4, <1>6, PlainKept, PageGoesOn
<1>7. QED
  BY <1>5, <1>6

LEMMA DeniedPage == ASSUME TypeOK, Page, NEW c \in Calls, Denied(c) PROVE Page' /\ SameLogins
<1> DEFINE t == call[c].tab
<1>1. t \in Tabs /\ realm[t].shared = c /\ call[c].at # "none" /\ call' = [call EXCEPT ![c] = NoCall]
  BY CallsTabs DEF Page, Alone, Denied
<1>2. realm[t].page # "opening"
  BY <1>1, BrowserAssumption DEF Page, Ready
<1>3. Waiting(c) \in SUBSET Requests /\ Fails(t, Waiting(c), None)
  BY DEF Waiting, Denied
<1>4. call[c].tab = t
  OBVIOUS
<1> HIDE DEF t
<1>5. /\ SameLogins /\ OtherTabs(t)
      /\ realm'[t].shared = None
      /\ realm'[t].page = "opening" => \A r \in Requests : req'[t][r].at = "idle"
  BY <1>1, <1>2, <1>3, FailsPage
<1>6. LoginsPlain'
  BY <1>5, PlainKept
<1>7. QED
  BY <1>1, <1>4, <1>5, <1>6, PageEnds

LEMMA GrantedPage == ASSUME TypeOK, Page, NEW c \in Calls, Granted(c) PROVE Page' /\ SameLogins
<1> DEFINE t == call[c].tab
<1>1. t \in Tabs /\ realm[t].shared = c /\ call[c].at # "none" /\ call' = [call EXCEPT ![c] = NoCall]
  BY CallsTabs DEF Page, Alone, Granted
<1>2. realm[t].page # "opening"
  BY <1>1, BrowserAssumption DEF Page, Ready
<1>3. "login" \notin Waiting(c)
  BY <1>1 DEF Page, LoginsPlain, Waiting
<1>4. req'[t]["login"] = req[t]["login"]
  BY <1>1, <1>3, RequestNames DEF TypeOK, Granted
<1>5. realm'[t].shared = None /\ realm'[t].page # "opening"
  BY <1>1, <1>2 DEF TypeOK, Realm, Granted
<1>6. \A u \in Tabs : u # t => realm'[u] = realm[u] /\ req'[u] = req[u]
  BY <1>1 DEF TypeOK, Granted
<1>7. call[c].tab = t
  OBVIOUS
<1> HIDE DEF t
<1>8. OtherTabs(t)
  BY <1>6 DEF OtherTabs
<1>9. SameLogins
  BY <1>4, <1>6 DEF SameLogins
<1>10. LoginsPlain'
  BY <1>9, PlainKept
<1>11. QED
  BY <1>1, <1>5, <1>7, <1>8, <1>9, <1>10, PageEnds

\* The steps of the server: no page takes part.
LEMMA ServerPage ==
    ASSUME TypeOK, Page,
           \/ \E c \in Calls : ReadSession(c) \/ RevokeSession(c) \/ IssueSession(c)
           \/ \E k \in Tokens : SessionExpires(k)
    PROVE  Page' /\ SameLogins
<1>1. UNCHANGED <<realm, req>>
  BY DEF ReadSession, RevokeSession, IssueSession, SessionExpires
<1>2. \A d \in Calls : call'[d].tab = call[d].tab /\ (call'[d].at # "none" => call[d].at # "none")
  <2>1. ASSUME NEW c \in Calls, ReadSession(c) \/ RevokeSession(c) \/ IssueSession(c)
        PROVE  /\ call[c].at # "none" /\ call'[c].tab = call[c].tab
               /\ \A d \in Calls : d # c => call'[d] = call[d]
    BY <2>1 DEF TypeOK, Call, ReadSession, RevokeSession, IssueSession
  <2>2. ASSUME NEW k \in Tokens, SessionExpires(k) PROVE call' = call
    BY <2>2 DEF SessionExpires
  <2>3. QED
    BY <2>1, <2>2
<1>3. SameLogins
  BY <1>1 DEF SameLogins
<1>4. Alone' /\ Ready'
  BY <1>1, <1>2 DEF Page, Alone, Ready
<1>5. QED
  BY <1>3, <1>4, PlainKept DEF Page

\* What is lost stays lost.
LEMMA LostStays == ASSUME Next, ~lost' PROVE ~lost
<1>1. ASSUME NEW t \in Tabs, PageStep(t) \/ Reload(t) \/ Logout(t) \/ Submit(t) \/ AccessExpires(t) PROVE ~lost
  BY <1>1 DEF PageStep, Mount, Poll, PollServed, Unauthorized, Refused, MeServed, LogoutServed,
     LogoutAnswered, LoginServed, LoginAnswered, Reload, Logout, Submit, AccessExpires
<1>2. ASSUME NEW c \in Calls, CallStep(c) \/ NetworkError(c) PROVE ~lost
  BY <1>2 DEF CallStep, ReadSession, RevokeSession, IssueSession, Granted, Denied, AnswerAbandoned,
     NetworkError
<1>3. ASSUME NEW k \in Tokens, SessionExpires(k) PROVE ~lost
  BY <1>3 DEF SessionExpires
<1>4. QED
  BY <1>1, <1>2, <1>3 DEF Next

\* While nothing is lost, no answer is abandoned.
LEMMA NoneLost ==
    ASSUME Page, NEW c \in Calls, ~lost' PROVE ~AnswerAbandoned(c) /\ ~NetworkError(c)
  BY DEF Page, Alone, AnswerAbandoned, NetworkError

LEMMA NextPage == ASSUME TypeOK, Page, Next, ~lost' PROVE Page'
<1>1. ASSUME NEW t \in Tabs, PageStep(t) PROVE Page'
  BY <1>1, MountPage, UnauthorizedPage, AskPage, LogoutAnsweredPage, LoginPage, RefusedPage DEF PageStep
<1>2. ASSUME NEW t \in Tabs, Reload(t) \/ Logout(t) \/ Submit(t) \/ AccessExpires(t) PROVE Page'
  BY <1>2, ReloadPage, AskPage, LoginPage, AccessExpiresPage
<1>3. ASSUME NEW c \in Calls, CallStep(c) \/ NetworkError(c) PROVE Page'
  BY <1>3, NoneLost, ServerPage, GrantedPage, DeniedPage DEF CallStep
<1>4. ASSUME NEW k \in Tokens, SessionExpires(k) PROVE Page'
  BY <1>4, ServerPage
<1>5. QED
  BY <1>1, <1>2, <1>3, <1>4 DEF Next

-----------------------------------------------------------------------------
(* The refresh tokens, while no two refreshes present the same session.    *)

\* No two refreshes present the same live session before it is revoked: pages
\* that share the cookie do not refresh at the same moment.
Apart ==
    ~lost => \A c, d \in Calls :
       c # d /\ call[c].at \in {"read", "revoke"} /\ call[d].at \in {"read", "revoke"} /\ call[c].was /\ call[d].was
          => call[c].token # call[d].token

\* What a login brings is nobody else's, and not replaced.
LoginKnown ==
    \A t \in Tabs :
       req[t]["login"].at = "served" =>
          LET k == req[t]["login"].token IN
          /\ k \in Tokens /\ k # cookie /\ db[k] \in {"live", "ended"}
          /\ \A c \in Calls : k # call[c].token /\ k # call[c].new
          /\ \A u \in Tabs : u # t /\ req[u]["login"].at = "served" => req[u]["login"].token # k

\* The same of what a refresh brings.
NewKnown ==
    \A c \in Calls :
       call[c].at = "granted" =>
          LET k == call[c].new IN
          /\ k \in Tokens /\ k # cookie /\ db[k] \in {"live", "ended"}
          /\ \A d \in Calls : call[d].token # k /\ (d # c => call[d].new # k)

\* What a refresh presented is still there for it, or over.
PresentedBy(c) ==
    /\ call[c].at = "read" /\ call[c].was => call[c].token \in Tokens /\ db[call[c].token] \in {"live", "ended"}
    /\ call[c].at = "read" /\ ~call[c].was => ~Live(call[c].token)
    /\ call[c].at = "denied" /\ call[c].was => call[c].token \in Tokens /\ db[call[c].token] = "ended"
    /\ call[c].at = "revoke" => call[c].was /\ call[c].token \in Tokens /\ db[call[c].token] \in {"live", "ended"}

Presented == \A c \in Calls : PresentedBy(c)

Followed ==
    cookie # NoToken /\ db[cookie] = "rotated" =>
       \E c \in Calls : call[c].token = cookie /\ call[c].at \in {"issue", "granted"}

Safe == LoginKnown /\ NewKnown /\ Presented /\ Followed

ServedBefore ==
    \A t \in Tabs : req'[t]["login"].at = "served" =>
       req[t]["login"].at = "served" /\ req'[t]["login"].token = req[t]["login"].token

LEMMA SameServed == ASSUME SameLogins PROVE ServedBefore
  BY DEF SameLogins, ServedBefore

\* Sessions end, and the cookie stays or goes.
LEMMA SessionsEnd ==
    ASSUME TypeOK, Safe, call' = call, ServedBefore, cookie' = cookie \/ cookie' = NoToken,
           \A k \in Tokens : db'[k] = db[k] \/ (db[k] = "live" /\ db'[k] = "ended")
    PROVE  Safe'
<1>1. LoginKnown'
  BY DEF Safe, LoginKnown, ServedBefore, NoToken, Tokens
<1>2. NewKnown'
  BY DEF Safe, NewKnown, NoToken, Tokens
<1>3. ASSUME NEW c \in Calls PROVE PresentedBy(c)'
  <2>1. PresentedBy(c) /\ call[c].token \in Tokens \union {NoToken}
    BY DEF Safe, Presented, TypeOK, Call
  <2>2. QED
    BY <2>1 DEF PresentedBy, Live
<1>4. Followed'
  BY DEF Safe, Followed, TypeOK
<1>5. QED
  BY <1>1, <1>2, <1>3, <1>4 DEF Safe, Presented

\* The cookie becomes what a login brought.
LEMMA LoginAnsweredSafe == ASSUME TypeOK, Safe, NEW t \in Tabs, LoginAnswered(t) PROVE Safe'
<1> DEFINE k == req[t]["login"].token
<1>1. /\ k \in Tokens /\ db[k] \in {"live", "ended"}
      /\ \A c \in Calls : k # call[c].token /\ k # call[c].new
      /\ \A u \in Tabs : u # t /\ req[u]["login"].at = "served" => req[u]["login"].token # k
  BY DEF Safe, LoginKnown, LoginAnswered
<1>2. cookie' = k /\ UNCHANGED <<db, call>>
  BY DEF LoginAnswered
<1>3. req'[t]["login"].at = "idle" /\ \A u \in Tabs : u # t => req'[u] = req[u]
  BY StillTyped, RequestNames DEF TypeOK, LoginAnswered
<1> HIDE DEF k
<1>4. LoginKnown'
  BY <1>1, <1>2, <1>3 DEF Safe, LoginKnown
<1>5. NewKnown'
  BY <1>1, <1>2 DEF Safe, NewKnown
<1>6. Presented'
  BY <1>2 DEF Safe, Presented, PresentedBy, Live
<1>7. Followed'
  BY <1>1, <1>2 DEF Followed
<1>8. QED
  BY <1>4, <1>5, <1>6, <1>7 DEF Safe

\* A refresh presents the cookie.
LEMMA StartSafe ==
    ASSUME TypeOK, Safe, NEW t \in Tabs, NEW c \in Calls, ServedBefore, UNCHANGED <<db, cookie>>,
           call[c].at = "none", call' = [call EXCEPT ![c] = NewCall(t)]
    PROVE  Safe'
<1>1. call'[c] = NewCall(t) /\ \A d \in Calls : d # c => call'[d] = call[d]
  BY DEF TypeOK
<1>2. /\ call'[c].at = "read" /\ call'[c].token = cookie /\ call'[c].new = NoToken
      /\ call'[c].was => cookie \in Tokens /\ db[cookie] = "live"
      /\ ~call'[c].was => ~Live(cookie)
  BY <1>1 DEF NewCall, Live, TypeOK
<1>3. \A d \in Calls : /\ call'[d].token = call[d].token \/ call'[d].token = cookie
                       /\ call'[d].new = call[d].new \/ call'[d].new = NoToken
  BY <1>1, <1>2
<1>4. LoginKnown'
  BY <1>3 DEF Safe, LoginKnown, ServedBefore, NoToken, Tokens
<1>5. NewKnown'
  <2>1. \A d \in Calls : call'[d].at = "granted" => call[d].at = "granted" /\ call'[d].new = call[d].new
    BY <1>1, <1>2
  <2>2. QED
    BY <1>3, <2>1 DEF Safe, NewKnown, NoToken, Tokens
<1>6. PresentedBy(c)'
  BY <1>2 DEF PresentedBy, Live
<1>7. ASSUME NEW d \in Calls, d # c PROVE PresentedBy(d)'
  BY <1>1, <1>7 DEF Safe, Presented, PresentedBy, Live
<1>8. Followed'
  BY <1>1 DEF Safe, Followed
<1>9. QED
  BY <1>4, <1>5, <1>6, <1>7, <1>8 DEF Safe, Presented

\* The refresh c ends: denied, or granted with its new cookie.
LEMMA EndSafe ==
    ASSUME TypeOK, Safe, NEW c \in Calls, ServedBefore, db' = db, call' = [call EXCEPT ![c] = NoCall],
           \/ cookie' = cookie /\ call[c].at = "denied"
           \/ cookie' = call[c].new /\ call[c].at = "granted"
    PROVE  Safe'
<1>1. /\ call'[c].at = "none" /\ call'[c].token = NoToken /\ call'[c].new = NoToken
      /\ \A d \in Calls : d # c => call'[d] = call[d]
  BY NoCallTyped DEF TypeOK
<1>2. \A d \in Calls : /\ call'[d].token = call[d].token \/ call'[d].token = NoToken
                       /\ call'[d].new = call[d].new \/ call'[d].new = NoToken
  BY <1>1
<1>3. LoginKnown'
  BY <1>2 DEF Safe, LoginKnown, ServedBefore, NoToken, Tokens
<1>4. NewKnown'
  <2>1. \A d \in Calls : call'[d].at = "granted" => d # c /\ call[d].at = "granted" /\ call'[d].new = call[d].new
    BY <1>1
  <2>2. QED
    BY <1>2, <2>1 DEF Safe, NewKnown, NoToken, Tokens
<1>5. Presented'
  <2>1. PresentedBy(c)'
    BY <1>1 DEF PresentedBy
  <2>2. ASSUME NEW d \in Calls, d # c PROVE PresentedBy(d)'
    BY <1>1, <2>2 DEF Safe, Presented, PresentedBy, Live
  <2>3. QED
    BY <2>1, <2>2 DEF Presented
<1>6. Followed'
  <2>1. CASE cookie' = cookie /\ call[c].at = "denied"
    BY <1>1, <2>1 DEF Safe, Followed
  <2>2. CASE cookie' = call[c].new /\ call[c].at = "granted"
    BY <2>2 DEF Safe, NewKnown, Followed
  <2>3. QED
    BY <2>1, <2>2
<1>7. QED
  BY <1>3, <1>4, <1>5, <1>6 DEF Safe

LEMMA ReadSafe == ASSUME TypeOK, Safe, NEW c \in Calls, ReadSession(c) PROVE Safe'
<1>1. call[c].at = "read" /\ call[c] \in Call /\ UNCHANGED <<db, cookie, req>>
  BY DEF ReadSession, TypeOK
<1>2. /\ call'[c].at = IF Live(call[c].token) THEN "revoke" ELSE "denied"
      /\ call'[c].token = call[c].token /\ call'[c].new = call[c].new /\ call'[c].was = call[c].was
      /\ \A d \in Calls : d # c => call'[d] = call[d]
  BY DEF TypeOK, ReadSession, Call
<1>3. \A d \in Calls : call'[d].token = call[d].token /\ call'[d].new = call[d].new
  BY <1>2
<1>4. LoginKnown'
  BY <1>1, <1>3 DEF Safe, LoginKnown
<1>5. NewKnown'
  <2>1. \A d \in Calls : call'[d].at = "granted" => call[d].at = "granted"
    BY <1>2
  <2>2. QED
    BY <1>1, <1>3, <2>1 DEF Safe, NewKnown
<1>6. PresentedBy(c)'
  <2>1. call[c].was => call[c].token \in Tokens /\ db[call[c].token] \in {"live", "ended"}
    BY <1>1 DEF Safe, Presented, PresentedBy
  <2>2. ~call[c].was => ~Live(call[c].token)
    BY <1>1 DEF Safe, Presented, PresentedBy
  <2>3. call[c].was /\ ~Live(call[c].token) => db[call[c].token] = "ended"
    BY <2>1 DEF Live, NoToken, Tokens
  <2>4. QED
    BY <1>1, <1>2, <2>1, <2>2, <2>3 DEF PresentedBy
<1>7. ASSUME NEW d \in Calls, d # c PROVE PresentedBy(d)'
  BY <1>1, <1>2, <1>7 DEF Safe, Presented, PresentedBy, Live
<1>8. Followed'
  BY <1>1, <1>2 DEF Safe, Followed
<1>9. QED
  BY <1>4, <1>5, <1>6, <1>7, <1>8 DEF Safe, Presented

\* Between its read and its revocation nobody else presents the session.
LEMMA RevokeSafe ==
    ASSUME TypeOK, Safe, Apart, ~lost, NEW c \in Calls, RevokeSession(c)
    PROVE  Safe'
<1> DEFINE k == call[c].token
<1>1. call[c].at = "revoke" /\ call[c].was /\ k \in Tokens
  BY DEF Safe, Presented, PresentedBy, RevokeSession
<1>2. /\ call'[c].at = "issue" /\ call'[c].token = k /\ call'[c].new = call[c].new
      /\ \A d \in Calls : d # c => call'[d] = call[d]
  BY DEF TypeOK, RevokeSession, Call
<1>3. /\ \A n \in Tokens : n # k => db'[n] = db[n]
      /\ db[k] # "live" => db'[k] = db[k]
      /\ db'[k] # "live"
  BY <1>1 DEF TypeOK, RevokeSession, Revoked
<1>4. UNCHANGED <<cookie, req>> /\ cookie \in Tokens \union {NoToken}
  BY DEF RevokeSession, TypeOK
<1>5. \A d \in Calls : d # c /\ call[d].at \in {"read", "revoke"} /\ call[d].was => call[d].token # k
  BY <1>1 DEF Apart
<1>6. \A t \in Tabs : req[t]["login"].at = "served" => req[t]["login"].token # k
  BY DEF Safe, LoginKnown
<1>7. \A d \in Calls : call[d].at = "granted" => call[d].new # k
  BY DEF Safe, NewKnown
<1>8. \A d \in Calls : call'[d].token = call[d].token /\ call'[d].new = call[d].new
  BY <1>2
<1> HIDE DEF k
<1>9. LoginKnown'
  BY <1>3, <1>4, <1>6, <1>8 DEF Safe, LoginKnown
<1>10. NewKnown'
  <2>1. \A d \in Calls : call'[d].at = "granted" => call[d].at = "granted"
    BY <1>2
  <2>2. QED
    BY <1>3, <1>4, <1>7, <1>8, <2>1 DEF Safe, NewKnown
<1>11. PresentedBy(c)'
  BY <1>2 DEF PresentedBy
<1>12. ASSUME NEW d \in Calls, d # c PROVE PresentedBy(d)'
  <2>1. PresentedBy(d) /\ call'[d] = call[d] /\ call[d].token \in Tokens \union {NoToken}
    BY <1>2, <1>12 DEF Safe, Presented, TypeOK, Call
  <2>2. CASE call[d].token = k
    BY <1>3, <1>5, <1>12, <2>1, <2>2 DEF PresentedBy, Live
  <2>3. CASE call[d].token # k
    BY <1>3, <2>1, <2>3 DEF PresentedBy, Live
  <2>4. QED
    BY <2>2, <2>3
<1>13. Followed'
  <2>1. cookie = k => Followed'
    BY <1>2, <1>4 DEF Followed
  <2>2. cookie # k => Followed'
    BY <1>1, <1>2, <1>3, <1>4 DEF Safe, Followed
  <2>3. QED
    BY <2>1, <2>2
<1>14. QED
  BY <1>9, <1>10, <1>11, <1>12, <1>13 DEF Safe, Presented

LEMMA IssueSafe == ASSUME TypeOK, Safe, NEW c \in Calls, IssueSession(c) PROVE Safe'
<1> DEFINE k == NewToken
<1>1. call[c].at = "issue" /\ k \in Tokens /\ k \notin Held
  BY NewTokenTyped DEF IssueSession
<1>2. db'[k] = "live" /\ \A n \in Tokens : n # k => db'[n] = db[n]
  BY <1>1 DEF TypeOK, IssueSession
<1>3. /\ call'[c].at = "granted" /\ call'[c].token = call[c].token /\ call'[c].new = k
      /\ \A d \in Calls : d # c => call'[d] = call[d]
  BY DEF TypeOK, IssueSession, Call
<1>4. UNCHANGED <<cookie, req>> /\ cookie \in Tokens \union {NoToken}
  BY DEF IssueSession, TypeOK
<1>5. k # cookie /\ \A d \in Calls : k # call[d].token /\ k # call[d].new
  BY <1>1 DEF Held
<1>6. \A t \in Tabs : req[t]["login"].token # k
  BY <1>1, RequestNames DEF Held
<1> HIDE DEF k
<1>7. \A d \in Calls : call'[d].token = call[d].token /\ (d # c => call'[d].new = call[d].new)
  BY <1>3
<1>8. LoginKnown'
  <2>1. \A d \in Calls : call'[d].new = call[d].new \/ call'[d].new = k
    BY <1>3
  <2>2. QED
    BY <1>2, <1>4, <1>6, <1>7, <2>1 DEF Safe, LoginKnown
<1>9. NewKnown'
  <2>1. ASSUME NEW d \in Calls, d # c, call[d].at = "granted"
        PROVE  /\ call[d].new \in Tokens /\ call[d].new # cookie /\ db'[call[d].new] \in {"live", "ended"}
               /\ \A e \in Calls : call'[e].token # call[d].new /\ (e # d => call'[e].new # call[d].new)
    <3>1. /\ call[d].new \in Tokens /\ call[d].new # cookie /\ db[call[d].new] \in {"live", "ended"}
          /\ \A e \in Calls : call[e].token # call[d].new /\ (e # d => call[e].new # call[d].new)
      BY <2>1 DEF Safe, NewKnown
    <3>2. call[d].new # k
      BY <1>5
    <3>3. QED
      BY <1>2, <1>3, <1>7, <3>1, <3>2
  <2>2. \A e \in Calls : call'[e].token # k /\ (e # c => call'[e].new # k)
    BY <1>5, <1>7
  <2>3. QED
    BY <1>1, <1>2, <1>3, <1>4, <1>5, <2>1, <2>2 DEF NewKnown
<1>10. PresentedBy(c)'
  BY <1>3 DEF PresentedBy
<1>11. ASSUME NEW d \in Calls, d # c PROVE PresentedBy(d)'
  <2>1. PresentedBy(d) /\ call'[d] = call[d] /\ call[d].token \in Tokens \union {NoToken} /\ call[d].token # k
    BY <1>3, <1>5, <1>11 DEF Safe, Presented, TypeOK, Call
  <2>2. QED
    BY <1>2, <2>1 DEF PresentedBy, Live
<1>12. Followed'
  BY <1>1, <1>2, <1>3, <1>4, <1>5 DEF Safe, Followed
<1>13. QED
  BY <1>8, <1>9, <1>10, <1>11, <1>12 DEF Safe, Presented

LEMMA LoginServedSafe == ASSUME TypeOK, Safe, NEW t \in Tabs, LoginServed(t) PROVE Safe'
<1> DEFINE k == NewToken
<1>1. k \in Tokens /\ k \notin Held
  BY NewTokenTyped DEF LoginServed
<1>2. db'[k] = "live" /\ \A n \in Tokens : n # k => db'[n] = db[n]
  BY <1>1 DEF TypeOK, LoginServed
<1>3. /\ req'[t]["login"].at = "served" /\ req'[t]["login"].token = k
      /\ \A u \in Tabs : u # t => req'[u] = req[u]
  BY RequestNames DEF TypeOK, LoginServed, Still
<1>4. UNCHANGED <<cookie, call>> /\ cookie \in Tokens \union {NoToken}
  BY DEF LoginServed, TypeOK
<1>5. k # cookie /\ \A d \in Calls : k # call[d].token /\ k # call[d].new
  BY <1>1 DEF Held
<1>6. \A u \in Tabs : req[u]["login"].token # k
  BY <1>1, RequestNames DEF Held
<1> HIDE DEF k
<1>7. LoginKnown'
  BY <1>1, <1>2, <1>3, <1>4, <1>5, <1>6 DEF Safe, LoginKnown
<1>8. NewKnown'
  BY <1>2, <1>4, <1>5 DEF Safe, NewKnown
<1>9. ASSUME NEW d \in Calls PROVE PresentedBy(d)'
  <2>1. PresentedBy(d) /\ call[d].token \in Tokens \union {NoToken} /\ call[d].token # k
    BY <1>5 DEF Safe, Presented, TypeOK, Call
  <2>2. QED
    BY <1>2, <1>4, <2>1 DEF PresentedBy, Live
<1>10. Followed'
  BY <1>2, <1>4, <1>5 DEF Safe, Followed
<1>11. QED
  BY <1>7, <1>8, <1>9, <1>10 DEF Safe, Presented

\* The steps of a page that leave sessions, cookie and refreshes alone.
LEMMA QuietSafe ==
    ASSUME TypeOK, Safe, UNCHANGED <<db, cookie, call>>, ServedBefore
    PROVE  Safe'
  BY SessionsEnd

LEMMA AskQuiet ==
    ASSUME NEW t \in Tabs,
           \/ \E w \in Widgets : Poll(t, w) \/ PollServed(t, w)
           \/ Logout(t) \/ MeServed(t) \/ AccessExpires(t)
    PROVE  UNCHANGED <<db, cookie, call, logins>>
  BY DEF Poll, PollServed, Logout, MeServed, AccessExpires

LEMMA StartsSafe ==
    ASSUME TypeOK, Page, Safe, NEW t \in Tabs,
           Mount(t) \/ \E r \in Requests : Unauthorized(t, r)
    PROVE  Safe'
<1>1. ServedBefore /\ UNCHANGED <<db, cookie>>
  BY MountPage, UnauthorizedPage, SameServed DEF Mount, Unauthorized
<1>2. call' = call \/ \E c \in Calls : call[c].at = "none" /\ call' = [call EXCEPT ![c] = NewCall(t)]
  BY DEF Mount, Unauthorized, AttemptRefresh
<1>3. QED
  BY <1>1, <1>2, StartSafe, QuietSafe

LEMMA SubmitServed == ASSUME TypeOK, NEW t \in Tabs, Submit(t) PROVE ServedBefore
<1>1. req'[t]["login"].at = "sent" /\ \A u \in Tabs : u # t => req'[u] = req[u]
  BY RequestNames DEF TypeOK, Submit, Still
<1>2. QED
  BY <1>1 DEF ServedBefore

LEMMA PageStepSafe ==
    ASSUME TypeOK, Page, Safe, ~lost', NEW t \in Tabs,
           PageStep(t) \/ Reload(t) \/ Logout(t) \/ Submit(t) \/ AccessExpires(t)
    PROVE  Safe'
<1>1. CASE Mount(t) \/ \E r \in Requests : Unauthorized(t, r)
  BY <1>1, StartsSafe
<1>2. CASE \/ \E w \in Widgets : Poll(t, w) \/ PollServed(t, w)
           \/ Logout(t) \/ MeServed(t) \/ AccessExpires(t)
  BY <1>2, AskQuiet, AskPage, AccessExpiresPage, SameServed, QuietSafe
<1>3. CASE Submit(t)
  BY <1>3, SubmitServed, QuietSafe DEF Submit
<1>4. CASE Reload(t) \/ \E r \in Requests : Refused(t, r)
  <2>1. call' = call /\ ServedBefore
    BY <1>4, ReloadPage, RefusedPage, SameServed
  <2>2. UNCHANGED <<db, cookie>>
    BY <1>4 DEF Reload, Refused
  <2>3. QED
    BY <2>1, <2>2, QuietSafe
<1>5. CASE LogoutServed(t)
  <2>1. ServedBefore /\ UNCHANGED <<cookie, call>>
    BY <1>5, AskPage, SameServed DEF LogoutServed
  <2>2. \A k \in Tokens : db'[k] = db[k] \/ (db[k] = "live" /\ db'[k] = "ended")
    BY <1>5 DEF LogoutServed
  <2>3. QED
    BY <2>1, <2>2, SessionsEnd
<1>6. CASE LogoutAnswered(t)
  <2>1. ServedBefore /\ call' = call /\ db' = db /\ cookie' = NoToken
    BY <1>6, LogoutAnsweredPage, SameServed DEF LogoutAnswered
  <2>2. QED
    BY <2>1, SessionsEnd
<1>7. QED
  BY <1>1, <1>2, <1>3, <1>4, <1>5, <1>6, LoginServedSafe, LoginAnsweredSafe DEF PageStep

LEMMA CallStepSafe ==
    ASSUME TypeOK, Page, Safe, Apart, ~lost, ~lost', NEW c \in Calls, CallStep(c) \/ NetworkError(c)
    PROVE  Safe'
<1>1. CASE Granted(c) \/ Denied(c)
  <2>1. ServedBefore
    BY <1>1, GrantedPage, DeniedPage, SameServed
  <2>2. QED
    BY <1>1, <2>1, EndSafe DEF Granted, Denied, CookieOf
<1>2. QED
  BY <1>1, NoneLost, ReadSafe, RevokeSafe, IssueSafe DEF CallStep

LEMMA SessionExpiresSafe == ASSUME TypeOK, Page, Safe, NEW k \in Tokens, SessionExpires(k) PROVE Safe'
<1>1. \A n \in Tokens : db'[n] = db[n] \/ (db[n] = "live" /\ db'[n] = "ended")
  BY DEF TypeOK, SessionExpires
<1>2. ServedBefore
  BY ServerPage, SameServed
<1>3. QED
  BY <1>1, <1>2, SessionsEnd DEF SessionExpires

-----------------------------------------------------------------------------
(* How many sessions there are.                                            *)

\* The live sessions, without those that a refresh is about to revoke.
Counted == {k \in Tokens : db[k] = "live" /\ \A c \in Calls : call[c].at = "revoke" => call[c].token # k}

\* The refreshes and the logins that are about to write one.
Issuing == {c \in Calls : call[c].at \in {"revoke", "issue"}}
Asking  == {t \in Tabs : req[t]["login"].at = "sent"}

Bounded ==
    /\ IsFiniteSet(Issuing) /\ IsFiniteSet(Asking)
    /\ Cardinality(Counted) + Cardinality(Issuing) + Cardinality(Asking) <= logins

LEMMA TokensFinite == IsFiniteSet(Tokens) /\ \A S \in SUBSET Tokens : IsFiniteSet(S)
<1>1. IsFiniteSet(Tokens)
  BY BrowserAssumption, FS_Interval DEF Tokens
<1>2. QED
  BY <1>1, FS_Subset

LEMMA CountedFinite == IsFiniteSet(Counted) /\ IsFiniteSet(Counted')
  BY TokensFinite DEF Counted

LEMMA NoMore ==
    ASSUME NEW S, IsFiniteSet(S), NEW T \in SUBSET S
    PROVE  IsFiniteSet(T) /\ Cardinality(T) <= Cardinality(S)
  BY FS_Subset

LEMMA OneMore ==
    ASSUME NEW S, IsFiniteSet(S), NEW k, NEW T \in SUBSET (S \union {k})
    PROVE  IsFiniteSet(T) /\ Cardinality(T) <= Cardinality(S) + 1
<1>1. IsFiniteSet(S \union {k}) /\ Cardinality(S \union {k}) <= Cardinality(S) + 1
  <2>1. Cardinality(S) \in Nat
    BY FS_CardinalityType
  <2>2. /\ IsFiniteSet(S \union {k})
        /\ Cardinality(S \union {k}) = IF k \in S THEN Cardinality(S) ELSE Cardinality(S) + 1
    BY FS_AddElement
  <2>3. QED
    BY <2>1, <2>2
<1>2. IsFiniteSet(T) /\ Cardinality(T) <= Cardinality(S \union {k})
  BY <1>1, NoMore
<1>3. /\ Cardinality(S) \in Nat /\ Cardinality(S \union {k}) \in Nat /\ Cardinality(T) \in Nat
  BY <1>1, <1>2, FS_CardinalityType
<1>4. QED
  BY <1>1, <1>2, <1>3

LEMMA OneLess ==
    ASSUME NEW S, IsFiniteSet(S), NEW k \in S, NEW T \in SUBSET (S \ {k})
    PROVE  IsFiniteSet(T) /\ Cardinality(T) + 1 <= Cardinality(S)
<1>1. IsFiniteSet(S \ {k}) /\ Cardinality(S \ {k}) = Cardinality(S) - 1
  BY FS_RemoveElement
<1>2. IsFiniteSet(T) /\ Cardinality(T) <= Cardinality(S \ {k})
  BY <1>1, NoMore
<1>3. /\ Cardinality(S) \in Nat /\ Cardinality(S \ {k}) \in Nat /\ Cardinality(T) \in Nat
  BY <1>1, <1>2, FS_CardinalityType
<1>4. QED
  BY <1>1, <1>2, <1>3

LEMMA Counts ==
    ASSUME TypeOK, Bounded
    PROVE  /\ IsFiniteSet(Counted) /\ IsFiniteSet(Issuing) /\ IsFiniteSet(Asking)
           /\ Cardinality(Counted) \in Nat /\ Cardinality(Issuing) \in Nat /\ Cardinality(Asking) \in Nat
           /\ logins \in Nat
<1>1. IsFiniteSet(Counted) /\ IsFiniteSet(Issuing) /\ IsFiniteSet(Asking)
  BY CountedFinite DEF Bounded
<1>2. QED
  BY <1>1, FS_CardinalityType DEF TypeOK

\* The arithmetic of a step: what each set gains and loses.
LEMMA Balance ==
    ASSUME TypeOK, Bounded, IsFiniteSet(Issuing'), IsFiniteSet(Asking'),
           NEW a \in {-1, 0, 1}, NEW b \in {-1, 0, 1}, NEW d \in {-1, 0, 1},
           Cardinality(Counted') <= Cardinality(Counted) + a,
           Cardinality(Issuing') <= Cardinality(Issuing) + b,
           Cardinality(Asking') <= Cardinality(Asking) + d,
           logins' \in Nat, logins + (a + b + d) <= logins'
    PROVE  Bounded'
<1>1. Cardinality(Counted') \in Nat /\ Cardinality(Issuing') \in Nat /\ Cardinality(Asking') \in Nat
  BY CountedFinite, FS_CardinalityType
<1>2. Cardinality(Counted) + Cardinality(Issuing) + Cardinality(Asking) <= logins
  BY DEF Bounded
<1>3. Cardinality(Counted') + Cardinality(Issuing') + Cardinality(Asking') <= logins'
  BY <1>1, <1>2, Counts
<1>4. QED
  BY <1>3 DEF Bounded

\* The refreshes stay before or past their critical statements.
SameIssuing ==
    \A c \in Calls :
       \/ call'[c].at = call[c].at /\ call'[c].token = call[c].token
       \/ call[c].at \notin {"revoke", "issue"} /\ call'[c].at \notin {"revoke", "issue"}

LEMMA BoundKept ==
    ASSUME TypeOK, Bounded, SameIssuing, SameLogins, logins' = logins,
           \A k \in Tokens : db'[k] = "live" => db[k] = "live"
    PROVE  Bounded'
<1>1. Counted' \subseteq Counted
  BY DEF Counted, SameIssuing
<1>2. Issuing' \subseteq Issuing
  BY DEF Issuing, SameIssuing
<1>3. Asking' \subseteq Asking
  BY DEF Asking, SameLogins
<1>4. /\ Cardinality(Counted') <= Cardinality(Counted)
      /\ IsFiniteSet(Issuing') /\ Cardinality(Issuing') <= Cardinality(Issuing)
      /\ IsFiniteSet(Asking') /\ Cardinality(Asking') <= Cardinality(Asking)
  BY <1>1, <1>2, <1>3, Counts, NoMore
<1>5. /\ Cardinality(Counted') <= Cardinality(Counted) + 0
      /\ Cardinality(Issuing') <= Cardinality(Issuing) + 0
      /\ Cardinality(Asking') <= Cardinality(Asking) + 0
  BY <1>4, Counts
<1>6. logins' \in Nat /\ logins + (0 + 0 + 0) <= logins'
  BY Counts
<1>7. QED
  BY <1>4, <1>5, <1>6, Balance

LEMMA SubmitBound == ASSUME TypeOK, Bounded, NEW t \in Tabs, Submit(t) PROVE Bounded'
<1>1. Counted' = Counted /\ Issuing' = Issuing /\ logins' = logins + 1
  BY DEF Counted, Issuing, Submit
<1>2. Asking' \subseteq Asking \union {t}
  BY DEF TypeOK, Asking, Submit
<1>3. IsFiniteSet(Asking') /\ Cardinality(Asking') <= Cardinality(Asking) + 1
  BY <1>2, Counts, OneMore
<1>4. IsFiniteSet(Issuing') /\ Cardinality(Counted') <= Cardinality(Counted) + 0
  BY <1>1, Counts
<1>5. Cardinality(Issuing') <= Cardinality(Issuing) + 0
  BY <1>1, Counts
<1>6. logins' \in Nat /\ logins + (0 + 0 + 1) <= logins'
  BY <1>1, Counts
<1>7. QED
  BY <1>3, <1>4, <1>5, <1>6, Balance

LEMMA LoginServedBound == ASSUME TypeOK, Bounded, NEW t \in Tabs, LoginServed(t) PROVE Bounded'
<1>1. NewToken \in Tokens /\ Issuing' = Issuing /\ logins' = logins
  BY NewTokenTyped DEF Issuing, LoginServed
<1>2. Counted' \subseteq Counted \union {NewToken}
  BY <1>1 DEF TypeOK, Counted, LoginServed
<1>3. t \in Asking
  BY DEF Asking, LoginServed
<1>4. Asking' \subseteq Asking \ {t}
  <2>1. req'[t]["login"].at = "served" /\ \A u \in Tabs : u # t => req'[u] = req[u]
    BY RequestNames DEF TypeOK, LoginServed, Still
  <2>2. QED
    BY <2>1 DEF Asking
<1>5. Cardinality(Counted') <= Cardinality(Counted) + 1
  BY <1>2, Counts, OneMore
<1>6. IsFiniteSet(Asking') /\ Cardinality(Asking') + 1 <= Cardinality(Asking)
  BY <1>3, <1>4, Counts, OneLess
<1>7. IsFiniteSet(Issuing') /\ Cardinality(Issuing') <= Cardinality(Issuing) + 0
  BY <1>1, Counts
<1>8. Cardinality(Asking') <= Cardinality(Asking) + (-1)
  BY <1>6, Counts, FS_CardinalityType
<1>9. logins' \in Nat /\ logins + (1 + 0 + (-1)) <= logins'
  BY <1>1, Counts
<1>10. QED
  BY <1>5, <1>6, <1>7, <1>8, <1>9, Balance

\* Whoever read a live session counts for it from then on.
LEMMA ReadBound ==
    ASSUME TypeOK, Safe, Apart, ~lost, Bounded, NEW c \in Calls, ReadSession(c)
    PROVE  Bounded'
<1> DEFINE k == call[c].token
<1>1. call[c].at = "read"
  BY DEF ReadSession
<1>2. /\ call'[c].at = IF Live(k) THEN "revoke" ELSE "denied"
      /\ call'[c].token = k
      /\ \A d \in Calls : d # c => call'[d] = call[d]
  BY DEF TypeOK, ReadSession, Call
<1>3. UNCHANGED <<db, req, logins>> /\ k \in Tokens \union {NoToken}
  BY DEF ReadSession, TypeOK, Call
<1>4. Asking' = Asking
  BY <1>3 DEF Asking
<1>5. CASE Live(k)
  <2>1. call[c].was
    BY <1>1, <1>5 DEF Safe, Presented, PresentedBy
  <2>2. \A d \in Calls : call[d].at = "revoke" => call[d].was /\ d # c
    BY <1>1 DEF Safe, Presented, PresentedBy
  <2>3. \A d \in Calls : call[d].at = "revoke" => call[d].token # k
    BY <1>1, <2>1, <2>2 DEF Apart
  <2> HIDE DEF k
  <2>4. k \in Counted
    BY <1>3, <1>5, <2>3 DEF Live, Counted
  <2>5. Counted' \subseteq Counted \ {k}
    BY <1>1, <1>2, <1>3, <1>5 DEF Counted
  <2>6. Issuing' \subseteq Issuing \union {c}
    BY <1>2 DEF Issuing
  <2>7. Cardinality(Counted') + 1 <= Cardinality(Counted) /\ Cardinality(Counted') \in Nat
    BY <2>4, <2>5, Counts, OneLess, CountedFinite, FS_CardinalityType
  <2>8. IsFiniteSet(Issuing') /\ Cardinality(Issuing') <= Cardinality(Issuing) + 1
    BY <2>6, Counts, OneMore
  <2>9. Cardinality(Counted') <= Cardinality(Counted) + (-1)
    BY <2>7, Counts
  <2>10. IsFiniteSet(Asking') /\ Cardinality(Asking') <= Cardinality(Asking) + 0
    BY <1>4, Counts
  <2>11. logins' \in Nat /\ logins + ((-1) + 1 + 0) <= logins'
    BY <1>3, Counts
  <2>12. QED
    BY <2>8, <2>9, <2>10, <2>11, Balance
<1>6. CASE ~Live(k)
  <2>1. SameIssuing
    BY <1>1, <1>2, <1>6 DEF SameIssuing
  <2>2. SameLogins
    BY <1>3 DEF SameLogins
  <2>3. QED
    BY <1>3, <2>1, <2>2, BoundKept
<1>7. QED
  BY <1>5, <1>6

LEMMA RevokeBound ==
    ASSUME TypeOK, Safe, Bounded, NEW c \in Calls, RevokeSession(c)
    PROVE  Bounded'
<1> DEFINE k == call[c].token
<1>1. call[c].at = "revoke" /\ k \in Tokens
  BY DEF Safe, Presented, PresentedBy, RevokeSession
<1>2. /\ db'[k] # "live" /\ \A n \in Tokens : n # k => db'[n] = db[n]
      /\ call'[c].at = "issue" /\ \A d \in Calls : d # c => call'[d] = call[d]
  BY <1>1 DEF TypeOK, Call, RevokeSession, Revoked
<1>3. Counted' \subseteq Counted
  <2> SUFFICES ASSUME NEW n \in Counted' PROVE n \in Counted
    OBVIOUS
  <2>1. n \in Tokens /\ n # k /\ db[n] = "live"
    BY <1>2 DEF Counted
  <2>2. \A d \in Calls : call[d].at = "revoke" => call[d].token # n
    BY <1>2, <2>1 DEF Counted
  <2>3. QED
    BY <2>1, <2>2 DEF Counted
<1>4. Issuing' = Issuing
  BY <1>1, <1>2 DEF Issuing
<1>5. Asking' = Asking /\ logins' = logins
  BY DEF Asking, RevokeSession
<1>6. Cardinality(Counted') <= Cardinality(Counted) /\ Cardinality(Counted') \in Nat
  BY <1>3, Counts, NoMore, CountedFinite, FS_CardinalityType
<1>7. /\ Cardinality(Counted') <= Cardinality(Counted) + 0
      /\ IsFiniteSet(Issuing') /\ Cardinality(Issuing') <= Cardinality(Issuing) + 0
      /\ IsFiniteSet(Asking') /\ Cardinality(Asking') <= Cardinality(Asking) + 0
  BY <1>4, <1>5, <1>6, Counts
<1>8. logins' \in Nat /\ logins + (0 + 0 + 0) <= logins'
  BY <1>5, Counts
<1>9. QED
  BY <1>7, <1>8, Balance

LEMMA IssueBound == ASSUME TypeOK, Bounded, NEW c \in Calls, IssueSession(c) PROVE Bounded'
<1>1. NewToken \in Tokens /\ Asking' = Asking /\ logins' = logins
  BY NewTokenTyped DEF Asking, IssueSession
<1>2. /\ call[c].at = "issue" /\ call'[c].at = "granted"
      /\ \A d \in Calls : d # c => call'[d] = call[d]
  BY DEF TypeOK, IssueSession, Call
<1>3. \A n \in Tokens : db'[n] = "live" => db[n] = "live" \/ n = NewToken
  BY DEF TypeOK, IssueSession
<1>4. Counted' \subseteq Counted \union {NewToken}
  BY <1>2, <1>3 DEF Counted
<1>5. c \in Issuing /\ Issuing' \subseteq Issuing \ {c}
  BY <1>2 DEF Issuing
<1>6. Cardinality(Counted') <= Cardinality(Counted) + 1
  BY <1>4, Counts, OneMore
<1>7. IsFiniteSet(Issuing') /\ Cardinality(Issuing') + 1 <= Cardinality(Issuing)
  BY <1>5, Counts, OneLess
<1>8. Cardinality(Issuing') <= Cardinality(Issuing) + (-1)
  BY <1>7, Counts, FS_CardinalityType
<1>9. IsFiniteSet(Asking') /\ Cardinality(Asking') <= Cardinality(Asking) + 0
  BY <1>1, Counts
<1>10. logins' \in Nat /\ logins + (1 + (-1) + 0) <= logins'
  BY <1>1, Counts
<1>11. QED
  BY <1>6, <1>7, <1>8, <1>9, <1>10, Balance

LEMMA PageStepBound ==
    ASSUME TypeOK, Page, Bounded, ~lost', NEW t \in Tabs,
           PageStep(t) \/ Reload(t) \/ Logout(t) \/ Submit(t) \/ AccessExpires(t)
    PROVE  Bounded'
<1>1. CASE Mount(t) \/ \E r \in Requests : Unauthorized(t, r)
  <2>1. call' = call \/ \E c \in Calls : call[c].at = "none" /\ call' = [call EXCEPT ![c] = NewCall(t)]
    BY <1>1 DEF Mount, Unauthorized, AttemptRefresh
  <2>2. ASSUME NEW c \in Calls, call[c].at = "none", call' = [call EXCEPT ![c] = NewCall(t)] PROVE SameIssuing
    <3>1. call'[c].at = "read" /\ \A d \in Calls : d # c => call'[d] = call[d]
      BY <2>2 DEF TypeOK, NewCall
    <3>2. QED
      BY <2>2, <3>1 DEF SameIssuing
  <2>3. SameIssuing
    BY <2>1, <2>2 DEF SameIssuing
  <2>4. SameLogins
    BY <1>1, MountPage, UnauthorizedPage
  <2>5. logins' = logins /\ db' = db
    BY <1>1 DEF Mount, Unauthorized
  <2>6. QED
    BY <2>3, <2>4, <2>5, BoundKept
<1>2. CASE \/ \E w \in Widgets : Poll(t, w) \/ PollServed(t, w)
           \/ Logout(t) \/ MeServed(t) \/ AccessExpires(t)
  <2>1. SameLogins /\ UNCHANGED <<db, call, logins>>
    BY <1>2, AskQuiet, AskPage, AccessExpiresPage
  <2>2. SameIssuing
    BY <2>1 DEF SameIssuing
  <2>3. QED
    BY <2>1, <2>2, BoundKept
<1>3. CASE Reload(t) \/ \E r \in Requests : Refused(t, r)
  <2>1. call' = call /\ SameLogins
    BY <1>3, ReloadPage, RefusedPage
  <2>2. UNCHANGED <<db, logins>>
    BY <1>3 DEF Reload, Refused
  <2>3. SameIssuing
    BY <2>1 DEF SameIssuing
  <2>4. QED
    BY <2>1, <2>2, <2>3, BoundKept
<1>4. CASE LogoutServed(t) \/ LogoutAnswered(t) \/ LoginAnswered(t)
  <2>1. SameLogins
    BY <1>4, AskPage, LogoutAnsweredPage, LoginAnsweredLogins
  <2>2. UNCHANGED <<call, logins>> /\ \A k \in Tokens : db'[k] = "live" => db[k] = "live"
    BY <1>4 DEF LogoutServed, LogoutAnswered, LoginAnswered
  <2>3. SameIssuing
    BY <2>2 DEF SameIssuing
  <2>4. QED
    BY <2>1, <2>2, <2>3, BoundKept
<1>5. QED
  BY <1>1, <1>2, <1>3, <1>4, SubmitBound, LoginServedBound DEF PageStep

LEMMA CallStepBound ==
    ASSUME TypeOK, Page, Safe, Apart, ~lost, ~lost', Bounded, NEW c \in Calls, CallStep(c) \/ NetworkError(c)
    PROVE  Bounded'
<1>1. CASE Granted(c) \/ Denied(c)
  <2>1. SameLogins
    BY <1>1, GrantedPage, DeniedPage
  <2>2. call[c].at \in {"denied", "granted"} /\ call' = [call EXCEPT ![c] = NoCall] /\ UNCHANGED <<db, logins>>
    BY <1>1 DEF Granted, Denied
  <2>3. SameIssuing
    BY <2>2, NoCallTyped DEF TypeOK, SameIssuing
  <2>4. QED
    BY <2>1, <2>2, <2>3, BoundKept
<1>2. QED
  BY <1>1, NoneLost, ReadBound, RevokeBound, IssueBound DEF CallStep

LEMMA SessionExpiresBound ==
    ASSUME TypeOK, Page, Bounded, NEW k \in Tokens, SessionExpires(k)
    PROVE  Bounded'
<1>1. SameIssuing /\ SameLogins /\ logins' = logins
  BY ServerPage DEF SameIssuing, SessionExpires
<1>2. \A n \in Tokens : db'[n] = "live" => db[n] = "live"
  BY DEF TypeOK, SessionExpires
<1>3. QED
  BY <1>1, <1>2, BoundKept

\* What is not counted is about to be revoked by somebody.
LEMMA LiveBound ==
    ASSUME TypeOK, Bounded
    PROVE  Cardinality({k \in Tokens : db[k] = "live"}) <= logins
<1> DEFINE L == {k \in Tokens : db[k] = "live"}
           R == {c \in Calls : call[c].at = "revoke" /\ call[c].token \in L}
           f == [c \in R |-> call[c].token]
<1>1. L \ Counted = {call[c].token : c \in R}
  BY DEF Counted
<1>2. f \in Surjection(R, L \ Counted)
  BY <1>1 DEF Surjection
<1>3. R \subseteq Issuing
  BY DEF Issuing
<1>4. IsFiniteSet(L) /\ L \intersect Counted = Counted
  BY TokensFinite DEF Counted
<1> HIDE DEF f, R, L
<1>5. IsFiniteSet(R) /\ Cardinality(R) <= Cardinality(Issuing)
  BY <1>3, Counts, NoMore
<1>6. Cardinality(L \ Counted) <= Cardinality(R)
  BY <1>2, <1>5, FS_Surjection
<1>7. IsFiniteSet(L \ Counted) /\ Cardinality(L \ Counted) = Cardinality(L) - Cardinality(Counted)
  BY <1>4, FS_Difference
<1>8. Cardinality(L) \in Nat /\ Cardinality(L \ Counted) \in Nat /\ Cardinality(R) \in Nat
  BY <1>4, <1>5, <1>7, FS_CardinalityType
<1>9. Cardinality(Counted) + Cardinality(Issuing) + Cardinality(Asking) <= logins
  BY DEF Bounded
<1>10. Cardinality(L) <= logins
  BY <1>5, <1>6, <1>7, <1>8, <1>9, Counts
<1>11. QED
  BY <1>10 DEF L

-----------------------------------------------------------------------------
(* The theorems.                                                           *)

LEMMA NextType == ASSUME TypeOK, Next PROVE TypeOK'
<1>1. ASSUME NEW t \in Tabs, PageStep(t) PROVE TypeOK'
  BY <1>1, MountType, AskType, UnauthorizedType, RefusedType, MeServedType, LogoutServedType,
     LogoutAnsweredType, LoginType DEF PageStep
<1>2. ASSUME NEW t \in Tabs, Reload(t) \/ Logout(t) \/ Submit(t) \/ AccessExpires(t) PROVE TypeOK'
  BY <1>2, ReloadType, AskType, LoginType, ExpiryType
<1>3. ASSUME NEW c \in Calls, CallStep(c) \/ NetworkError(c) PROVE TypeOK'
  BY <1>3, ServerType, GrantedType, DeniedType, AbandonedAnswerType DEF CallStep
<1>4. ASSUME NEW k \in Tokens, SessionExpires(k) PROVE TypeOK'
  BY <1>4, ExpiryType
<1>5. QED
  BY <1>1, <1>2, <1>3, <1>4 DEF Next

PageInv == TypeOK /\ (~lost => Page)

LEMMA InitPage == Init => PageInv
<1> SUFFICES ASSUME Init PROVE PageInv
  OBVIOUS
<1>1. \A c \in Calls : call[c].at = "none"
  BY NoCallTyped DEF Init
<1>2. \A t \in Tabs : \A r \in Requests : req[t][r].at = "idle"
  BY StillTyped DEF Init
<1>3. Page
  BY <1>1, <1>2, RequestNames DEF Init, Page, Alone, Ready, LoginsPlain, Opening
<1>4. QED
  BY <1>3, InitType DEF PageInv

LEMMA StepPage == ASSUME PageInv, [Next]_vars PROVE PageInv'
<1>1. CASE Next
  BY <1>1, NextType, NextPage, LostStays DEF PageInv
<1>2. CASE UNCHANGED vars
  BY <1>2 DEF vars, PageInv, TypeOK, Page, Alone, Ready, LoginsPlain
<1>3. QED
  BY <1>1, <1>2

LEMMA Pages == Spec => []PageInv
<1>1. Init => PageInv
  BY InitPage
<1>2. PageInv /\ [Next]_vars => PageInv'
  BY StepPage
<1>3. QED
  BY <1>1, <1>2, PTL DEF Spec

SafeInv == ~lost => Safe /\ Bounded

LEMMA InitSafe == Init => SafeInv
<1> SUFFICES ASSUME Init PROVE Safe /\ Bounded
  BY DEF SafeInv
<1>1. \A c \in Calls : call[c].at = "none"
  BY NoCallTyped DEF Init
<1>2. \A t \in Tabs : req[t]["login"].at = "idle"
  BY StillTyped, RequestNames DEF Init
<1>3. LoginKnown /\ NewKnown
  BY <1>1, <1>2 DEF LoginKnown, NewKnown
<1>4. Presented /\ Followed
  BY <1>1 DEF Init, Presented, PresentedBy, Followed
<1>5. Counted = {} /\ Issuing = {} /\ Asking = {}
  BY <1>1, <1>2 DEF Init, Counted, Issuing, Asking
<1>6. logins = 0
  BY DEF Init
<1>7. Bounded
  BY <1>5, <1>6, FS_EmptySet DEF Bounded
<1>8. QED
  BY <1>3, <1>4, <1>7 DEF Safe

LEMMA StepSafe == ASSUME PageInv, SafeInv, Apart, [Next]_vars PROVE SafeInv'
<1> SUFFICES ASSUME ~lost' PROVE Safe' /\ Bounded'
  BY DEF SafeInv
<1>1. CASE Next
  <2>1. ~lost /\ TypeOK /\ Page /\ Safe /\ Bounded
    BY <1>1, LostStays DEF PageInv, SafeInv
  <2>2. ASSUME NEW t \in Tabs, PageStep(t) \/ Reload(t) \/ Logout(t) \/ Submit(t) \/ AccessExpires(t)
        PROVE  Safe' /\ Bounded'
    BY <2>1, <2>2, PageStepSafe, PageStepBound
  <2>3. ASSUME NEW c \in Calls, CallStep(c) \/ NetworkError(c) PROVE Safe' /\ Bounded'
    BY <2>1, <2>3, CallStepSafe, CallStepBound
  <2>4. ASSUME NEW k \in Tokens, SessionExpires(k) PROVE Safe' /\ Bounded'
    BY <2>1, <2>4, SessionExpiresSafe, SessionExpiresBound
  <2>5. QED
    BY <1>1, <2>2, <2>3, <2>4 DEF Next
<1>2. CASE UNCHANGED vars
  <2>1. TypeOK /\ Safe /\ Bounded
    BY <1>2 DEF PageInv, SafeInv, vars
  <2>2. UNCHANGED <<db, cookie, call, req, logins>>
    BY <1>2 DEF vars
  <2>3. SameLogins /\ SameIssuing
    BY <2>2 DEF SameLogins, SameIssuing
  <2>4. QED
    BY <2>1, <2>2, <2>3, SameServed, QuietSafe, BoundKept
<1>3. QED
  BY <1>1, <1>2

LEMMA Sessions == Spec /\ []Apart => []SafeInv
<1>1. Init => SafeInv
  BY InitSafe
<1>2. PageInv /\ SafeInv /\ Apart /\ [Next]_vars => SafeInv'
  BY StepSafe
<1>3. QED
  BY <1>1, <1>2, Pages, PTL DEF Spec

\* Every reachable state has its types.
THEOREM TypeCorrect == Spec => []TypeOK
<1>1. PageInv => TypeOK
  BY DEF PageInv
<1>2. QED
  BY <1>1, Pages, PTL

-----------------------------------------------------------------------------
(* What a page waits for, whether answers are lost or not.                 *)

\* A refresh under way whose answer a page reads.
Runs(c, t) == call[c].at # "none" /\ call[c].tab = t

\* The promise of a page is the one refresh that runs for it, and the requests
\* that wait are waiting for that one.
Tied(t) ==
    /\ realm[t].page = "opening" =>
          realm[t].shared = None /\ \A r \in Requests : req[t][r].at = "idle"
    /\ realm[t].shared # None => realm[t].shared \in Calls /\ Runs(realm[t].shared, t)
    /\ \A c \in Calls : Runs(c, t) => realm[t].shared = c
    /\ \A r \in Requests :
          req[t][r].at = "wait" => realm[t].shared # None /\ req[t][r].call = realm[t].shared

AllTied == \A t \in Tabs : Tied(t)

\* A page keeps its promise, and nothing new waits for another one.
LEMMA TiedOn ==
    ASSUME NEW t \in Tabs, Tied(t), \A c \in Calls : Runs(c, t)' <=> Runs(c, t),
           realm'[t].shared = realm[t].shared,
           realm'[t].page = "opening" =>
              realm[t].page = "opening" /\ \A r \in Requests : req'[t][r].at = req[t][r].at,
           \A r \in Requests : req'[t][r].at = "wait" =>
              \/ req[t][r].at = "wait" /\ req'[t][r].call = req[t][r].call
              \/ realm[t].shared # None /\ req'[t][r].call = realm[t].shared
    PROVE  Tied(t)'
<1>1. realm'[t].shared # None => realm'[t].shared \in Calls /\ Runs(realm[t].shared, t)'
  BY DEF Tied
<1>2. realm'[t].shared # None => call'[realm'[t].shared].at # "none" /\ call'[realm'[t].shared].tab = t
  BY <1>1 DEF Runs
<1>3. \A c \in Calls : Runs(c, t)' => realm'[t].shared = c
  BY DEF Tied
<1>4. \A r \in Requests : req'[t][r].at = "wait" =>
         realm'[t].shared # None /\ req'[t][r].call = realm'[t].shared
  BY DEF Tied
<1>5. realm'[t].page = "opening" =>
         realm'[t].shared = None /\ \A r \in Requests : req'[t][r].at = "idle"
  BY DEF Tied
<1>6. QED
  BY <1>1, <1>2, <1>3, <1>4, <1>5 DEF Tied, Runs

\* The other pages, when no refresh of theirs starts, ends or is abandoned.
LEMMA TiedElsewhere ==
    ASSUME AllTied, NEW t \in Tabs, OtherTabs(t), NEW u \in Tabs, u # t,
           \A c \in Calls : Runs(c, u)' <=> Runs(c, u)
    PROVE  Tied(u)'
<1>1. Tied(u) /\ realm'[u] = realm[u] /\ req'[u] = req[u]
  BY DEF AllTied, OtherTabs
<1>2. QED
  BY <1>1, TiedOn

\* No refresh starts, ends or is abandoned.
LEMMA TiedQuiet ==
    ASSUME TypeOK, AllTied, NEW t \in Tabs, OtherTabs(t), call' = call,
           realm'[t].shared = realm[t].shared,
           realm'[t].page = "opening" =>
              realm[t].page = "opening" /\ \A r \in Requests : req'[t][r].at = req[t][r].at,
           \A r \in Requests : req'[t][r].at = "wait" =>
              \/ req[t][r].at = "wait" /\ req'[t][r].call = req[t][r].call
              \/ realm[t].shared # None /\ req'[t][r].call = realm[t].shared
    PROVE  AllTied'
<1>1. \A u \in Tabs : \A c \in Calls : Runs(c, u)' <=> Runs(c, u)
  BY DEF Runs
<1>2. Tied(t)
  BY DEF AllTied
<1>3. Tied(t)'
  BY <1>1, <1>2, TiedOn
<1>4. \A u \in Tabs : u # t => Tied(u)'
  BY <1>1, TiedElsewhere
<1>5. QED
  BY <1>3, <1>4 DEF AllTied

\* A page that waits for nothing starts a refresh.
LEMMA TiedStarts ==
    ASSUME TypeOK, AllTied, NEW t \in Tabs, NEW c \in Calls, OtherTabs(t),
           call[c].at = "none", call' = [call EXCEPT ![c] = NewCall(t)],
           realm[t].shared = None, realm'[t].shared = c, realm'[t].page # "opening",
           \A r \in Requests : req'[t][r].at = "wait" => \/ req[t][r].at = "wait"
                                                         \/ req'[t][r].call = c
    PROVE  AllTied'
<1>1. call'[c] = NewCall(t) /\ \A d \in Calls : d # c => call'[d] = call[d]
  BY DEF TypeOK
<1>2. call'[c].tab = t /\ call'[c].at # "none" /\ c # None
  BY <1>1, BrowserAssumption DEF NewCall
<1>3. Tied(t) /\ \A d \in Calls : ~Runs(d, t)
  BY BrowserAssumption DEF AllTied, Tied
<1>4. \A d \in Calls : d # c => ~Runs(d, t)'
  BY <1>1, <1>3 DEF Runs
<1>5. \A r \in Requests : req[t][r].at # "wait"
  BY <1>3 DEF Tied
<1>6. Tied(t)'
  BY <1>2, <1>4, <1>5 DEF Tied, Runs
<1>7. ASSUME NEW u \in Tabs, u # t PROVE Tied(u)'
  <2>1. \A d \in Calls : Runs(d, u)' <=> Runs(d, u)
    BY <1>1, <1>2, <1>7 DEF Runs
  <2>2. QED
    BY <1>7, <2>1, TiedElsewhere
<1>8. QED
  BY <1>6, <1>7 DEF AllTied

\* A page has its answer, or gives up waiting for it.
LEMMA TiedFree ==
    ASSUME AllTied, NEW t \in Tabs, OtherTabs(t),
           \A u \in Tabs : u # t => \A c \in Calls : Runs(c, u)' <=> Runs(c, u),
           \A c \in Calls : ~Runs(c, t)',
           realm'[t].shared = None, \A r \in Requests : req'[t][r].at # "wait",
           realm'[t].page = "opening" => \A r \in Requests : req'[t][r].at = "idle"
    PROVE  AllTied'
<1>1. Tied(t)'
  BY DEF Tied
<1>2. \A u \in Tabs : u # t => Tied(u)'
  BY TiedElsewhere
<1>3. QED
  BY <1>1, <1>2 DEF AllTied

\* A page leaves, and its refresh goes on without it.
LEMMA TiedLeaves ==
    ASSUME TypeOK, AllTied, NEW t \in Tabs, Leave(t), call' = Abandoned(t)
    PROVE  AllTied'
<1>1. realm'[t] = Opening /\ (\A r \in Requests : req'[t][r] = Still) /\ OtherTabs(t)
  BY DEF TypeOK, Leave, OtherTabs
<1>2. realm'[t].shared = None /\ \A r \in Requests : req'[t][r].at = "idle"
  BY <1>1, StillTyped DEF Opening
<1>3. ASSUME NEW c \in Calls
      PROVE  /\ call'[c].at = call[c].at
             /\ call'[c].tab = IF call[c].tab = t THEN None ELSE call[c].tab
  BY DEF Abandoned, TypeOK, Call
<1>4. \A c \in Calls : ~Runs(c, t)'
  BY <1>3, BrowserAssumption DEF Runs
<1>5. \A u \in Tabs : u # t => \A c \in Calls : Runs(c, u)' <=> Runs(c, u)
  BY <1>3, BrowserAssumption DEF Runs
<1>6. QED
  BY <1>1, <1>2, <1>4, <1>5, TiedFree

\* The answer of a refresh ends it for its page.
LEMMA TiedAnswered ==
    ASSUME TypeOK, AllTied, NEW c \in Calls, NEW t \in Tabs, Runs(c, t),
           call' = [call EXCEPT ![c] = NoCall]
    PROVE  /\ \A d \in Calls : ~Runs(d, t)'
           /\ \A u \in Tabs : u # t => \A d \in Calls : Runs(d, u)' <=> Runs(d, u)
<1>1. call'[c].at = "none" /\ \A d \in Calls : d # c => call'[d] = call[d]
  BY NoCallTyped DEF TypeOK
<1>2. \A d \in Calls : Runs(d, t) => d = c
  BY DEF AllTied, Tied
<1>3. QED
  BY <1>1, <1>2 DEF Runs

LEMMA MountTied == ASSUME TypeOK, AllTied, NEW t \in Tabs, Mount(t) PROVE AllTied'
<1>1. PICK c \in Calls :
        /\ call[c].at = "none"
        /\ call' = [call EXCEPT ![c] = NewCall(t)]
        /\ realm' = [realm EXCEPT ![t] = [Opening EXCEPT !.page = IF marker THEN "app" ELSE "login",
                                                         !.shared = c]]
        /\ req' = [req EXCEPT ![t]["restore"] = Waits(c)]
  BY DEF Mount
<1>2. realm'[t].shared = c /\ realm'[t].page # "opening"
  BY <1>1 DEF TypeOK, Opening
<1>3. realm[t].shared = None
  BY DEF Mount, AllTied, Tied
<1>4. OtherTabs(t)
  BY <1>1 DEF TypeOK, OtherTabs
<1>5. Waits(c).call = c
  BY DEF Waits, Still
<1>6. \A r \in Requests : req'[t][r] = req[t][r] \/ req'[t][r].call = c
  BY <1>1, <1>5, RequestNames DEF TypeOK
<1>7. QED
  BY <1>1, <1>2, <1>3, <1>4, <1>6, TiedStarts

LEMMA UnauthorizedTied ==
    ASSUME TypeOK, AllTied, NEW t \in Tabs, NEW r \in Requests, Unauthorized(t, r)
    PROVE  AllTied'
<1>1. AttemptRefresh(t, r) /\ req[t][r].at = "sent"
  BY DEF Unauthorized
<1>2. realm[t].page # "opening"
  BY <1>1 DEF AllTied, Tied
<1>3. \A c : Waits(c).call = c
  BY DEF Waits, Still
<1>4. CASE Shared(t) # None
  <2>1. UNCHANGED <<realm, call>> /\ req' = [req EXCEPT ![t][r] = Waits(Shared(t))]
    BY <1>1, <1>4 DEF AttemptRefresh
  <2>2. OtherTabs(t)
    BY <2>1 DEF TypeOK, OtherTabs
  <2>3. \A q \in Requests : req'[t][q] = req[t][q] \/ req'[t][q].call = realm[t].shared
    BY <1>3, <2>1 DEF TypeOK, Shared
  <2>4. QED
    BY <1>2, <1>4, <2>1, <2>2, <2>3, TiedQuiet DEF Shared
<1>5. CASE Shared(t) = None
  <2>1. PICK c \in Calls : /\ call[c].at = "none"
                           /\ call' = [call EXCEPT ![c] = NewCall(t)]
                           /\ realm' = [realm EXCEPT ![t].shared = c]
                           /\ req' = [req EXCEPT ![t][r] = Waits(c)]
    BY <1>1, <1>5 DEF AttemptRefresh
  <2>2. realm'[t].shared = c /\ realm'[t].page = realm[t].page
    BY <2>1 DEF TypeOK, Realm
  <2>3. OtherTabs(t)
    BY <2>1 DEF TypeOK, OtherTabs
  <2>4. \A q \in Requests : req'[t][q] = req[t][q] \/ req'[t][q].call = c
    BY <1>3, <2>1 DEF TypeOK
  <2>5. QED
    BY <1>2, <1>5, <2>1, <2>2, <2>3, <2>4, TiedStarts DEF Shared
<1>6. QED
  BY <1>4, <1>5

\* The steps that write one request of a page, and nothing of its promise.
LEMMA AskTied ==
    ASSUME TypeOK, AllTied, NEW t \in Tabs, NEW r \in Requests, NEW q,
           req' = [req EXCEPT ![t][r] = q], q.at # "wait", call' = call,
           realm' = realm \/ \E p : realm' = [realm EXCEPT ![t] = p],
           realm'[t].shared = realm[t].shared, realm'[t].page # "opening"
    PROVE  AllTied'
<1>1. OtherTabs(t)
  BY DEF TypeOK, OtherTabs
<1>2. \A x \in Requests : req'[t][x] = req[t][x] \/ req'[t][x].at # "wait"
  BY DEF TypeOK
<1>3. QED
  BY <1>1, <1>2, TiedQuiet

LEMMA RequestTied ==
    ASSUME TypeOK, AllTied, NEW t \in Tabs,
           \/ \E w \in Widgets : Poll(t, w) \/ PollServed(t, w)
           \/ Logout(t) \/ MeServed(t) \/ LogoutServed(t) \/ LogoutAnswered(t)
           \/ Submit(t) \/ LoginServed(t) \/ LoginAnswered(t)
    PROVE  AllTied'
<1>1. Still.at # "wait" /\ Sent(t).at # "wait"
  BY DEF Still, Sent
<1>2. ASSUME NEW r \in Requests, req[t][r].at # "idle" PROVE realm[t].page # "opening"
  BY <1>2 DEF AllTied, Tied
<1>3. ASSUME NEW w \in Widgets, Poll(t, w) \/ PollServed(t, w) PROVE AllTied'
  <2>1. w \in Requests
    BY DEF Requests
  <2>2. req' = [req EXCEPT ![t][w] = Sent(t)] \/ req' = [req EXCEPT ![t][w] = Still]
    BY <1>3 DEF Poll, PollServed
  <2>3. realm' = realm /\ call' = call /\ realm[t].page # "opening"
    BY <1>2, <1>3, <2>1 DEF Poll, PollServed, Admitted
  <2>4. QED
    BY <1>1, <2>1, <2>2, <2>3, AskTied
<1>4. CASE Logout(t)
  <2>1. realm' = realm /\ call' = call /\ realm[t].page # "opening" /\ req' = [req EXCEPT ![t]["logout"] = Sent(t)]
    BY <1>4 DEF Logout
  <2>2. QED
    BY <1>1, <2>1, RequestNames, AskTied
<1>5. CASE MeServed(t)
  <2>1. /\ req' = [req EXCEPT ![t]["me"] = Still] /\ call' = call
        /\ realm' = [realm EXCEPT ![t] = [realm[t] EXCEPT !.user = TRUE, !.loading = FALSE]]
    BY <1>5 DEF MeServed, TypeOK
  <2>2. realm'[t].shared = realm[t].shared /\ realm'[t].page = realm[t].page
    BY <2>1 DEF TypeOK, Realm
  <2>3. realm[t].page # "opening"
    BY <1>2, <1>5, RequestNames DEF MeServed, Admitted
  <2>4. QED
    BY <1>1, <2>1, <2>2, <2>3, RequestNames, AskTied
<1>6. CASE LogoutServed(t)
  <2>1. realm' = realm /\ call' = call
    BY <1>6 DEF LogoutServed
  <2>2. realm[t].page # "opening"
    BY <1>2, <1>6, RequestNames DEF LogoutServed, Admitted
  <2> DEFINE q == [req[t]["logout"] EXCEPT !.at = "served"]
  <2>3. req' = [req EXCEPT ![t]["logout"] = q] /\ q.at = "served"
    BY <1>6, RequestNames DEF TypeOK, LogoutServed, Request
  <2> HIDE DEF q
  <2>4. QED
    BY <2>1, <2>2, <2>3, RequestNames, AskTied
<1>7. CASE LogoutAnswered(t)
  <2>1. /\ req' = [req EXCEPT ![t]["logout"] = Still] /\ call' = call
        /\ realm' = [realm EXCEPT ![t] = Gated(SignedOut(realm[t]), marker')]
    BY <1>7 DEF LogoutAnswered
  <2>2. realm[t].page # "opening"
    BY <1>2, <1>7, RequestNames DEF LogoutAnswered
  <2>3. realm'[t].shared = realm[t].shared /\ realm'[t].page # "opening"
    BY <2>1, <2>2 DEF TypeOK, Realm, Gated, SignedOut
  <2>4. QED
    BY <1>1, <2>1, <2>3, RequestNames, AskTied
<1>8. CASE Submit(t)
  <2> DEFINE q == [Still EXCEPT !.at = "sent"]
  <2>1. realm' = realm /\ call' = call /\ realm[t].page # "opening" /\ req' = [req EXCEPT ![t]["login"] = q]
    BY <1>8 DEF Submit
  <2>2. q.at # "wait"
    BY DEF Still
  <2> HIDE DEF q
  <2>3. QED
    BY <2>1, <2>2, RequestNames, AskTied
<1>9. CASE LoginServed(t)
  <2> DEFINE q == [Still EXCEPT !.at = "served", !.token = NewToken]
  <2>1. realm' = realm /\ call' = call /\ req' = [req EXCEPT ![t]["login"] = q]
    BY <1>9 DEF LoginServed
  <2>2. q.at # "wait"
    BY DEF Still
  <2>3. realm[t].page # "opening"
    BY <1>2, <1>9, RequestNames DEF LoginServed
  <2> HIDE DEF q
  <2>4. QED
    BY <2>1, <2>2, <2>3, RequestNames, AskTied
<1>10. CASE LoginAnswered(t)
  <2>1. /\ req' = [req EXCEPT ![t]["login"] = Still] /\ call' = call
        /\ realm' = [realm EXCEPT ![t] = [realm[t] EXCEPT !.access = "valid", !.user = TRUE, !.page = "app"]]
    BY <1>10 DEF LoginAnswered, TypeOK
  <2>2. realm'[t].shared = realm[t].shared /\ realm'[t].page # "opening"
    BY <2>1 DEF TypeOK, Realm
  <2>3. QED
    BY <1>1, <2>1, <2>2, RequestNames, AskTied
<1>11. QED
  BY <1>3, <1>4, <1>5, <1>6, <1>7, <1>8, <1>9, <1>10

LEMMA AccessExpiresTied ==
    ASSUME TypeOK, AllTied, NEW t \in Tabs, AccessExpires(t)
    PROVE  AllTied'
<1>1. realm'[t].shared = realm[t].shared /\ realm'[t].page = realm[t].page
  BY DEF TypeOK, AccessExpires, Realm
<1>2. ASSUME NEW r \in Requests
      PROVE  req'[t][r].at = req[t][r].at /\ req'[t][r].call = req[t][r].call
  <2>1. req[t][r] \in Request
    BY DEF TypeOK
  <2>2. req'[t][r] = [req[t][r] EXCEPT !.valid = FALSE]
    BY DEF TypeOK, AccessExpires
  <2>3. QED
    BY <2>1, <2>2 DEF Request
<1>3. OtherTabs(t) /\ call' = call
  BY DEF TypeOK, AccessExpires, OtherTabs
<1>4. QED
  BY <1>1, <1>2, <1>3, TiedQuiet

LEMMA RefusedTied ==
    ASSUME TypeOK, AllTied, NEW t \in Tabs, NEW r \in Requests, Refused(t, r)
    PROVE  AllTied'
<1>1. realm[t].page # "opening" /\ realm[t].shared \in Calls \union {None}
  BY DEF AllTied, Tied, Refused, TypeOK, Realm
<1>2. {r} \in SUBSET Requests /\ Fails(t, {r}, realm[t].shared)
  BY DEF Refused
<1>3. /\ OtherTabs(t)
      /\ realm'[t].page = "opening" => Leave(t)
      /\ realm'[t].page # "opening" =>
            /\ realm'[t].shared = realm[t].shared
            /\ \A x \in Requests : req'[t][x] = IF x \in {r} THEN Still ELSE req[t][x]
  BY <1>1, <1>2, FailsPage
<1>4. CASE realm'[t].page = "opening"
  BY <1>3, <1>4, TiedLeaves DEF Refused
<1>5. CASE realm'[t].page # "opening"
  <2>1. call' = call
    BY <1>5 DEF Refused
  <2>2. \A x \in Requests : req'[t][x] = req[t][x] \/ req'[t][x].at # "wait"
    BY <1>3, <1>5, StillTyped
  <2>3. QED
    BY <1>3, <1>5, <2>1, <2>2, TiedQuiet
<1>6. QED
  BY <1>4, <1>5

LEMMA DeniedTied == ASSUME TypeOK, AllTied, NEW c \in Calls, Denied(c) PROVE AllTied'
<1>0. PICK t \in Tabs : t = call[c].tab
  BY CallsTabs DEF Denied
<1>1. t \in Tabs /\ Runs(c, t) /\ call' = [call EXCEPT ![c] = NoCall]
  BY <1>0 DEF Denied, Runs
<1>2. realm[t].shared = c /\ realm[t].page # "opening"
  BY <1>1, BrowserAssumption DEF AllTied, Tied
<1>3. Waiting(c) \in SUBSET Requests /\ Fails(t, Waiting(c), None)
  BY <1>0 DEF Waiting, Denied
<1>4. \A r \in Requests : req[t][r].at = "wait" => r \in Waiting(c)
  BY <1>0, <1>2 DEF Waiting, AllTied, Tied
<1>5. /\ OtherTabs(t) /\ realm'[t].shared = None
      /\ realm'[t].page = "opening" => \A r \in Requests : req'[t][r].at = "idle"
      /\ realm'[t].page # "opening" =>
            \A r \in Requests : req'[t][r] = IF r \in Waiting(c) THEN Still ELSE req[t][r]
  BY <1>1, <1>2, <1>3, FailsPage
<1>6. \A r \in Requests : req'[t][r].at # "wait"
  BY <1>4, <1>5, StillTyped
<1>7. /\ \A d \in Calls : ~Runs(d, t)'
      /\ \A u \in Tabs : u # t => \A d \in Calls : Runs(d, u)' <=> Runs(d, u)
  BY <1>1, TiedAnswered
<1>8. QED
  BY <1>1, <1>5, <1>6, <1>7, TiedFree

LEMMA GrantedTied == ASSUME TypeOK, AllTied, NEW c \in Calls, Granted(c) PROVE AllTied'
<1>0. PICK t \in Tabs : t = call[c].tab
  BY CallsTabs DEF Granted
<1> DEFINE resumed == [Still EXCEPT !.at = "again", !.valid = TRUE, !.token = call[c].new]
<1>1. t \in Tabs /\ Runs(c, t) /\ call' = [call EXCEPT ![c] = NoCall]
  BY <1>0 DEF Granted, Runs
<1>2. realm[t].shared = c /\ realm[t].page # "opening"
  BY <1>1, BrowserAssumption DEF AllTied, Tied
<1>3. \A r \in Requests : req[t][r].at = "wait" => r \in Waiting(c)
  BY <1>0, <1>2 DEF Waiting, AllTied, Tied
<1>4. realm'[t].shared = None /\ realm'[t].page # "opening"
  BY <1>0, <1>2 DEF TypeOK, Realm, Granted
<1>5. OtherTabs(t)
  BY <1>0 DEF TypeOK, Granted, OtherTabs
<1>6. resumed.at = "again" /\ [resumed EXCEPT !.at = "sent"].at = "sent"
  BY DEF Still
<1>7. ASSUME NEW r \in Requests PROVE req'[t][r].at # "wait"
  <2>1. req'[t][r] = IF r = "restore" /\ r \in Waiting(c) THEN Still
                     ELSE IF r \in Waiting(c) THEN resumed
                     ELSE IF r = "me" /\ "restore" \in Waiting(c) THEN [resumed EXCEPT !.at = "sent"]
                     ELSE req[t][r]
    BY <1>0 DEF TypeOK, Granted
  <2> HIDE DEF resumed
  <2>2. QED
    BY <1>3, <1>6, <2>1, StillTyped
<1> HIDE DEF resumed
<1>8. /\ \A d \in Calls : ~Runs(d, t)'
      /\ \A u \in Tabs : u # t => \A d \in Calls : Runs(d, u)' <=> Runs(d, u)
  BY <1>1, TiedAnswered
<1>9. QED
  BY <1>1, <1>4, <1>5, <1>7, <1>8, TiedFree

\* The steps of the server, of the network and of answers nobody reads.
LEMMA ServerTied ==
    ASSUME TypeOK, AllTied,
           \/ \E c \in Calls : \/ ReadSession(c) \/ RevokeSession(c) \/ IssueSession(c)
                               \/ AnswerAbandoned(c) \/ NetworkError(c)
           \/ \E k \in Tokens : SessionExpires(k)
    PROVE  AllTied'
<1>1. UNCHANGED <<realm, req>>
  BY DEF ReadSession, RevokeSession, IssueSession, AnswerAbandoned, NetworkError, SessionExpires
<1>2. ASSUME NEW u \in Tabs PROVE \A d \in Calls : Runs(d, u)' <=> Runs(d, u)
  <2>1. ASSUME NEW c \in Calls,
               ReadSession(c) \/ RevokeSession(c) \/ IssueSession(c) \/ NetworkError(c)
        PROVE  /\ call[c].at # "none" /\ call'[c].at # "none" /\ call'[c].tab = call[c].tab
               /\ \A d \in Calls : d # c => call'[d] = call[d]
    BY <2>1 DEF TypeOK, Call, ReadSession, RevokeSession, IssueSession, NetworkError
  <2>2. ASSUME NEW c \in Calls, AnswerAbandoned(c)
        PROVE  /\ call[c].tab = None /\ call'[c].at = "none"
               /\ \A d \in Calls : d # c => call'[d] = call[d]
    BY <2>2, NoCallTyped DEF TypeOK, AnswerAbandoned
  <2>3. ASSUME NEW k \in Tokens, SessionExpires(k) PROVE call' = call
    BY <2>3 DEF SessionExpires
  <2>4. u # None
    BY BrowserAssumption
  <2>5. QED
    BY <2>1, <2>2, <2>3, <2>4 DEF Runs
<1>3. ASSUME NEW u \in Tabs PROVE Tied(u)'
  <2>1. Tied(u) /\ realm'[u] = realm[u] /\ req'[u] = req[u]
    BY <1>1 DEF AllTied
  <2>2. QED
    BY <1>2, <2>1, TiedOn
<1>4. QED
  BY <1>3 DEF AllTied

LEMMA StepTied == ASSUME TypeOK, AllTied, [Next]_vars PROVE AllTied'
<1>1. ASSUME NEW t \in Tabs, PageStep(t) PROVE AllTied'
  BY <1>1, MountTied, UnauthorizedTied, RequestTied, RefusedTied DEF PageStep
<1>2. ASSUME NEW t \in Tabs, Reload(t) PROVE AllTied'
  BY <1>2, TiedLeaves DEF Reload
<1>3. ASSUME NEW t \in Tabs, Logout(t) \/ Submit(t) \/ AccessExpires(t) PROVE AllTied'
  BY <1>3, RequestTied, AccessExpiresTied
<1>4. ASSUME NEW c \in Calls, CallStep(c) \/ NetworkError(c) PROVE AllTied'
  BY <1>4, ServerTied, GrantedTied, DeniedTied DEF CallStep
<1>5. ASSUME NEW k \in Tokens, SessionExpires(k) PROVE AllTied'
  BY <1>5, ServerTied
<1>6. CASE UNCHANGED vars
  BY <1>6 DEF vars, AllTied, Tied, Runs
<1>7. QED
  BY <1>1, <1>2, <1>3, <1>4, <1>5, <1>6 DEF Next

LEMMA InitTied == Init => AllTied
<1> SUFFICES ASSUME Init, NEW t \in Tabs PROVE Tied(t)
  BY DEF AllTied
<1>1. \A c \in Calls : ~Runs(c, t)
  BY NoCallTyped DEF Init, Runs
<1>2. \A r \in Requests : req[t][r].at = "idle"
  BY StillTyped DEF Init
<1>3. realm[t].shared = None
  BY DEF Init, Opening
<1>4. QED
  BY <1>1, <1>2, <1>3 DEF Tied

LEMMA Ties == Spec => []AllTied
<1>1. TypeOK /\ AllTied /\ [Next]_vars => AllTied'
  BY StepTied
<1>2. QED
  BY <1>1, InitTied, TypeCorrect, PTL DEF Spec

\* A page refreshes once at a time, however many of its requests are refused and
\* whatever is lost or abandoned: refreshPromise of api-client.ts.
THEOREM OneRefreshPerPage ==
  Spec => [](\A c, d \in Calls :
                call[c].at # "none" /\ call[d].at # "none"
                /\ call[c].tab = call[d].tab /\ call[c].tab # None => c = d)
<1>1. TypeOK /\ AllTied => \A c, d \in Calls :
         call[c].at # "none" /\ call[d].at # "none"
         /\ call[c].tab = call[d].tab /\ call[c].tab # None => c = d
  <2> SUFFICES ASSUME TypeOK, AllTied, NEW c \in Calls, NEW d \in Calls,
                      call[c].at # "none", call[d].at # "none",
                      call[c].tab = call[d].tab, call[c].tab # None
               PROVE  c = d
    OBVIOUS
  <2>1. PICK t \in Tabs : t = call[c].tab
    BY CallsTabs
  <2>2. Runs(c, t) /\ Runs(d, t)
    BY <2>1 DEF Runs
  <2>3. QED
    BY <2>2 DEF AllTied, Tied
<1>2. QED
  BY <1>1, TypeCorrect, Ties, PTL

\* No request waits in vain: the refresh it waits for is under way, its answer
\* goes to this page, and later refusals join the same one.  So a page is never
\* left loading or polling for an answer that cannot come.
THEOREM WaitsForOwnRefresh ==
  Spec => [](\A t \in Tabs, r \in Requests :
                req[t][r].at = "wait" =>
                   \E c \in Calls : /\ req[t][r].call = c /\ realm[t].shared = c
                                    /\ call[c].at # "none" /\ call[c].tab = t)
<1>1. AllTied => \A t \in Tabs, r \in Requests :
         req[t][r].at = "wait" =>
            \E c \in Calls : /\ req[t][r].call = c /\ realm[t].shared = c
                             /\ call[c].at # "none" /\ call[c].tab = t
  BY DEF AllTied, Tied, Runs
<1>2. QED
  BY <1>1, Ties, PTL

-----------------------------------------------------------------------------
(* What becomes of the refresh tokens.                                     *)

\* While pages that share the cookie do not refresh the same session at the same
\* moment, a refresh is refused only if its session is over: AuthService.refresh.
THEOREM ApartKept == Spec /\ []Apart => []KeptWhileLive
<1>1. SafeInv => KeptWhileLive
  BY DEF SafeInv, Safe, Presented, PresentedBy, KeptWhileLive
<1>2. QED
  BY <1>1, Sessions, PTL

\* Then the cookie is never left at a session that a refresh has replaced.
THEOREM ApartFollows == Spec /\ []Apart => []CookieFollows
<1>1. SafeInv => CookieFollows
  BY DEF SafeInv, Safe, Followed, CookieFollows
<1>2. QED
  BY <1>1, Sessions, PTL

\* Then refreshing replaces the sessions of a browser, and never multiplies them.
THEOREM ApartSessions == Spec /\ []Apart => []OneSessionPerLogin
<1>1. PageInv /\ SafeInv => OneSessionPerLogin
  BY LiveBound DEF PageInv, SafeInv, OneSessionPerLogin
<1>2. QED
  BY <1>1, Pages, Sessions, PTL

\* A browser with one page always keeps its refreshes apart: the run's instance,
\* whatever its bounds.
THEOREM OnePageApart ==
  ASSUME \A t, u \in Tabs : t = u
  PROVE  Spec => []Apart /\ [](KeptWhileLive /\ CookieFollows /\ OneSessionPerLogin)
<1>1. PageInv => Apart
  <2> SUFFICES ASSUME PageInv, ~lost, NEW c \in Calls, NEW d \in Calls,
                      call[c].at # "none", call[d].at # "none"
               PROVE  c = d
    BY DEF Apart
  <2>1. call[c].tab \in Tabs /\ call[d].tab \in Tabs
    BY CallsTabs DEF PageInv, Page, Alone
  <2>2. call[c].tab = call[d].tab
    BY <2>1
  <2>3. QED
    BY <2>2 DEF PageInv, Page, Alone
<1>2. QED
  BY <1>1, Pages, ApartKept, ApartFollows, ApartSessions, PTL

=============================================================================
