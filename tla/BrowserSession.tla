--------------------------- MODULE BrowserSession ---------------------------
(***************************************************************************)
(* How a browser stays signed in: api-client.ts, auth.ts, AuthProvider,    *)
(* AppLayout and middleware.ts of movos-web against login, refresh and     *)
(* logout of AuthService.                                                  *)
(*                                                                         *)
(* The access token is in the memory of a page, the refresh token in a     *)
(* cookie that every refresh replaces, and the marker movos_session tells  *)
(* the middleware that somebody is signed in; API and web are on different *)
(* domains, so only the page writes the marker.  A refresh is taken apart  *)
(* at the statements of the server and the delivery of its answer.         *)
(***************************************************************************)
EXTENDS Naturals, FiniteSets

CONSTANTS
    Tabs,
    Widgets,     \* parts of a page that poll
    Calls,       \* bound: POST /auth/refresh under way
    MaxTokens,   \* bound: refresh tokens that somebody may still hold
    MaxLogins,   \* bound
    MaxReloads,  \* bound
    None

ASSUME BrowserAssumption ==
    /\ MaxTokens \in Nat \ {0} /\ MaxLogins \in Nat /\ MaxReloads \in Nat
    /\ None \notin Tabs \union Calls
    /\ Widgets \intersect {"restore", "me", "login", "logout"} = {}

Tokens   == 1..MaxTokens
NoToken  == 0
Requests == {"restore", "me", "login", "logout"} \union Widgets

VARIABLES
    db,       \* RefreshSession table; rotated and ended are both revokedAt
    cookie,   \* movos_refresh
    marker,   \* movos_session
    realm,    \* tab -> module state and React state of its page
    req,      \* tab -> request -> where it is
    call,     \* POST /auth/refresh under way
    logins,   \* (bounded)
    reloads,  \* (bounded)
    lost      \* history: the answer of a refresh may have been lost

vars == <<db, cookie, marker, realm, req, call, logins, reloads, lost>>

\* access: accessToken; user: is there a currentUser? loading: isLoading;
\* shared: refreshPromise.  "opening" is a page on its way.
Realm == [page : {"opening", "login", "app"}, access : {"none", "valid", "expired"},
          user : BOOLEAN, loading : BOOLEAN, shared : Calls \union {None}]

\* valid: was it sent with an access token that is valid? token: the refresh
\* token it presents or brings; call: the refresh it waits for.
Request == [at : {"idle", "sent", "wait", "again", "served"}, valid : BOOLEAN,
            token : Tokens \union {NoToken}, call : Calls \union {None}]

\* was: was the token live when it was presented?
Call == [at : {"none", "read", "revoke", "issue", "granted", "denied"}, tab : Tabs \union {None},
         token : Tokens \union {NoToken}, new : Tokens \union {NoToken}, was : BOOLEAN]

Opening == [page |-> "opening", access |-> "none", user |-> FALSE, loading |-> TRUE, shared |-> None]
Still   == [at |-> "idle", valid |-> FALSE, token |-> NoToken, call |-> None]
NoCall  == [at |-> "none", tab |-> None, token |-> NoToken, new |-> NoToken, was |-> FALSE]

TypeOK ==
    /\ db \in [Tokens -> {"none", "live", "rotated", "ended"}]
    /\ cookie \in Tokens \union {NoToken}
    /\ marker \in BOOLEAN
    /\ realm \in [Tabs -> Realm]
    /\ req \in [Tabs -> [Requests -> Request]]
    /\ call \in [Calls -> Call]
    /\ logins \in 0..MaxLogins
    /\ reloads \in 0..MaxReloads
    /\ lost \in BOOLEAN

Init ==
    /\ db = [k \in Tokens |-> "none"]
    /\ cookie = NoToken
    /\ marker = FALSE
    /\ realm = [t \in Tabs |-> Opening]
    /\ req = [t \in Tabs |-> [r \in Requests |-> Still]]
    /\ call = [c \in Calls |-> NoCall]
    /\ logins = 0 /\ reloads = 0
    /\ lost = FALSE

-----------------------------------------------------------------------------
(* The page.                                                               *)

\* Mutant: the marker is left behind.
LeftBehind(m) == m

\* clearSessionCookie.
Cleared(m) == FALSE

\* AppLayout sends whoever is not signed in to /login; the middleware sends a
\* browser with the marker back.
Gated(p, m) ==
    IF p.page = "app" /\ ~p.loading /\ ~p.user /\ ~m THEN [p EXCEPT !.page = "login"] ELSE p

\* resetSession.
SignedOut(p) == [p EXCEPT !.user = FALSE, !.access = "none"]

\* A navigation tears the page down: its calls go on without it.
Abandoned(t) == [c \in Calls |-> IF call[c].tab = t THEN [call[c] EXCEPT !.tab = None] ELSE call[c]]

Leave(t) ==
    /\ realm' = [realm EXCEPT ![t] = Opening]
    /\ req' = [req EXCEPT ![t] = [r \in Requests |-> Still]]

\* Mutant: every request starts a refresh of its own.
Unshared(t) == None

\* attemptRefresh: the promise in flight, if there is one.
Shared(t) == realm[t].shared

\* performRefresh sends the cookie.
NewCall(t) ==
    [at |-> "read", tab |-> t, token |-> cookie, new |-> NoToken,
     was |-> IF cookie = NoToken THEN FALSE ELSE db[cookie] = "live"]

Waits(c) == [Still EXCEPT !.at = "wait", !.call = c]

AttemptRefresh(t, r) ==
    IF Shared(t) # None
    THEN /\ req' = [req EXCEPT ![t][r] = Waits(Shared(t))]
         /\ UNCHANGED <<realm, call>>
    ELSE \E c \in Calls :
         /\ call[c].at = "none"
         /\ call' = [call EXCEPT ![c] = NewCall(t)]
         /\ realm' = [realm EXCEPT ![t].shared = c]
         /\ req' = [req EXCEPT ![t][r] = Waits(c)]

\* The middleware chooses the page by the marker, whatever was asked for; the
\* page restores the session.
Mount(t) ==
    /\ realm[t].page = "opening"
    /\ \E c \in Calls :
          /\ call[c].at = "none"
          /\ call' = [call EXCEPT ![c] = NewCall(t)]
          /\ realm' = [realm EXCEPT ![t] = [Opening EXCEPT !.page = IF marker THEN "app" ELSE "login",
                                                           !.shared = c]]
          /\ req' = [req EXCEPT ![t]["restore"] = Waits(c)]
    /\ UNCHANGED <<db, cookie, marker, logins, reloads, lost>>

Reload(t) ==
    /\ realm[t].page # "opening" /\ reloads < MaxReloads
    /\ reloads' = reloads + 1
    /\ Leave(t)
    /\ call' = Abandoned(t)
    /\ lost' = (lost \/ \E c \in Calls : call[c].tab = t)
    /\ UNCHANGED <<db, cookie, marker, logins>>

-----------------------------------------------------------------------------
(* Requests: execute.                                                      *)

Sent(t) == [Still EXCEPT !.at = "sent", !.valid = (realm[t].access = "valid"), !.token = cookie]

\* A widget polls, once AppLayout shows it.
Poll(t, w) ==
    /\ realm[t].page = "app" /\ realm[t].user /\ ~realm[t].loading
    /\ req[t][w].at = "idle"
    /\ req' = [req EXCEPT ![t][w] = Sent(t)]
    /\ UNCHANGED <<db, cookie, marker, realm, call, logins, reloads, lost>>

Logout(t) ==
    /\ realm[t].page = "app" /\ realm[t].user /\ ~realm[t].loading
    /\ req[t]["logout"].at = "idle"
    /\ req' = [req EXCEPT ![t]["logout"] = Sent(t)]
    /\ UNCHANGED <<db, cookie, marker, realm, call, logins, reloads, lost>>

Unauthorized(t, r) ==
    /\ r # "login" /\ req[t][r].at = "sent" /\ ~req[t][r].valid
    /\ AttemptRefresh(t, r)
    /\ UNCHANGED <<db, cookie, marker, logins, reloads, lost>>

Admitted(t, r) == r # "login" /\ req[t][r].at \in {"sent", "again"} /\ req[t][r].valid

PollServed(t, w) ==
    /\ Admitted(t, w)
    /\ req' = [req EXCEPT ![t][w] = Still]
    /\ UNCHANGED <<db, cookie, marker, realm, call, logins, reloads, lost>>

MeServed(t) ==
    /\ Admitted(t, "me")
    /\ req' = [req EXCEPT ![t]["me"] = Still]
    /\ marker' = TRUE
    /\ realm' = [realm EXCEPT ![t].user = TRUE, ![t].loading = FALSE]
    /\ UNCHANGED <<db, cookie, call, logins, reloads, lost>>

\* AuthService.logout: the presented session, if it is not revoked yet.
LogoutServed(t) ==
    LET k == req[t]["logout"].token IN
    /\ Admitted(t, "logout")
    /\ db' = [n \in Tokens |-> IF n = k /\ db[n] = "live" THEN "ended" ELSE db[n]]
    /\ req' = [req EXCEPT ![t]["logout"].at = "served"]
    /\ UNCHANGED <<cookie, marker, realm, call, logins, reloads, lost>>

LogoutAnswered(t) ==
    /\ req[t]["logout"].at = "served"
    /\ cookie' = NoToken
    /\ marker' = Cleared(marker)
    /\ realm' = [realm EXCEPT ![t] = Gated(SignedOut(@), marker')]
    /\ req' = [req EXCEPT ![t]["logout"] = Still]
    /\ UNCHANGED <<db, call, logins, reloads, lost>>

\* The failure of the requests in W, then of the restoration if it is in W:
\* redirectToLogin on a page of the application, else what their callers do.
Fails(t, W, shared) ==
    IF realm[t].page = "app" /\ W \ {"restore"} # {}
    THEN Leave(t) /\ marker' = Cleared(marker)
    ELSE LET mine == W \intersect {"restore", "me", "logout"}
             p == [realm[t] EXCEPT !.loading = @ /\ W \intersect {"restore", "me"} = {},
                                        !.shared = shared]
             q == IF W \ {"restore"} # {} THEN [p EXCEPT !.access = "none"] ELSE p
             o == IF W \intersect {"me", "logout"} # {} THEN SignedOut(q) ELSE q IN
         /\ marker' = IF mine # {} THEN Cleared(marker) ELSE marker
         /\ realm' = [realm EXCEPT ![t] = Gated(o, marker')]
         /\ req' = [req EXCEPT ![t] = [r \in Requests |-> IF r \in W THEN Still ELSE @[r]]]

\* The retry is refused too.
Refused(t, r) ==
    /\ req[t][r].at = "again" /\ ~req[t][r].valid
    /\ Fails(t, {r}, realm[t].shared)
    /\ call' = IF realm'[t].page = "opening" THEN Abandoned(t) ELSE call
    /\ lost' = (lost \/ call' # call)
    /\ UNCHANGED <<db, cookie, logins, reloads>>

-----------------------------------------------------------------------------
(* Login.                                                                  *)

\* Refresh tokens are random: a new one is one that nobody holds.
Held == {cookie} \union {call[c].token : c \in Calls} \union {call[c].new : c \in Calls}
        \union {req[t][r].token : t \in Tabs, r \in Requests}
Unheld == {k \in Tokens : k \notin Held /\ db[k] # "live"}
NewToken == CHOOSE k \in Unheld : \A n \in Unheld : k <= n

Submit(t) ==
    /\ realm[t].page = "login" /\ req[t]["login"].at = "idle" /\ logins < MaxLogins
    /\ logins' = logins + 1
    /\ req' = [req EXCEPT ![t]["login"] = [Still EXCEPT !.at = "sent"]]
    /\ UNCHANGED <<db, cookie, marker, realm, call, reloads, lost>>

LoginServed(t) ==
    /\ req[t]["login"].at = "sent" /\ Unheld # {}
    /\ db' = [db EXCEPT ![NewToken] = "live"]
    /\ req' = [req EXCEPT ![t]["login"] = [Still EXCEPT !.at = "served", !.token = NewToken]]
    /\ UNCHANGED <<cookie, marker, realm, call, logins, reloads, lost>>

LoginAnswered(t) ==
    /\ req[t]["login"].at = "served"
    /\ cookie' = req[t]["login"].token
    /\ marker' = TRUE
    /\ realm' = [realm EXCEPT ![t].access = "valid", ![t].user = TRUE, ![t].page = "app"]
    /\ req' = [req EXCEPT ![t]["login"] = Still]
    /\ UNCHANGED <<db, call, logins, reloads, lost>>

-----------------------------------------------------------------------------
(* AuthService.refresh, and its answer.                                    *)

Live(k) == k # NoToken /\ db[k] = "live"

ReadSession(c) ==
    /\ call[c].at = "read"
    /\ call' = [call EXCEPT ![c].at = IF Live(call[c].token) THEN "revoke" ELSE "denied"]
    /\ UNCHANGED <<db, cookie, marker, realm, req, logins, reloads, lost>>

\* Mutant: the presented session stays as it is.
NotRevoked(c) == db

\* update where id: revokedAt, whatever happened since the read.
Revoked(c) == [db EXCEPT ![call[c].token] = IF @ = "live" THEN "rotated" ELSE @]

RevokeSession(c) ==
    /\ call[c].at = "revoke"
    /\ db' = Revoked(c)
    /\ call' = [call EXCEPT ![c].at = "issue"]
    /\ UNCHANGED <<cookie, marker, realm, req, logins, reloads, lost>>

IssueSession(c) ==
    /\ call[c].at = "issue" /\ Unheld # {}
    /\ db' = [db EXCEPT ![NewToken] = "live"]
    /\ call' = [call EXCEPT ![c].at = "granted", ![c].new = NewToken]
    /\ UNCHANGED <<cookie, marker, realm, req, logins, reloads, lost>>

Waiting(c) == {r \in Requests : req[call[c].tab][r].at = "wait" /\ req[call[c].tab][r].call = c}

\* Mutant: the answer does not replace the cookie.
CookieKept(c) == cookie

\* setRefreshCookies.
CookieOf(c) == call[c].new

\* The new cookie and the new access token; whoever waited goes on.
Granted(c) ==
    LET t == call[c].tab
        resumed == [Still EXCEPT !.at = "again", !.valid = TRUE, !.token = call[c].new] IN
    /\ call[c].at = "granted" /\ t # None
    /\ cookie' = CookieOf(c)
    /\ realm' = [realm EXCEPT ![t].access = "valid", ![t].shared = None]
    /\ req' = [req EXCEPT ![t] = [r \in Requests |->
                  IF r = "restore" /\ r \in Waiting(c) THEN Still
                  ELSE IF r \in Waiting(c) THEN resumed
                  ELSE IF r = "me" /\ "restore" \in Waiting(c) THEN [resumed EXCEPT !.at = "sent"]
                  ELSE @[r]]]
    /\ call' = [call EXCEPT ![c] = NoCall]
    /\ UNCHANGED <<db, marker, logins, reloads, lost>>

Denied(c) ==
    /\ call[c].at = "denied" /\ call[c].tab # None
    /\ Fails(call[c].tab, Waiting(c), None)
    /\ call' = [call EXCEPT ![c] = NoCall]
    /\ UNCHANGED <<db, cookie, logins, reloads, lost>>

\* Nobody reads the answer; its cookie may have arrived.
AnswerAbandoned(c) ==
    /\ call[c].at \in {"granted", "denied"} /\ call[c].tab = None
    /\ cookie' \in {cookie} \union IF call[c].at = "granted" THEN {CookieOf(c)} ELSE {}
    /\ call' = [call EXCEPT ![c] = NoCall]
    /\ UNCHANGED <<db, marker, realm, req, logins, reloads, lost>>

-----------------------------------------------------------------------------
(* The environment.                                                        *)

\* The call fails before it reaches the server, or its answer is lost: once.
NetworkError(c) ==
    /\ ~lost /\ call[c].at \in {"read", "granted"}
    /\ lost' = TRUE
    /\ call' = [call EXCEPT ![c].at = "denied"]
    /\ UNCHANGED <<db, cookie, marker, realm, req, logins, reloads>>

\* JWT_ACCESS_TTL passes, for the requests under way too.
AccessExpires(t) ==
    /\ realm[t].access = "valid"
    /\ realm' = [realm EXCEPT ![t].access = "expired"]
    /\ req' = [req EXCEPT ![t] = [r \in Requests |-> [@[r] EXCEPT !.valid = FALSE]]]
    /\ UNCHANGED <<db, cookie, marker, call, logins, reloads, lost>>

\* JWT_REFRESH_TTL passes.
SessionExpires(k) ==
    /\ db[k] = "live"
    /\ db' = [db EXCEPT ![k] = "ended"]
    /\ UNCHANGED <<cookie, marker, realm, req, call, logins, reloads, lost>>

-----------------------------------------------------------------------------
PageStep(t) ==
    \/ Mount(t)
    \/ \E w \in Widgets : Poll(t, w) \/ PollServed(t, w)
    \/ \E r \in Requests : Unauthorized(t, r) \/ Refused(t, r)
    \/ MeServed(t) \/ LogoutServed(t) \/ LogoutAnswered(t)
    \/ LoginServed(t) \/ LoginAnswered(t)

CallStep(c) ==
    \/ ReadSession(c) \/ RevokeSession(c) \/ IssueSession(c)
    \/ Granted(c) \/ Denied(c) \/ AnswerAbandoned(c)

Next ==
    \/ \E t \in Tabs : PageStep(t) \/ Reload(t) \/ Logout(t) \/ Submit(t) \/ AccessExpires(t)
    \/ \E c \in Calls : CallStep(c) \/ NetworkError(c)
    \/ \E k \in Tokens : SessionExpires(k)

\* Answers come, widgets poll and access tokens expire; nobody has to sign in,
\* sign out or reload.
Fairness ==
    /\ \A t \in Tabs :
          /\ WF_vars(Mount(t)) /\ WF_vars(AccessExpires(t))
          /\ WF_vars(MeServed(t)) /\ WF_vars(LogoutServed(t)) /\ WF_vars(LogoutAnswered(t))
          /\ WF_vars(LoginServed(t)) /\ WF_vars(LoginAnswered(t))
          /\ \A r \in Requests : WF_vars(Unauthorized(t, r)) /\ WF_vars(Refused(t, r))
          /\ \A w \in Widgets : WF_vars(Poll(t, w)) /\ WF_vars(PollServed(t, w))
    /\ \A c \in Calls : WF_vars(CallStep(c))

Spec == Init /\ [][Next]_vars /\ Fairness

-----------------------------------------------------------------------------
(* Properties.                                                             *)

\* A refresh that presented a live session is refused only if that session
\* expired or was signed out meanwhile, never because another refresh of the
\* same browser was faster.
KeptWhileLive ==
    \A c \in Calls :
       call[c].at = "denied" /\ call[c].was /\ ~lost => db[call[c].token] = "ended"

\* The cookie is never left at a session that a refresh has replaced: whoever
\* replaced it is still on its way with the new one.
CookieFollows ==
    cookie # NoToken /\ ~lost /\ db[cookie] = "rotated" =>
       \E c \in Calls : call[c].token = cookie /\ call[c].at \in {"issue", "granted"}

\* Refreshing never multiplies sessions: there are at most as many live ones
\* as there were logins.
OneSessionPerLogin ==
    ~lost => Cardinality({k \in Tokens : db[k] = "live"}) <= logins

NoSession ==
    /\ \A k \in Tokens : db[k] # "live"
    /\ \A t \in Tabs : req[t]["login"].at = "idle"
    /\ \A c \in Calls : call[c].at \in {"none", "denied"}

\* A browser whose session is gone ends at /login, whatever was lost on the
\* way: the marker and the middleware do not send it around in circles.
EndsAtLogin ==
    \A t \in Tabs : NoSession ~> (realm[t].page = "login" \/ ~NoSession)

\* Not an invariant: "Revoke the current session".
LogoutEndsSession ==
    (\E t \in Tabs : req[t]["logout"].at = "served") /\ logins = 1 /\ ~lost =>
       \A k \in Tokens : db[k] # "live"

=============================================================================
