-------------------------------- MODULE Session --------------------------------
(***************************************************************************)
(* The login sessions of one user: the sessions table, the cookie jar that *)
(* the tabs of a browser share, and in each tab the axios interceptor with *)
(* its single refresh request, the refresh of a page that loads, the       *)
(* authentication state and the socket's handshake.  A request carries the *)
(* cookies of the moment it is sent; the cookies of an answer are stored   *)
(* when it arrives.                                                        *)
(***************************************************************************)
EXTENDS Naturals, FiniteSets

CONSTANTS
    Tabs,
    MaxLogins, \* bound: sessions ever created
    MaxCalls   \* bound: guarded requests under way at a time, in all tabs

ASSUME SessionAssumption == MaxLogins \in Nat /\ MaxCalls \in Nat

\* Requests of a tab that secureRoute guards: those of the user interface, and
\* GET /api/user/me on behalf of the socket.
Calls == {"ui", "me"}

\* The two refreshes of a tab: the one behind refreshPromise, for which its calls
\* wait, and the one that restoreSession posts itself.
Refreshes == {"calls", "restore"}

Sessions == 1..MaxLogins
None == 0

VARIABLES
    sessions, \* rows of the sessions table that have not expired
    created,  \* how many there have been
    ended,    \* history: sessions that were revoked or have run out
    logout,   \* history: whether a logout was confirmed since the last login,
              \* and whether a call was granted after that
    access,   \* the accessToken cookie: its session and whether it is valid
    refresh,  \* the refreshToken cookie
    emptied,  \* history: the session whose end has emptied the cookie jar
    auth,     \* auth[t]: authStatus of tab t
    reason,   \* reason[t]: history, the refusal that ended the last login of
              \* tab t, if one did, and the session that was refused
    call,     \* call[t][k]: a guarded request and what has become of it
    renewal,  \* renewal[t][r]: a refresh of the tab
    form,     \* the login or logout request of a tab
    link      \* link[t]: the socket of tab t

table   == <<sessions, created, ended>>
cookies == <<access, refresh, emptied>>
status  == <<auth, reason, logout>>
vars    == <<table, cookies, status, call, renewal, form, link>>

NoAccess == [session |-> None, valid |-> FALSE]
Idle     == [state |-> "idle"]

Accesses == {NoAccess} \cup [session : Sessions, valid : BOOLEAN]

\* A request with the token as it is now: the session of a valid one.
Sent(token, retried) ==
    [state |-> "sent", retried |-> retried,
     session |-> IF token.valid THEN token.session ELSE None]

\* A refresh with the token as it is now.
Refresh(token) == [state |-> "sent", session |-> token]

\* Another guarded request may be sent.
MoreCalls ==
    Cardinality({tk \in Tabs \X Calls : call[tk[1]][tk[2]] # Idle}) < MaxCalls

\* The calls that refresh r of the tab holds up.
Waiting(t, r) == {k \in Calls : r = "calls" /\ call[t][k].state = "waiting"}

\* Mutant: the session is not looked up.
GrantedByToken(c) == c.session # None

\* secureRoute: the token is valid and its session still exists.
Granted(c) == c.session \in sessions

\* What ends a login other than a refusal.
NoRefusal == [refusal |-> "none", session |-> None]

\* The refusal of a request that carried a token of session s.  One without a
\* token is refused because of what emptied the cookie jar, unless the jar has
\* been filled since the request was sent: then its refusal is outdated.
Refusal(s) ==
    IF s # None THEN [refusal |-> "current", session |-> s]
    ELSE IF refresh = None THEN [refusal |-> "current", session |-> emptied]
    ELSE [refusal |-> "outdated", session |-> None]

\* setAuthUser(user): a new socket connects.
Enter(t) ==
    /\ auth' = [auth EXCEPT ![t] = "in"]
    /\ reason' = [reason EXCEPT ![t] = NoRefusal]
    /\ link' = [link EXCEPT ![t] = "open"]

\* setAuthUser(null): the socket is closed.
Leave(t, why) ==
    /\ auth' = [auth EXCEPT ![t] = "out"]
    /\ reason' = [reason EXCEPT ![t] = IF auth[t] = "in" THEN why ELSE @]
    /\ link' = [link EXCEPT ![t] = "closed"]

\* The cookies of session s are cleared.
ClearCookies(s) ==
    /\ access' = NoAccess /\ refresh' = None
    /\ emptied' = IF s = None THEN emptied ELSE s

-----------------------------------------------------------------------------
(* Guarded requests and the interceptor. *)

Request(t) ==
    /\ auth[t] = "in" /\ call[t]["ui"] = Idle /\ MoreCalls
    /\ call' = [call EXCEPT ![t]["ui"] = Sent(access, FALSE)]
    /\ UNCHANGED <<table, cookies, status, renewal, form, link>>

\* restoreSession: the page is loaded again and asks who is logged in.
Open(t) ==
    /\ auth[t] = "out" /\ ~ (form # Idle /\ form.tab = t)
    /\ \A k \in Calls : call[t][k] = Idle
    /\ \A r \in Refreshes : renewal[t][r] = Idle
    /\ MoreCalls
    /\ auth' = [auth EXCEPT ![t] = "loading"]
    /\ reason' = [reason EXCEPT ![t] = NoRefusal]
    /\ call' = [call EXCEPT ![t]["ui"] = Sent(access, FALSE)]
    /\ UNCHANGED <<table, cookies, logout, renewal, form, link>>

\* Granted.  The answer logs in a page that is loading and makes the socket
\* connect; other calls only report it.
Succeed(t, k) ==
    LET c == call[t][k] IN
    /\ c.state = "sent" /\ Granted(c)
    /\ call' = [call EXCEPT ![t][k] = Idle]
    /\ logout' = IF logout = "confirmed" THEN "undone" ELSE logout
    /\ \/ auth[t] = "loading" /\ Enter(t)
       \/ /\ auth[t] # "loading"
          /\ link' = [link EXCEPT ![t] =
                        IF k = "me" /\ @ = "authenticating" THEN "open" ELSE @]
          /\ UNCHANGED <<auth, reason>>
    /\ UNCHANGED <<table, cookies, renewal, form>>

\* A call of a tab that is not loading has failed, which the socket takes for
\* the end of the session.
GivesUp(t, k, why) ==
    IF k = "me" /\ link[t] = "authenticating"
    THEN Leave(t, why)
    ELSE UNCHANGED <<auth, reason, link>>

\* 401.  refreshSession: the call waits for the refresh under way or sends one.
Denied(t, k) ==
    LET c == call[t][k] IN
    /\ c.state = "sent" /\ ~ Granted(c) /\ ~ c.retried
    /\ call' = [call EXCEPT ![t][k] = [state |-> "waiting"]]
    /\ renewal' = [renewal EXCEPT ![t]["calls"] =
                     IF @ = Idle THEN Refresh(refresh) ELSE @]
    /\ UNCHANGED <<table, cookies, status, form, link>>

\* 401 for a call that was sent again.  restoreSession tries a refresh itself.
DeniedAgain(t, k) ==
    LET c == call[t][k] IN
    /\ c.state = "sent" /\ ~ Granted(c) /\ c.retried
    /\ call' = [call EXCEPT ![t][k] = Idle]
    /\ \/ /\ auth[t] = "loading"
          /\ renewal' = [renewal EXCEPT ![t]["restore"] = Refresh(refresh)]
          /\ UNCHANGED <<auth, reason, link>>
       \/ /\ auth[t] # "loading" /\ GivesUp(t, k, Refusal(c.session))
          /\ UNCHANGED renewal
    /\ UNCHANGED <<table, cookies, logout, form>>

\* No answer.
CallFails(t, k) ==
    /\ call[t][k].state = "sent"
    /\ call' = [call EXCEPT ![t][k] = Idle]
    /\ \/ auth[t] = "loading" /\ Leave(t, NoRefusal)
       \/ auth[t] # "loading" /\ GivesUp(t, k, NoRefusal)
    /\ UNCHANGED <<table, cookies, logout, renewal, form>>

\* Mutant: every refresh replaces the token, so that one sent with the old token
\* before the new one is stored is rejected.
ServeRefreshRotating(t, r) ==
    /\ renewal[t][r].state = "sent"
    /\ renewal' = [renewal EXCEPT ![t][r].state =
         IF renewal[t][r].session \in sessions
              /\ \A u \in Tabs, q \in Refreshes : renewal[u][q].state # "renewed"
         THEN "renewed" ELSE "rejected"]
    /\ UNCHANGED <<table, cookies, status, call, form, link>>

\* POST /api/user/refresh: the token stays the same.
ServeRefresh(t, r) ==
    /\ renewal[t][r].state = "sent"
    /\ renewal' = [renewal EXCEPT ![t][r].state =
         IF renewal[t][r].session \in sessions THEN "renewed" ELSE "rejected"]
    /\ UNCHANGED <<table, cookies, status, call, form, link>>

\* The access cookie that a refresh has issued.
Renewal(t, r) == [session |-> renewal[t][r].session, valid |-> TRUE]

\* Mutant: only one of the waiting calls is resumed.
RenewedFirst(t, r) ==
    /\ renewal[t][r].state = "renewed"
    /\ access' = Renewal(t, r)
    /\ \E k \in Waiting(t, r) :
         call' = [call EXCEPT ![t][k] = Sent(access', TRUE)]
    /\ renewal' = [renewal EXCEPT ![t][r] = Idle]
    /\ UNCHANGED <<table, refresh, emptied, status, form, link>>

\* The new access cookie is stored.  The waiting calls are all sent again;
\* restoreSession logs the page in.
Renewed(t, r) ==
    /\ renewal[t][r].state = "renewed"
    /\ access' = Renewal(t, r)
    /\ call' = [call EXCEPT ![t] = [k \in Calls |->
         IF k \in Waiting(t, r) THEN Sent(access', TRUE) ELSE call[t][k]]]
    /\ IF r = "restore" THEN Enter(t) ELSE UNCHANGED <<auth, reason, link>>
    /\ renewal' = [renewal EXCEPT ![t][r] = Idle]
    /\ UNCHANGED <<table, refresh, emptied, logout, form>>

\* auth:expired, or the end of restoreSession: the calls that waited are rejected
\* and the tab is logged out.
RefreshEnds(t, r, why) ==
    /\ call' = [call EXCEPT ![t] = [k \in Calls |->
         IF k \in Waiting(t, r) THEN Idle ELSE call[t][k]]]
    /\ Leave(t, why)
    /\ UNCHANGED <<table, logout, form>>

\* Mutant: the 401 of the refresh waits for the refresh, which is itself.
RejectedWaits(t, r) == renewal[t][r].state = "rejected" /\ UNCHANGED vars

\* The 401 of a refresh clears the cookies if there was a token.  restoreSession
\* tries one itself when its call has been rejected.
Rejected(t, r) ==
    LET s == renewal[t][r].session IN
    /\ renewal[t][r].state = "rejected"
    /\ RefreshEnds(t, r, Refusal(s))
    /\ IF s = None THEN UNCHANGED cookies ELSE ClearCookies(s)
    /\ renewal' = [renewal EXCEPT ![t] = [q \in Refreshes |->
         IF q = r THEN Idle
         ELSE IF q = "restore" /\ auth[t] = "loading" THEN Refresh(refresh')
         ELSE renewal[t][q]]]

\* The refresh is not answered, or with a server error, which may come after the
\* new access cookie was issued.
RefreshFails(t, r) ==
    /\ renewal[t][r] # Idle
    /\ \/ UNCHANGED access
       \/ renewal[t][r].state = "renewed" /\ access' = Renewal(t, r)
    /\ RefreshEnds(t, r, NoRefusal)
    /\ renewal' = [renewal EXCEPT ![t][r] = Idle]
    /\ UNCHANGED <<refresh, emptied>>

-----------------------------------------------------------------------------
(* Login and logout: one request at a time, as one person makes them. *)

Login(t) ==
    /\ auth[t] = "out" /\ form = Idle
    /\ form' = [state |-> "login", tab |-> t, session |-> None]
    /\ UNCHANGED <<table, cookies, status, call, renewal, link>>

\* createSession.
ServeLogin ==
    /\ form.state = "login"
    /\ created < MaxLogins
    /\ created' = created + 1
    /\ sessions' = sessions \cup {created'}
    /\ form' = [form EXCEPT !.state = "loggedin", !.session = created']
    /\ UNCHANGED <<ended, cookies, status, call, renewal, link>>

\* Both cookies are stored, and the socket connects with them.
LoggedIn ==
    /\ form.state = "loggedin"
    /\ access' = [session |-> form.session, valid |-> TRUE]
    /\ refresh' = form.session /\ emptied' = None
    /\ form' = Idle
    /\ Enter(form.tab)
    /\ logout' = IF logout = "confirmed" THEN "none" ELSE logout
    /\ UNCHANGED <<table, call, renewal>>

Logout(t) ==
    /\ auth[t] = "in" /\ form = Idle
    /\ form' = [state |-> "logout", tab |-> t, session |-> refresh]
    /\ UNCHANGED <<table, cookies, status, call, renewal, link>>

End(S) ==
    /\ sessions' = sessions \ S
    /\ ended' = ended \cup S
    /\ UNCHANGED created

\* revokeRefreshSession.
ServeLogout ==
    /\ form.state = "logout"
    /\ End(sessions \cap {form.session})
    /\ form' = [form EXCEPT !.state = "loggedout"]
    /\ UNCHANGED <<cookies, status, call, renewal, link>>

LoggedOut ==
    /\ form.state = "loggedout"
    /\ ClearCookies(form.session)
    /\ form' = Idle
    /\ Leave(form.tab, NoRefusal)
    /\ logout' = IF logout = "none" THEN "confirmed" ELSE logout
    /\ UNCHANGED <<table, call, renewal>>

\* No answer, or one that refuses: the form shows an error.
FormFails ==
    /\ form # Idle
    /\ form' = Idle
    /\ UNCHANGED <<table, cookies, status, call, renewal, link>>

\* logoutAll on another device, or 30 days have passed.
EndElsewhere ==
    /\ sessions # {}
    /\ End(sessions)
    /\ UNCHANGED <<cookies, status, call, renewal, form, link>>

\* 15 minutes pass: first the token expires, ...
TokenExpires ==
    /\ access.valid
    /\ access' = [access EXCEPT !.valid = FALSE]
    /\ UNCHANGED <<table, refresh, emptied, status, call, renewal, form, link>>

\* ... then, up to a second later, the browser drops the cookie.
CookieExpires ==
    /\ access # NoAccess /\ ~ access.valid
    /\ access' = NoAccess
    /\ UNCHANGED <<table, refresh, emptied, status, call, renewal, form, link>>

-----------------------------------------------------------------------------
(* The socket of a tab, which is "open" as long as it is connected or tries to *)
(* connect.                                                                    *)

\* io.use: the possible answers to a handshake.  Any error but that of an expired
\* token is AUTH_INVALID, that of a query for the session or the user included.
Handshake ==
    IF access = NoAccess THEN {"AUTH_REQUIRED"}
    ELSE IF ~ access.valid THEN {"AUTH_EXPIRED"}
    ELSE IF access.session \in sessions THEN {"connected", "AUTH_INVALID"}
    ELSE {"AUTH_INVALID"}

\* The connection has been lost; handleConnectError renews a token that has
\* expired by way of GET /api/user/me.
Reauthenticate(t) ==
    /\ link[t] = "open" /\ "AUTH_EXPIRED" \in Handshake
    /\ call[t]["me"] = Idle /\ MoreCalls
    /\ call' = [call EXCEPT ![t]["me"] = Sent(access, FALSE)]
    /\ link' = [link EXCEPT ![t] = "authenticating"]
    /\ UNCHANGED <<table, cookies, status, renewal, form>>

\* Any other refusal is taken for the end of the session.
HandshakeRefused(t) ==
    /\ link[t] = "open"
    /\ \/ "AUTH_REQUIRED" \in Handshake /\ Leave(t, NoRefusal)
       \/ /\ "AUTH_INVALID" \in Handshake
          /\ Leave(t, IF access.session \in sessions THEN NoRefusal
                      ELSE Refusal(access.session))
    /\ UNCHANGED <<table, cookies, logout, call, renewal, form>>

-----------------------------------------------------------------------------
Init ==
    /\ sessions = {} /\ created = 0 /\ ended = {} /\ logout = "none"
    /\ access = NoAccess /\ refresh = None /\ emptied = None
    /\ auth = [t \in Tabs |-> "out"] /\ reason = [t \in Tabs |-> NoRefusal]
    /\ call = [t \in Tabs |-> [k \in Calls |-> Idle]]
    /\ renewal = [t \in Tabs |-> [r \in Refreshes |-> Idle]]
    /\ form = Idle
    /\ link = [t \in Tabs |-> "closed"]

\* What happens to a call that has been sent.
CallStep(t, k) ==
    Succeed(t, k) \/ Denied(t, k) \/ DeniedAgain(t, k)

RefreshStep(t, r) == ServeRefresh(t, r) \/ Renewed(t, r) \/ Rejected(t, r)

Next ==
    \/ \E t \in Tabs :
         \/ Open(t) \/ Request(t)
         \/ \E k \in Calls : CallStep(t, k) \/ CallFails(t, k)
         \/ \E r \in Refreshes : RefreshStep(t, r) \/ RefreshFails(t, r)
         \/ Login(t) \/ Logout(t)
         \/ Reauthenticate(t) \/ HandshakeRefused(t)
    \/ ServeLogin \/ LoggedIn \/ ServeLogout \/ LoggedOut \/ FormFails
    \/ EndElsewhere \/ TokenExpires \/ CookieExpires

Spec == Init /\ [][Next]_vars

\* The server answers what it is sent and the browser handles the answers.
\* Users have to do nothing, and nothing has to fail or to expire.
Fairness ==
    \A t \in Tabs :
        /\ \A r \in Refreshes : WF_vars(RefreshStep(t, r))
        /\ \A k \in Calls : WF_vars(CallStep(t, k))

FairSpec == Spec /\ Fairness

-----------------------------------------------------------------------------
(* Properties. *)

TypeOK ==
    /\ sessions \subseteq Sessions /\ created \in 0..MaxLogins
    /\ ended \subseteq Sessions /\ logout \in {"none", "confirmed", "undone"}
    /\ access \in Accesses
    /\ refresh \in Sessions \cup {None} /\ emptied \in Sessions \cup {None}
    /\ auth \in [Tabs -> {"loading", "in", "out"}]
    /\ reason \in [Tabs ->
         [refusal : {"none", "current", "outdated"},
          session : Sessions \cup {None}]]
    /\ call \in [Tabs -> [Calls ->
         {Idle} \cup [state : {"waiting"}]
         \cup [state : {"sent"}, retried : BOOLEAN,
               session : Sessions \cup {None}]]]
    /\ renewal \in [Tabs -> [Refreshes ->
         {Idle} \cup [state : {"sent", "renewed", "rejected"},
                      session : Sessions \cup {None}]]]
    /\ form \in {Idle} \cup [state : {"login", "loggedin", "logout", "loggedout"},
                             tab : Tabs, session : Sessions \cup {None}]
    /\ link \in [Tabs -> {"open", "authenticating", "closed"}]
    /\ \A t \in Tabs : auth[t] = "in" <=> link[t] # "closed"

\* Whoever waits for a refresh waits for one that is under way: no call is
\* forgotten when several share a refresh or one fails while others join.
NoOrphanWaiter ==
    \A t \in Tabs, r \in Refreshes : Waiting(t, r) # {} => renewal[t][r] # Idle

\* PHASE-02: the refresh token stays stable so that tabs that refresh at once do
\* not end each other's session.  When a refusal ends a login, the refused session
\* has in fact ended: that of the token which the refused request carried or, if
\* it carried none, the one whose end has emptied the cookie jar.  The login of a
\* session that is alive is ended by three other things: a handshake without an
\* access cookie; a request without an answer or a failing query, even when the
\* handshake calls it AUTH_INVALID; and an outdated refusal, of a refresh that was
\* sent without a token (by a loading page, say) before a login stored one.  After
\* a second login the refused session may be the earlier one.
OnlyEndedSessionsLogOut ==
    \A t \in Tabs : reason[t].refusal = "current" => reason[t].session \in ended

\* PHASE-02: logging out revokes the session, and PHASE-11 line 42: revocation
\* prevents protected requests.  After the confirmed logout of a user's only
\* session no call of any tab is granted until there is a new login, although
\* the answer of a refresh that was under way may put an access cookie back.  A
\* session that an earlier login left behind is not revoked by the logout, and
\* such an answer brings it back.
LogoutIsFinal == created <= 1 => logout # "undone"

\* Every call is settled in the end, granted, denied or failed, and so is every
\* refresh: no call hangs and no page loads for ever.
EventuallySettled ==
    \A t \in Tabs : /\ \A k \in Calls : []<>(call[t][k] = Idle)
                    /\ \A r \in Refreshes : []<>(renewal[t][r] = Idle)
=============================================================================
