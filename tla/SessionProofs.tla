---------------------------- MODULE SessionProofs ----------------------------
(***************************************************************************)
(* Theorems about Session for any number of tabs, logins and calls: no call*)
(* waits for a refresh that is not under way, a refusal that ends a login  *)
(* is that of a session which has ended, and a confirmed logout is final.  *)
(***************************************************************************)
EXTENDS Session, TLAPS

\* What the values that travel may be: the sessions in them have been created,
\* and those that were found to be gone have ended.
CallSet ==
    {Idle} \cup {[state |-> "waiting"]}
    \cup {c \in [state : {"sent"}, retried : BOOLEAN, session : 0..created] :
            c.retried => c.session # None}

RenewalSet ==
    {Idle} \cup
    {x \in [state : {"sent", "renewed", "rejected"}, session : 0..created] :
        /\ x.state = "renewed" => x.session # None
        /\ x.state = "rejected" => x.session = None \/ x.session \in ended}

FormSet ==
    {Idle} \cup
    {f \in [state : {"login", "loggedin", "logout", "loggedout"}, tab : Tabs,
            session : 0..created] :
        /\ f.state = "loggedin" => f.session # None
        /\ f.state = "loggedout" => f.session = None \/ f.session \in ended}

AccessSet == {NoAccess} \cup [session : 1..created, valid : BOOLEAN]

ReasonSet ==
    {x \in [refusal : {"none", "current", "outdated"}, session : 0..created] :
        x.refusal = "current" => x.session \in ended}

ShapeInv ==
    /\ created \in 0..MaxLogins
    /\ sessions \cup ended = 1..created /\ sessions \cap ended = {}
    /\ access \in AccessSet /\ refresh \in 0..created
    /\ emptied = None \/ emptied \in ended
    /\ auth \in [Tabs -> {"loading", "in", "out"}]
    /\ reason \in [Tabs -> ReasonSet]
    /\ link \in [Tabs -> {"open", "authenticating", "closed"}]
    /\ \A t \in Tabs : auth[t] = "in" <=> link[t] # "closed"
    /\ call \in [Tabs -> [Calls -> CallSet]]
    /\ renewal \in [Tabs -> [Refreshes -> RenewalSet]]
    /\ form \in FormSet

\* Until a login has reached the browser there is no cookie, no request carries a
\* session and nobody is logged in.
NeverLoggedIn == refresh = None /\ emptied = None

GlobalInv ==
    /\ NeverLoggedIn => access = NoAccess
    /\ form.state \in {"logout", "loggedout"} /\ form.session = None => emptied # None
    /\ logout \in {"none", "confirmed", "undone"}
    /\ logout # "none" => ended # {}
    /\ LogoutIsFinal

TabInv(t) ==
    /\ \A k \in Calls : call[t][k].state = "waiting" => renewal[t]["calls"] # Idle
    /\ NeverLoggedIn =>
         /\ auth[t] # "in"
         /\ \A r \in Refreshes : renewal[t][r] # Idle => renewal[t][r].session = None
         /\ \A k \in Calls : call[t][k].state = "sent" => call[t][k].session = None

SessionInv == ShapeInv /\ GlobalInv /\ \A t \in Tabs : TabInv(t)

LEMMA SessionInit == Init => SessionInv
<1> SUFFICES ASSUME Init PROVE SessionInv
  OBVIOUS
<1>1. ShapeInv
  BY SessionAssumption
     DEF Init, ShapeInv, CallSet, RenewalSet, FormSet, AccessSet, ReasonSet, NoRefusal,
         None
<1>2. GlobalInv
  BY DEF Init, GlobalInv, LogoutIsFinal, Idle
<1>3. ASSUME NEW t \in Tabs PROVE TabInv(t)
  BY DEF Init, TabInv, Idle, Calls
<1> QED BY <1>1, <1>2, <1>3 DEF SessionInv

LEMMA CallCases ==
    ASSUME ShapeInv, NEW t \in Tabs, NEW k \in Calls
    PROVE  /\ call[t][k] \in CallSet
           /\ \/ call[t][k] = Idle /\ call[t][k].state = "idle"
              \/ call[t][k] # Idle /\ call[t][k].state = "waiting"
              \/ /\ call[t][k] # Idle /\ call[t][k].state = "sent"
                 /\ call[t][k].retried \in BOOLEAN
                 /\ call[t][k].session \in 0..created
                 /\ call[t][k].retried => call[t][k].session # None
<1>1. call[t][k] \in CallSet
  BY DEF ShapeInv
<1>2. CASE call[t][k] = Idle
  BY <1>1, <1>2 DEF Idle
<1>3. CASE call[t][k] = [state |-> "waiting"]
  BY <1>1, <1>3 DEF Idle
<1>4. CASE call[t][k] \in {c \in [state : {"sent"}, retried : BOOLEAN,
                                  session : 0..created] :
                             c.retried => c.session # None}
  BY <1>1, <1>4 DEF Idle
<1> QED BY <1>1, <1>2, <1>3, <1>4 DEF CallSet

LEMMA RenewalCases ==
    ASSUME ShapeInv, NEW t \in Tabs, NEW r \in Refreshes, renewal[t][r] # Idle
    PROVE  /\ renewal[t][r].state \in {"sent", "renewed", "rejected"}
           /\ renewal[t][r].session \in 0..created
           /\ renewal[t][r].state = "renewed" => renewal[t][r].session # None
           /\ renewal[t][r].state = "rejected" =>
                renewal[t][r].session = None \/ renewal[t][r].session \in ended
           /\ renewal[t][r] = [state |-> renewal[t][r].state,
                               session |-> renewal[t][r].session]
<1>1. renewal[t][r] \in RenewalSet
  BY DEF ShapeInv
<1> QED BY <1>1 DEF RenewalSet

LEMMA IdleState == Idle.state = "idle"
BY DEF Idle

LEMMA SentFits ==
    ASSUME ShapeInv
    PROVE  /\ Sent(access, FALSE) \in CallSet
           /\ Sent(access, FALSE).state = "sent"
           /\ access = NoAccess => Sent(access, FALSE).session = None
<1>1. access \in AccessSet /\ created \in Nat
  BY SessionAssumption DEF ShapeInv
<1> QED BY <1>1 DEF Sent, CallSet, AccessSet, NoAccess, None

LEMMA RefreshFits ==
    ASSUME NEW token, token \in 0..created
    PROVE  /\ Refresh(token) \in RenewalSet /\ Refresh(token) # Idle
           /\ Refresh(token).session = token
BY DEF Refresh, RenewalSet, Idle

\* A session that has been created and is not in the table has ended.
LEMMA GoneHasEnded ==
    ASSUME ShapeInv, NEW s \in 0..created, s \notin sessions, s # None
    PROVE  s \in ended
<1>1. s \in 1..created
  BY SessionAssumption DEF ShapeInv, None
<1> QED BY <1>1 DEF ShapeInv

\* What is refused to a tab that is logged in has ended: the cookie jar of a
\* request without a token was full once.
LEMMA RefusalFits ==
    ASSUME SessionInv, NEW s \in 0..created, s \notin sessions,
           NEW t \in Tabs, auth[t] = "in"
    PROVE  Refusal(s) \in ReasonSet
<1>1. ShapeInv /\ ~ NeverLoggedIn /\ 0 \in 0..created
  BY SessionAssumption DEF SessionInv, TabInv, ShapeInv
<1>2. CASE s # None
  <2>1. s \in ended
    BY <1>1, <1>2, GoneHasEnded
  <2> QED BY <1>2, <2>1 DEF Refusal, ReasonSet
<1>3. CASE s = None /\ refresh = None
  <2>1. emptied \in ended /\ emptied \in 0..created
    BY <1>1, <1>3, SessionAssumption DEF ShapeInv, NeverLoggedIn
  <2> QED BY <1>3, <2>1 DEF Refusal, ReasonSet
<1>4. CASE s = None /\ refresh # None
  BY <1>1, <1>4 DEF Refusal, ReasonSet, None
<1> QED BY <1>2, <1>3, <1>4

LEMMA NoRefusalFits == ASSUME ShapeInv PROVE NoRefusal \in ReasonSet
BY SessionAssumption DEF ShapeInv, NoRefusal, ReasonSet, None

\* What was a value of these sets stays one.
LEMMA SetsGrow ==
    ASSUME ShapeInv, created \in Nat, created' \in Nat, created <= created',
           ended \subseteq ended'
    PROVE  /\ CallSet \subseteq CallSet' /\ RenewalSet \subseteq RenewalSet'
           /\ FormSet \subseteq FormSet' /\ AccessSet \subseteq AccessSet'
           /\ ReasonSet \subseteq ReasonSet'
<1>1. 0..created \subseteq 0..created' /\ 1..created \subseteq 1..created'
  OBVIOUS
<1>2. CallSet \subseteq CallSet'
  BY <1>1 DEF CallSet, None, Idle
<1>3. RenewalSet \subseteq RenewalSet'
  BY <1>1 DEF RenewalSet, None, Idle
<1>4. FormSet \subseteq FormSet'
  BY <1>1 DEF FormSet, None, Idle
<1>5. AccessSet \subseteq AccessSet'
  BY <1>1 DEF AccessSet, None, NoAccess
<1>6. ReasonSet \subseteq ReasonSet'
  BY <1>1 DEF ReasonSet
<1> QED BY <1>2, <1>3, <1>4, <1>5, <1>6

\* A step of tab t leaves the others as they were.
LEMMA TabStep ==
    ASSUME SessionInv, NEW t \in Tabs,
           ShapeInv', GlobalInv', TabInv(t)', NeverLoggedIn' => NeverLoggedIn,
           \A u \in Tabs \ {t} :
             call'[u] = call[u] /\ renewal'[u] = renewal[u] /\ auth'[u] = auth[u]
    PROVE  SessionInv'
<1>1. ASSUME NEW u \in Tabs, u # t PROVE TabInv(u)'
  BY <1>1 DEF SessionInv, TabInv, Idle
<1> QED BY <1>1 DEF SessionInv

\* Nor do those of the table, the cookies and the form disturb any tab.
LEMMA QuietTabs ==
    ASSUME SessionInv, ShapeInv', GlobalInv', NeverLoggedIn' => NeverLoggedIn,
           UNCHANGED <<auth, call, renewal>>
    PROVE  SessionInv'
<1>1. ASSUME NEW u \in Tabs PROVE TabInv(u)'
  BY <1>1 DEF SessionInv, TabInv, Idle
<1> QED BY <1>1 DEF SessionInv

LEMMA TableKept ==
    ASSUME ShapeInv, UNCHANGED table
    PROVE  /\ created' = created /\ sessions' = sessions /\ ended' = ended
           /\ CallSet' = CallSet /\ RenewalSet' = RenewalSet
           /\ FormSet' = FormSet /\ AccessSet' = AccessSet /\ ReasonSet' = ReasonSet
BY DEF table, CallSet, RenewalSet, FormSet, AccessSet, ReasonSet

LEMMA OneCall ==
    ASSUME ShapeInv, NEW t \in Tabs, NEW k \in Calls, NEW x \in CallSet,
           call' = [call EXCEPT ![t][k] = x]
    PROVE  /\ call' \in [Tabs -> [Calls -> CallSet]]
           /\ call'[t][k] = x
           /\ \A j \in Calls \ {k} : call'[t][j] = call[t][j]
           /\ \A u \in Tabs \ {t} : call'[u] = call[u]
BY DEF ShapeInv

LEMMA OneRenewal ==
    ASSUME ShapeInv, NEW t \in Tabs, NEW r \in Refreshes, NEW x \in RenewalSet,
           renewal' = [renewal EXCEPT ![t][r] = x]
    PROVE  /\ renewal' \in [Tabs -> [Refreshes -> RenewalSet]]
           /\ renewal'[t][r] = x
           /\ \A q \in Refreshes \ {r} : renewal'[t][q] = renewal[t][q]
           /\ \A u \in Tabs \ {t} : renewal'[u] = renewal[u]
BY DEF ShapeInv

LEMMA EnterFits ==
    ASSUME ShapeInv, NEW t \in Tabs, Enter(t)
    PROVE  /\ auth' \in [Tabs -> {"loading", "in", "out"}] /\ auth'[t] = "in"
           /\ reason' \in [Tabs -> ReasonSet]
           /\ link' \in [Tabs -> {"open", "authenticating", "closed"}]
           /\ \A u \in Tabs : auth'[u] = "in" <=> link'[u] # "closed"
           /\ \A u \in Tabs \ {t} : auth'[u] = auth[u]
<1>1. NoRefusal \in ReasonSet
  BY NoRefusalFits
<1> QED BY <1>1 DEF ShapeInv, Enter

LEMMA LeaveFits ==
    ASSUME ShapeInv, NEW t \in Tabs, NEW why, auth[t] = "in" => why \in ReasonSet,
           Leave(t, why)
    PROVE  /\ auth' \in [Tabs -> {"loading", "in", "out"}] /\ auth'[t] = "out"
           /\ reason' \in [Tabs -> ReasonSet]
           /\ link' \in [Tabs -> {"open", "authenticating", "closed"}]
           /\ \A u \in Tabs : auth'[u] = "in" <=> link'[u] # "closed"
           /\ \A u \in Tabs \ {t} : auth'[u] = auth[u]
<1>1. (IF auth[t] = "in" THEN why ELSE reason[t]) \in ReasonSet
  BY DEF ShapeInv
<1> QED BY <1>1 DEF ShapeInv, Leave

-----------------------------------------------------------------------------
(* Guarded requests and the interceptor. *)

LEMMA RequestStep ==
    ASSUME SessionInv, NEW t \in Tabs, Request(t)
    PROVE  SessionInv'
<1>1. /\ ShapeInv /\ GlobalInv /\ TabInv(t) /\ auth[t] = "in"
      /\ call' = [call EXCEPT ![t]["ui"] = Sent(access, FALSE)]
      /\ UNCHANGED <<table, access, refresh, emptied, auth, reason, logout, renewal,
                     form, link>>
  BY DEF SessionInv, Request, cookies, status
<1>2. Sent(access, FALSE) \in CallSet /\ Sent(access, FALSE).state = "sent"
  BY <1>1, SentFits
<1>3. /\ call' \in [Tabs -> [Calls -> CallSet]]
      /\ call'[t]["ui"] = Sent(access, FALSE) /\ call'[t]["me"] = call[t]["me"]
      /\ \A u \in Tabs \ {t} : call'[u] = call[u]
  BY <1>1, <1>2, OneCall DEF Calls
<1>4. ShapeInv'
  BY <1>1, <1>3, TableKept DEF ShapeInv
<1>5. GlobalInv'
  BY <1>1, TableKept DEF GlobalInv, NeverLoggedIn, LogoutIsFinal
<1>6. TabInv(t)'
  BY <1>1, <1>2, <1>3, TableKept DEF TabInv, NeverLoggedIn, Calls
<1> QED BY <1>1, <1>3, <1>4, <1>5, <1>6, TabStep DEF NeverLoggedIn

LEMMA OpenStep ==
    ASSUME SessionInv, NEW t \in Tabs, Open(t)
    PROVE  SessionInv'
<1>1. /\ ShapeInv /\ GlobalInv /\ TabInv(t) /\ auth[t] = "out"
      /\ auth' = [auth EXCEPT ![t] = "loading"]
      /\ reason' = [reason EXCEPT ![t] = NoRefusal]
      /\ call' = [call EXCEPT ![t]["ui"] = Sent(access, FALSE)]
      /\ UNCHANGED <<table, access, refresh, emptied, logout, renewal, form, link>>
  BY DEF SessionInv, Open, cookies
<1>2. /\ Sent(access, FALSE) \in CallSet /\ Sent(access, FALSE).state = "sent"
      /\ access = NoAccess => Sent(access, FALSE).session = None
  BY <1>1, SentFits
<1>3. /\ call' \in [Tabs -> [Calls -> CallSet]]
      /\ call'[t]["ui"] = Sent(access, FALSE) /\ call'[t]["me"] = call[t]["me"]
      /\ \A u \in Tabs \ {t} : call'[u] = call[u]
  BY <1>1, <1>2, OneCall DEF Calls
<1>4. /\ auth' \in [Tabs -> {"loading", "in", "out"}] /\ auth'[t] = "loading"
      /\ \A u \in Tabs \ {t} : auth'[u] = auth[u]
      /\ \A u \in Tabs : auth'[u] = "in" <=> link[u] # "closed"
  BY <1>1 DEF ShapeInv
<1>5. reason' \in [Tabs -> ReasonSet]
  BY <1>1, NoRefusalFits DEF ShapeInv
<1>6. ShapeInv'
  BY <1>1, <1>3, <1>4, <1>5, TableKept DEF ShapeInv
<1>7. GlobalInv'
  BY <1>1, TableKept DEF GlobalInv, NeverLoggedIn, LogoutIsFinal
<1>8. TabInv(t)'
  <2>1. \A k \in Calls : call'[t][k].state = "waiting" => renewal'[t]["calls"] # Idle
    BY <1>1, <1>2, <1>3 DEF TabInv, Calls
  <2>2. ASSUME NeverLoggedIn, NEW k \in Calls, call'[t][k].state = "sent"
        PROVE  call'[t][k].session = None
    BY <1>1, <1>2, <1>3, <2>2 DEF TabInv, GlobalInv, Calls
  <2>3. NeverLoggedIn' => NeverLoggedIn
    BY <1>1 DEF NeverLoggedIn
  <2> QED BY <1>1, <1>4, <2>1, <2>2, <2>3 DEF TabInv
<1> QED BY <1>1, <1>3, <1>4, <1>6, <1>7, <1>8, TabStep DEF NeverLoggedIn

\* A granted call shows that there has been a login.
LEMMA SucceedStep ==
    ASSUME SessionInv, NEW t \in Tabs, NEW k \in Calls, Succeed(t, k)
    PROVE  SessionInv'
<1>1. /\ ShapeInv /\ GlobalInv /\ TabInv(t)
      /\ call[t][k].state = "sent" /\ call[t][k].session \in sessions
      /\ call' = [call EXCEPT ![t][k] = Idle]
      /\ logout' = IF logout = "confirmed" THEN "undone" ELSE logout
      /\ UNCHANGED <<table, access, refresh, emptied, renewal, form>>
  BY DEF SessionInv, Succeed, Granted, cookies
<1>2. Idle \in CallSet
  BY DEF CallSet
<1>3. /\ call' \in [Tabs -> [Calls -> CallSet]] /\ call'[t][k] = Idle
      /\ \A j \in Calls \ {k} : call'[t][j] = call[t][j]
      /\ \A u \in Tabs \ {t} : call'[u] = call[u]
  <2>1. ShapeInv /\ call' = [call EXCEPT ![t][k] = Idle]
    BY <1>1
  <2> QED BY <2>1, <1>2 DEF ShapeInv
<1>4. ~ NeverLoggedIn
  BY <1>1 DEF TabInv, ShapeInv, None
<1>5. /\ auth' \in [Tabs -> {"loading", "in", "out"}]
      /\ reason' \in [Tabs -> ReasonSet]
      /\ link' \in [Tabs -> {"open", "authenticating", "closed"}]
      /\ \A u \in Tabs : auth'[u] = "in" <=> link'[u] # "closed"
      /\ \A u \in Tabs \ {t} : auth'[u] = auth[u]
  <2>1. CASE auth[t] = "loading"
    BY <1>1, <2>1, EnterFits DEF Succeed
  <2>2. CASE auth[t] # "loading"
    BY <1>1, <2>2 DEF Succeed, ShapeInv
  <2> QED BY <2>1, <2>2
<1>6. ShapeInv'
  BY <1>1, <1>3, <1>5, TableKept DEF ShapeInv
<1>7. GlobalInv'
  <2>1. created <= 1 /\ logout = "confirmed" => FALSE
    <3> SUFFICES ASSUME created <= 1, logout = "confirmed" PROVE FALSE
      OBVIOUS
    <3>1. PICK s \in ended : TRUE
      BY <1>1 DEF GlobalInv
    <3>2. s \in 1..created /\ call[t][k].session \in 1..created /\ created \in Nat
      BY <1>1, SessionAssumption DEF ShapeInv
    <3>3. s = call[t][k].session
      BY <3>2
    <3> QED BY <1>1, <3>3 DEF ShapeInv
  <2> QED BY <1>1, <1>4, <2>1, TableKept DEF GlobalInv, NeverLoggedIn, LogoutIsFinal
<1>8. TabInv(t)'
  BY <1>1, <1>3, <1>4, IdleState DEF TabInv, NeverLoggedIn
<1> QED BY <1>1, <1>3, <1>5, <1>6, <1>7, <1>8, TabStep DEF NeverLoggedIn

\* A denied call joins or starts a refresh.
LEMMA DeniedStep ==
    ASSUME SessionInv, NEW t \in Tabs, NEW k \in Calls, Denied(t, k)
    PROVE  SessionInv'
<1> DEFINE x == IF renewal[t]["calls"] = Idle THEN Refresh(refresh)
                ELSE renewal[t]["calls"]
<1>1. /\ ShapeInv /\ GlobalInv /\ TabInv(t) /\ call[t][k].state = "sent"
      /\ call' = [call EXCEPT ![t][k] = [state |-> "waiting"]]
      /\ renewal' = [renewal EXCEPT ![t]["calls"] =
                       IF @ = Idle THEN Refresh(refresh) ELSE @]
      /\ UNCHANGED <<table, access, refresh, emptied, auth, reason, logout, form, link>>
  BY DEF SessionInv, Denied, cookies, status
<1>2. [state |-> "waiting"] \in CallSet
  BY DEF CallSet
<1>3. /\ call' \in [Tabs -> [Calls -> CallSet]] /\ call'[t][k].state = "waiting"
      /\ \A j \in Calls \ {k} : call'[t][j] = call[t][j]
      /\ \A u \in Tabs \ {t} : call'[u] = call[u]
  <2>1. ShapeInv /\ call' = [call EXCEPT ![t][k] = [state |-> "waiting"]]
    BY <1>1
  <2> QED BY <2>1, <1>2 DEF ShapeInv
<1>4. renewal' = [renewal EXCEPT ![t]["calls"] = x] /\ "calls" \in Refreshes
  BY <1>1 DEF Refreshes
<1>5. /\ x \in RenewalSet /\ x # Idle
      /\ NeverLoggedIn => x.session = None
  <2>1. refresh \in 0..created /\ renewal[t]["calls"] \in RenewalSet
    BY <1>1, <1>4 DEF ShapeInv
  <2>2. /\ Refresh(refresh) \in RenewalSet /\ Refresh(refresh) # Idle
        /\ Refresh(refresh).session = refresh
    BY <2>1, RefreshFits
  <2> QED BY <1>1, <1>4, <2>1, <2>2 DEF TabInv, NeverLoggedIn
<1> HIDE DEF x
<1>6. /\ renewal' \in [Tabs -> [Refreshes -> RenewalSet]] /\ renewal'[t]["calls"] = x
      /\ \A q \in Refreshes \ {"calls"} : renewal'[t][q] = renewal[t][q]
      /\ \A u \in Tabs \ {t} : renewal'[u] = renewal[u]
  <2>1. ShapeInv
    BY <1>1
  <2> QED BY <1>4, <1>5, <2>1 DEF ShapeInv
<1>7. ShapeInv'
  BY <1>1, <1>3, <1>6, TableKept DEF ShapeInv
<1>8. GlobalInv'
  BY <1>1, TableKept DEF GlobalInv, NeverLoggedIn, LogoutIsFinal
<1>9. TabInv(t)'
  BY <1>1, <1>3, <1>5, <1>6 DEF TabInv, NeverLoggedIn
<1> QED BY <1>1, <1>3, <1>6, <1>7, <1>8, <1>9, TabStep DEF NeverLoggedIn

\* A call that was sent again carries a session, which therefore has ended.
LEMMA DeniedAgainStep ==
    ASSUME SessionInv, NEW t \in Tabs, NEW k \in Calls, DeniedAgain(t, k)
    PROVE  SessionInv'
<1>1. /\ ShapeInv /\ GlobalInv /\ TabInv(t)
      /\ call[t][k].state = "sent" /\ call[t][k].session \notin sessions
      /\ call[t][k].retried
      /\ call' = [call EXCEPT ![t][k] = Idle]
      /\ UNCHANGED <<table, access, refresh, emptied, logout, form>>
  BY DEF SessionInv, DeniedAgain, Granted, cookies
<1>2. call[t][k].session \in 0..created /\ ~ NeverLoggedIn
  <2>1. call[t][k].session \in 0..created /\ call[t][k].session # None
    BY <1>1, CallCases, IdleState
  <2> QED BY <1>1, <2>1 DEF TabInv
<1>3. Idle \in CallSet
  BY DEF CallSet
<1>4. /\ call' \in [Tabs -> [Calls -> CallSet]] /\ call'[t][k] = Idle
      /\ \A j \in Calls \ {k} : call'[t][j] = call[t][j]
      /\ \A u \in Tabs \ {t} : call'[u] = call[u]
  <2>1. ShapeInv /\ call' = [call EXCEPT ![t][k] = Idle]
    BY <1>1
  <2> QED BY <2>1, <1>3 DEF ShapeInv
<1>5. /\ renewal' \in [Tabs -> [Refreshes -> RenewalSet]]
      /\ renewal'[t]["calls"] = renewal[t]["calls"]
      /\ \A u \in Tabs \ {t} : renewal'[u] = renewal[u]
  <2>1. CASE renewal' = [renewal EXCEPT ![t]["restore"] = Refresh(refresh)]
    <3>1. Refresh(refresh) \in RenewalSet
      BY <1>1, RefreshFits DEF ShapeInv
    <3> QED BY <1>1, <2>1, <3>1, OneRenewal DEF Refreshes
  <2>2. CASE UNCHANGED renewal
    BY <1>1, <2>2 DEF ShapeInv
  <2> QED BY <2>1, <2>2 DEF DeniedAgain
<1>6. /\ auth' \in [Tabs -> {"loading", "in", "out"}]
      /\ reason' \in [Tabs -> ReasonSet]
      /\ link' \in [Tabs -> {"open", "authenticating", "closed"}]
      /\ \A u \in Tabs : auth'[u] = "in" <=> link'[u] # "closed"
      /\ \A u \in Tabs \ {t} : auth'[u] = auth[u]
  <2>1. CASE Leave(t, Refusal(call[t][k].session))
    <3>1. auth[t] = "in" => Refusal(call[t][k].session) \in ReasonSet
      BY <1>1, <1>2, RefusalFits
    <3> QED BY <1>1, <2>1, <3>1, LeaveFits
  <2>2. CASE UNCHANGED <<auth, reason, link>>
    BY <1>1, <2>2 DEF ShapeInv
  <2> QED BY <2>1, <2>2 DEF DeniedAgain, GivesUp
<1>7. ShapeInv'
  BY <1>1, <1>4, <1>5, <1>6, TableKept DEF ShapeInv
<1>8. GlobalInv'
  BY <1>1, TableKept DEF GlobalInv, NeverLoggedIn, LogoutIsFinal
<1>9. TabInv(t)'
  BY <1>1, <1>2, <1>4, <1>5, IdleState DEF TabInv, NeverLoggedIn
<1> QED BY <1>1, <1>4, <1>5, <1>6, <1>7, <1>8, <1>9, TabStep DEF NeverLoggedIn

LEMMA CallFailsStep ==
    ASSUME SessionInv, NEW t \in Tabs, NEW k \in Calls, CallFails(t, k)
    PROVE  SessionInv'
<1>1. /\ ShapeInv /\ GlobalInv /\ TabInv(t) /\ call[t][k].state = "sent"
      /\ call' = [call EXCEPT ![t][k] = Idle]
      /\ UNCHANGED <<table, access, refresh, emptied, logout, renewal, form>>
  BY DEF SessionInv, CallFails, cookies
<1>2. Idle \in CallSet
  BY DEF CallSet
<1>3. /\ call' \in [Tabs -> [Calls -> CallSet]] /\ call'[t][k] = Idle
      /\ \A j \in Calls \ {k} : call'[t][j] = call[t][j]
      /\ \A u \in Tabs \ {t} : call'[u] = call[u]
  <2>1. ShapeInv /\ call' = [call EXCEPT ![t][k] = Idle]
    BY <1>1
  <2> QED BY <2>1, <1>2 DEF ShapeInv
<1>4. /\ auth' \in [Tabs -> {"loading", "in", "out"}]
      /\ reason' \in [Tabs -> ReasonSet]
      /\ link' \in [Tabs -> {"open", "authenticating", "closed"}]
      /\ \A u \in Tabs : auth'[u] = "in" <=> link'[u] # "closed"
      /\ \A u \in Tabs \ {t} : auth'[u] = auth[u]
      /\ auth'[t] = "in" => auth[t] = "in"
  <2>1. CASE Leave(t, NoRefusal)
    BY <1>1, <2>1, NoRefusalFits, LeaveFits
  <2>2. CASE UNCHANGED <<auth, reason, link>>
    BY <1>1, <2>2 DEF ShapeInv
  <2> QED BY <2>1, <2>2 DEF CallFails, GivesUp
<1>5. ShapeInv'
  BY <1>1, <1>3, <1>4, TableKept DEF ShapeInv
<1>6. GlobalInv'
  BY <1>1, TableKept DEF GlobalInv, NeverLoggedIn, LogoutIsFinal
<1>7. TabInv(t)'
  BY <1>1, <1>3, <1>4, IdleState DEF TabInv, NeverLoggedIn
<1> QED BY <1>1, <1>3, <1>4, <1>5, <1>6, <1>7, TabStep DEF NeverLoggedIn

LEMMA ServeRefreshStep ==
    ASSUME SessionInv, NEW t \in Tabs, NEW r \in Refreshes, ServeRefresh(t, r)
    PROVE  SessionInv'
<1>1. /\ ShapeInv /\ GlobalInv /\ TabInv(t) /\ renewal[t][r].state = "sent"
      /\ UNCHANGED <<table, access, refresh, emptied, auth, reason, logout, call, form,
                     link>>
  BY DEF SessionInv, ServeRefresh, cookies, status
<1> DEFINE x == [renewal[t][r] EXCEPT !.state =
                  IF renewal[t][r].session \in sessions THEN "renewed" ELSE "rejected"]
<1>2. renewal[t][r] # Idle
  BY <1>1, IdleState
<1>3. x \in RenewalSet /\ x # Idle /\ x.session = renewal[t][r].session
  <2>1. x = [state |-> IF renewal[t][r].session \in sessions THEN "renewed"
                       ELSE "rejected",
             session |-> renewal[t][r].session]
    <3>1. renewal[t][r] \in [state : {"sent", "renewed", "rejected"},
                             session : 0..created]
      <4>1. renewal[t][r] \in RenewalSet
        BY <1>1 DEF ShapeInv
      <4> QED BY <1>2, <4>1 DEF RenewalSet
    <3> QED BY <3>1
  <2>2. renewal[t][r].session \in sessions => renewal[t][r].session # None
    BY <1>1 DEF ShapeInv, None
  <2>3. \/ renewal[t][r].session \in sessions
        \/ renewal[t][r].session = None
        \/ renewal[t][r].session \in ended
    BY <1>1, <1>2, RenewalCases, GoneHasEnded
  <2>4. renewal[t][r].session \in 0..created
    BY <1>1, <1>2, RenewalCases
  <2> HIDE DEF x
  <2> QED BY <2>1, <2>2, <2>3, <2>4 DEF RenewalSet, Idle
<1>4. renewal' = [renewal EXCEPT ![t][r] = x]
  BY DEF ServeRefresh
<1> HIDE DEF x
<1>5. /\ renewal' \in [Tabs -> [Refreshes -> RenewalSet]] /\ renewal'[t][r] = x
      /\ \A q \in Refreshes \ {r} : renewal'[t][q] = renewal[t][q]
      /\ \A u \in Tabs \ {t} : renewal'[u] = renewal[u]
  BY <1>1, <1>3, <1>4, OneRenewal
<1>6. ShapeInv'
  BY <1>1, <1>5, TableKept DEF ShapeInv
<1>7. GlobalInv'
  BY <1>1, TableKept DEF GlobalInv, NeverLoggedIn, LogoutIsFinal
<1>8. TabInv(t)'
  <2>1. renewal[t]["calls"] # Idle => renewal'[t]["calls"] # Idle
    BY <1>3, <1>5 DEF Refreshes
  <2>2. ASSUME NeverLoggedIn, NEW q \in Refreshes, renewal'[t][q] # Idle
        PROVE  renewal'[t][q].session = None
    BY <1>1, <1>2, <1>3, <1>5, <2>2 DEF TabInv
  <2> QED BY <1>1, <2>1, <2>2 DEF TabInv, NeverLoggedIn
<1> QED BY <1>1, <1>5, <1>6, <1>7, <1>8, TabStep DEF NeverLoggedIn

\* A session that was renewed has been created.
LEMMA RenewalFits ==
    ASSUME SessionInv, NEW t \in Tabs, NEW r \in Refreshes,
           renewal[t][r].state = "renewed"
    PROVE  /\ renewal[t][r] # Idle /\ renewal[t][r].session \in 1..created
           /\ Renewal(t, r) \in AccessSet /\ ~ NeverLoggedIn
<1>1. ShapeInv /\ TabInv(t) /\ renewal[t][r] # Idle
  BY IdleState DEF SessionInv
<1>2. renewal[t][r].session \in 0..created /\ renewal[t][r].session # None
  BY <1>1, RenewalCases
<1>3. renewal[t][r].session \in 1..created
  BY <1>1, <1>2, SessionAssumption DEF ShapeInv, None
<1> QED BY <1>1, <1>2, <1>3 DEF TabInv, AccessSet, Renewal

\* The waiting calls are sent again, each with the new token.
LEMMA RenewedStep ==
    ASSUME SessionInv, NEW t \in Tabs, NEW r \in Refreshes, Renewed(t, r)
    PROVE  SessionInv'
<1>1. /\ ShapeInv /\ GlobalInv /\ TabInv(t) /\ renewal[t][r].state = "renewed"
      /\ access' = Renewal(t, r)
      /\ call' = [call EXCEPT ![t] = [k \in Calls |->
           IF k \in Waiting(t, r) THEN Sent(access', TRUE) ELSE call[t][k]]]
      /\ renewal' = [renewal EXCEPT ![t][r] = Idle]
      /\ UNCHANGED <<table, refresh, emptied, logout, form>>
  BY DEF SessionInv, Renewed
<1>2. /\ renewal[t][r].session \in 1..created
      /\ access' \in AccessSet /\ ~ NeverLoggedIn
  BY <1>1, RenewalFits
<1>3. Sent(access', TRUE) \in CallSet /\ Sent(access', TRUE).state = "sent"
  <2>1. Sent(access', TRUE) = [state |-> "sent", retried |-> TRUE,
                              session |-> renewal[t][r].session]
    BY <1>1 DEF Sent, Renewal
  <2>2. renewal[t][r].session \in 0..created /\ renewal[t][r].session # None
    BY <1>1, <1>2, SessionAssumption DEF ShapeInv, None
  <2> DEFINE n == renewal[t][r].session
             c == [state |-> "sent", retried |-> TRUE, session |-> n]
  <2> HIDE DEF n
  <2>3. /\ c \in [state : {"sent"}, retried : BOOLEAN, session : 0..created]
        /\ c.retried => c.session # None
        /\ c.state = "sent"
    BY <2>2 DEF n
  <2> HIDE DEF c
  <2>4. c \in CallSet
    BY <2>3 DEF CallSet
  <2> QED BY <2>1, <2>3, <2>4 DEF c, n
<1>4. /\ call' \in [Tabs -> [Calls -> CallSet]]
      /\ \A k \in Calls : call'[t][k].state = "waiting" =>
                            call[t][k].state = "waiting" /\ r # "calls"
      /\ \A u \in Tabs \ {t} : call'[u] = call[u]
  <2> DEFINE y == [k \in Calls |->
                    IF k \in Waiting(t, r) THEN Sent(access', TRUE) ELSE call[t][k]]
  <2>1. y \in [Calls -> CallSet]
    BY <1>1, <1>3 DEF ShapeInv
  <2>2. \A k \in Calls : y[k].state = "waiting" =>
                           call[t][k].state = "waiting" /\ r # "calls"
    BY <1>3 DEF Waiting
  <2> HIDE DEF y
  <2>3. call' = [call EXCEPT ![t] = y]
    BY <1>1 DEF y
  <2>4. call \in [Tabs -> [Calls -> CallSet]] /\ t \in Tabs
    BY <1>1 DEF ShapeInv
  <2>5. /\ call' \in [Tabs -> [Calls -> CallSet]] /\ call'[t] = y
        /\ \A u \in Tabs \ {t} : call'[u] = call[u]
    BY <2>1, <2>3, <2>4
  <2> QED BY <2>2, <2>5
<1>5. Idle \in RenewalSet
  BY DEF RenewalSet
<1>6. /\ renewal' \in [Tabs -> [Refreshes -> RenewalSet]]
      /\ \A q \in Refreshes \ {r} : renewal'[t][q] = renewal[t][q]
      /\ \A u \in Tabs \ {t} : renewal'[u] = renewal[u]
  BY <1>1, <1>5, OneRenewal
<1>7. /\ auth' \in [Tabs -> {"loading", "in", "out"}]
      /\ reason' \in [Tabs -> ReasonSet]
      /\ link' \in [Tabs -> {"open", "authenticating", "closed"}]
      /\ \A u \in Tabs : auth'[u] = "in" <=> link'[u] # "closed"
      /\ \A u \in Tabs \ {t} : auth'[u] = auth[u]
  <2>1. CASE Enter(t)
    BY <1>1, <2>1, EnterFits
  <2>2. CASE UNCHANGED <<auth, reason, link>>
    BY <1>1, <2>2 DEF ShapeInv
  <2> QED BY <2>1, <2>2 DEF Renewed
<1>8. ShapeInv'
  <2>1. /\ created' = created /\ sessions' = sessions /\ ended' = ended
        /\ CallSet' = CallSet /\ RenewalSet' = RenewalSet /\ ReasonSet' = ReasonSet
        /\ FormSet' = FormSet /\ AccessSet' = AccessSet
        /\ refresh' = refresh /\ emptied' = emptied /\ form' = form
    BY <1>1, TableKept
  <2>2. /\ created \in 0..MaxLogins /\ refresh \in 0..created
        /\ emptied = None \/ emptied \in ended
        /\ sessions \cup ended = 1..created /\ sessions \cap ended = {}
        /\ form \in FormSet
    BY <1>1 DEF ShapeInv
  <2> QED BY <1>2, <1>4, <1>6, <1>7, <2>1, <2>2 DEF ShapeInv
<1>9. GlobalInv'
  BY <1>1, <1>2, TableKept DEF GlobalInv, NeverLoggedIn, LogoutIsFinal
<1>10. TabInv(t)'
  <2>1. ASSUME NEW k \in Calls, call'[t][k].state = "waiting"
        PROVE  renewal'[t]["calls"] # Idle
    BY <1>1, <1>4, <1>6, <2>1 DEF TabInv, Refreshes
  <2> QED BY <1>1, <1>2, <2>1 DEF TabInv, NeverLoggedIn
<1> QED BY <1>1, <1>4, <1>6, <1>7, <1>8, <1>9, <1>10, TabStep DEF NeverLoggedIn

\* When a refresh ends without success, nobody waits for it any more.
LEMMA RefreshEndsFits ==
    ASSUME SessionInv, NEW t \in Tabs, NEW r \in Refreshes, NEW why,
           RefreshEnds(t, r, why)
    PROVE  /\ call' \in [Tabs -> [Calls -> CallSet]]
           /\ \A k \in Calls : call'[t][k].state = "waiting" =>
                                 call[t][k].state = "waiting" /\ r # "calls"
           /\ \A k \in Calls : call'[t][k].state = "sent" => call'[t][k] = call[t][k]
           /\ \A u \in Tabs \ {t} : call'[u] = call[u]
<1>1. ShapeInv
  BY DEF SessionInv
<1> DEFINE y == [k \in Calls |-> IF k \in Waiting(t, r) THEN Idle ELSE call[t][k]]
<1>2. y \in [Calls -> CallSet]
  BY <1>1 DEF ShapeInv, CallSet
<1>3. \A k \in Calls : y[k].state = "waiting" =>
                         call[t][k].state = "waiting" /\ r # "calls"
  BY IdleState DEF Waiting
<1>4. \A k \in Calls : y[k].state = "sent" => y[k] = call[t][k]
  BY IdleState
<1> HIDE DEF y
<1>5. call' = [call EXCEPT ![t] = y]
  BY DEF RefreshEnds, y
<1>6. call \in [Tabs -> [Calls -> CallSet]] /\ t \in Tabs
  BY <1>1 DEF ShapeInv
<1>7. /\ call' \in [Tabs -> [Calls -> CallSet]] /\ call'[t] = y
      /\ \A u \in Tabs \ {t} : call'[u] = call[u]
  BY <1>2, <1>5, <1>6
<1> QED BY <1>3, <1>4, <1>7

LEMMA RefreshFailsStep ==
    ASSUME SessionInv, NEW t \in Tabs, NEW r \in Refreshes, RefreshFails(t, r)
    PROVE  SessionInv'
<1>1. /\ ShapeInv /\ GlobalInv /\ TabInv(t)
      /\ RefreshEnds(t, r, NoRefusal) /\ Leave(t, NoRefusal)
      /\ renewal' = [renewal EXCEPT ![t][r] = Idle]
      /\ UNCHANGED <<table, refresh, emptied, logout, form>>
  BY DEF SessionInv, RefreshFails, RefreshEnds
<1>2. access' \in AccessSet /\ (NeverLoggedIn => access' = access)
  <2>1. CASE UNCHANGED access
    BY <1>1, <2>1 DEF ShapeInv
  <2>2. CASE renewal[t][r].state = "renewed" /\ access' = Renewal(t, r)
    BY <2>2, RenewalFits
  <2> QED BY <2>1, <2>2 DEF RefreshFails
<1>3. Idle \in RenewalSet
  BY DEF RenewalSet
<1>4. /\ renewal' \in [Tabs -> [Refreshes -> RenewalSet]] /\ renewal'[t][r] = Idle
      /\ \A q \in Refreshes \ {r} : renewal'[t][q] = renewal[t][q]
      /\ \A u \in Tabs \ {t} : renewal'[u] = renewal[u]
  BY <1>1, <1>3, OneRenewal
<1>5. /\ call' \in [Tabs -> [Calls -> CallSet]]
      /\ \A k \in Calls : call'[t][k].state = "waiting" =>
                            call[t][k].state = "waiting" /\ r # "calls"
      /\ \A k \in Calls : call'[t][k].state = "sent" => call'[t][k] = call[t][k]
      /\ \A u \in Tabs \ {t} : call'[u] = call[u]
  BY <1>1, RefreshEndsFits
<1>6. /\ auth' \in [Tabs -> {"loading", "in", "out"}] /\ auth'[t] = "out"
      /\ reason' \in [Tabs -> ReasonSet]
      /\ link' \in [Tabs -> {"open", "authenticating", "closed"}]
      /\ \A u \in Tabs : auth'[u] = "in" <=> link'[u] # "closed"
      /\ \A u \in Tabs \ {t} : auth'[u] = auth[u]
  BY <1>1, NoRefusalFits, LeaveFits
<1>7. ShapeInv'
  BY <1>1, <1>2, <1>4, <1>5, <1>6, TableKept DEF ShapeInv
<1>8. GlobalInv'
  BY <1>1, <1>2, TableKept DEF GlobalInv, NeverLoggedIn, LogoutIsFinal
<1>9. TabInv(t)'
  <2>1. ASSUME NEW k \in Calls, call'[t][k].state = "waiting"
        PROVE  renewal'[t]["calls"] # Idle
    BY <1>1, <1>4, <1>5, <2>1 DEF TabInv, Refreshes
  <2>2. ASSUME NeverLoggedIn, NEW q \in Refreshes, renewal'[t][q] # Idle
        PROVE  renewal'[t][q].session = None
    BY <1>1, <1>4, <2>2 DEF TabInv
  <2>3. ASSUME NeverLoggedIn, NEW k \in Calls, call'[t][k].state = "sent"
        PROVE  call'[t][k].session = None
    BY <1>1, <1>5, <2>3 DEF TabInv
  <2> QED BY <1>1, <1>6, <2>1, <2>2, <2>3 DEF TabInv, NeverLoggedIn
<1> QED BY <1>1, <1>4, <1>5, <1>6, <1>7, <1>8, <1>9, TabStep DEF NeverLoggedIn

\* A rejected refresh carried a session that has ended, or none.
LEMMA RejectedStep ==
    ASSUME SessionInv, NEW t \in Tabs, NEW r \in Refreshes, Rejected(t, r)
    PROVE  SessionInv'
<1> DEFINE s == renewal[t][r].session
           y == [q \in Refreshes |->
                  IF q = r THEN Idle
                  ELSE IF q = "restore" /\ auth[t] = "loading" THEN Refresh(refresh')
                  ELSE renewal[t][q]]
<1>1. /\ ShapeInv /\ GlobalInv /\ TabInv(t) /\ renewal[t][r].state = "rejected"
      /\ RefreshEnds(t, r, Refusal(s)) /\ Leave(t, Refusal(s))
      /\ renewal' = [renewal EXCEPT ![t] = y]
      /\ UNCHANGED <<table, logout, form>>
  BY DEF SessionInv, Rejected, RefreshEnds
<1>2. /\ s \in 0..created /\ s \notin sessions
      /\ s = None \/ s \in ended
  <2>1. renewal[t][r] # Idle
    BY <1>1, IdleState
  <2>2. s \in 0..created /\ (s = None \/ s \in ended)
    BY <1>1, <2>1, RenewalCases
  <2>3. None \notin sessions
    BY <1>1 DEF ShapeInv, None
  <2> QED BY <1>1, <2>2, <2>3 DEF ShapeInv
<1>3. /\ s = None => UNCHANGED <<access, refresh, emptied>>
      /\ s # None => access' = NoAccess /\ refresh' = None /\ emptied' = s
  BY DEF Rejected, cookies, ClearCookies
<1>4. auth[t] = "in" => Refusal(s) \in ReasonSet
  BY <1>2, RefusalFits
<1> HIDE DEF s
<1>5. /\ access' \in AccessSet /\ refresh' \in 0..created
      /\ emptied' = None \/ emptied' \in ended
      /\ NeverLoggedIn' => NeverLoggedIn /\ access' = access
      /\ emptied # None => emptied' # None
  <2>1. None \in 0..created /\ NoAccess \in AccessSet
    BY <1>1, SessionAssumption DEF ShapeInv, None, AccessSet
  <2> QED BY <1>1, <1>2, <1>3, <2>1 DEF ShapeInv, NeverLoggedIn
<1>6. /\ y \in [Refreshes -> RenewalSet]
      /\ \A q \in Refreshes : y[q] # Idle =>
           /\ q # r
           /\ y[q] = renewal[t][q] \/ y[q].session = refresh'
  <2>1. Refresh(refresh') \in RenewalSet /\ Refresh(refresh').session = refresh'
    <3>1. PICK token \in 0..created : token = refresh'
      BY <1>5
    <3>2. Refresh(token) \in RenewalSet /\ Refresh(token).session = token
      BY RefreshFits
    <3> QED BY <3>1, <3>2
  <2>2. Idle \in RenewalSet
    BY DEF RenewalSet
  <2>3. \A q \in Refreshes : renewal[t][q] \in RenewalSet
    BY <1>1 DEF ShapeInv
  <2> QED BY <2>1, <2>2, <2>3
<1>7. r # "calls" => y["calls"] = renewal[t]["calls"]
  BY DEF Refreshes
<1> HIDE DEF y
<1>8. /\ renewal' \in [Tabs -> [Refreshes -> RenewalSet]] /\ renewal'[t] = y
      /\ \A u \in Tabs \ {t} : renewal'[u] = renewal[u]
  BY <1>1, <1>6 DEF ShapeInv
<1>9. /\ call' \in [Tabs -> [Calls -> CallSet]]
      /\ \A k \in Calls : call'[t][k].state = "waiting" =>
                            call[t][k].state = "waiting" /\ r # "calls"
      /\ \A k \in Calls : call'[t][k].state = "sent" => call'[t][k] = call[t][k]
      /\ \A u \in Tabs \ {t} : call'[u] = call[u]
  BY <1>1, RefreshEndsFits
<1>10. /\ auth' \in [Tabs -> {"loading", "in", "out"}] /\ auth'[t] = "out"
       /\ reason' \in [Tabs -> ReasonSet]
       /\ link' \in [Tabs -> {"open", "authenticating", "closed"}]
       /\ \A u \in Tabs : auth'[u] = "in" <=> link'[u] # "closed"
       /\ \A u \in Tabs \ {t} : auth'[u] = auth[u]
  BY <1>1, <1>4, LeaveFits
<1>11. ShapeInv'
  BY <1>1, <1>5, <1>8, <1>9, <1>10, TableKept DEF ShapeInv
<1>12. GlobalInv'
  BY <1>1, <1>5, TableKept DEF GlobalInv, LogoutIsFinal
<1>13. TabInv(t)'
  <2>1. ASSUME NEW k \in Calls, call'[t][k].state = "waiting"
        PROVE  renewal'[t]["calls"] # Idle
    BY <1>1, <1>7, <1>8, <1>9, <2>1 DEF TabInv
  <2>2. ASSUME NeverLoggedIn', NEW q \in Refreshes, renewal'[t][q] # Idle
        PROVE  renewal'[t][q].session = None
    <3>1. refresh' = None /\ NeverLoggedIn
      BY <1>5, <2>2 DEF NeverLoggedIn
    <3> QED BY <1>1, <1>6, <1>8, <2>2, <3>1 DEF TabInv
  <2>3. ASSUME NeverLoggedIn', NEW k \in Calls, call'[t][k].state = "sent"
        PROVE  call'[t][k].session = None
    BY <1>1, <1>5, <1>9, <2>3 DEF TabInv
  <2> QED BY <1>10, <2>1, <2>2, <2>3 DEF TabInv
<1> QED BY <1>5, <1>8, <1>9, <1>10, <1>11, <1>12, <1>13, TabStep

-----------------------------------------------------------------------------
(* Login, logout and time. *)

LEMMA LoginStep ==
    ASSUME SessionInv, NEW t \in Tabs, Login(t)
    PROVE  SessionInv'
<1>1. /\ ShapeInv /\ GlobalInv
      /\ form' = [state |-> "login", tab |-> t, session |-> None]
      /\ UNCHANGED <<table, access, refresh, emptied, auth, reason, logout, call,
                     renewal, link>>
  BY DEF SessionInv, Login, cookies, status
<1>2. form' \in FormSet /\ form'.state = "login"
  BY <1>1, SessionAssumption DEF FormSet, ShapeInv, None
<1>3. ShapeInv'
  BY <1>1, <1>2, TableKept DEF ShapeInv
<1>4. GlobalInv'
  BY <1>1, <1>2, TableKept DEF GlobalInv, NeverLoggedIn, LogoutIsFinal
<1> QED BY <1>1, <1>3, <1>4, QuietTabs DEF NeverLoggedIn

\* Whoever logs out has a session to end, or its end has emptied the jar.
LEMMA LogoutStep ==
    ASSUME SessionInv, NEW t \in Tabs, Logout(t)
    PROVE  SessionInv'
<1>1. /\ ShapeInv /\ GlobalInv /\ TabInv(t) /\ auth[t] = "in"
      /\ form' = [state |-> "logout", tab |-> t, session |-> refresh]
      /\ UNCHANGED <<table, access, refresh, emptied, auth, reason, logout, call,
                     renewal, link>>
  BY DEF SessionInv, Logout, cookies, status
<1>2. form' \in FormSet /\ form'.session = refresh
  BY <1>1 DEF FormSet, ShapeInv
<1>3. ShapeInv'
  BY <1>1, <1>2, TableKept DEF ShapeInv
<1>4. refresh = None => emptied # None
  BY <1>1 DEF TabInv, NeverLoggedIn
<1>5. GlobalInv'
  BY <1>1, <1>2, <1>4, TableKept DEF GlobalInv, NeverLoggedIn, LogoutIsFinal
<1> QED BY <1>1, <1>3, <1>5, QuietTabs DEF NeverLoggedIn

LEMMA FormCases ==
    ASSUME ShapeInv, form # Idle
    PROVE  /\ form \in [state : {"login", "loggedin", "logout", "loggedout"},
                        tab : Tabs, session : 0..created]
           /\ form.state = "loggedin" => form.session # None
           /\ form.state = "loggedout" => form.session = None \/ form.session \in ended
BY DEF ShapeInv, FormSet

LEMMA ServeLoginStep ==
    ASSUME SessionInv, ServeLogin
    PROVE  SessionInv'
<1>1. /\ ShapeInv /\ GlobalInv /\ form.state = "login" /\ created < MaxLogins
      /\ created' = created + 1 /\ sessions' = sessions \cup {created + 1}
      /\ form' = [form EXCEPT !.state = "loggedin", !.session = created + 1]
      /\ UNCHANGED <<ended, access, refresh, emptied, auth, reason, logout, call,
                     renewal, link>>
  BY DEF SessionInv, ServeLogin, cookies, status
<1>2. created \in Nat /\ created' \in 0..MaxLogins /\ created <= created'
  BY <1>1, SessionAssumption DEF ShapeInv
<1>3. /\ CallSet \subseteq CallSet' /\ RenewalSet \subseteq RenewalSet'
      /\ AccessSet \subseteq AccessSet' /\ ReasonSet \subseteq ReasonSet'
  BY <1>1, <1>2, SetsGrow
<1>4. form # Idle
  BY <1>1, IdleState
<1>5. form' \in FormSet' /\ form'.state = "loggedin"
  <2>1. form' = [state |-> "loggedin", tab |-> form.tab, session |-> created + 1]
    BY <1>1, <1>4, FormCases
  <2>2. form.tab \in Tabs
    BY <1>1, <1>4, FormCases
  <2>3. created + 1 \in 0..created' /\ created + 1 # None
    BY <1>1, <1>2 DEF None
  <2> QED BY <2>1, <2>2, <2>3 DEF FormSet
<1>6. ShapeInv'
  <2>1. sessions' \cup ended' = 1..created' /\ sessions' \cap ended' = {}
    <3>1. sessions \cup ended = 1..created /\ sessions \cap ended = {}
      BY <1>1 DEF ShapeInv
    <3>2. /\ created + 1 \notin 1..created
          /\ 1..(created + 1) = 1..created \cup {created + 1}
      BY <1>2
    <3> QED BY <1>1, <3>1, <3>2, Zenon
  <2>2. /\ access' \in AccessSet' /\ refresh' \in 0..created'
        /\ call' \in [Tabs -> [Calls -> CallSet']]
        /\ renewal' \in [Tabs -> [Refreshes -> RenewalSet']]
        /\ reason' \in [Tabs -> ReasonSet']
    BY <1>1, <1>2, <1>3 DEF ShapeInv
  <2> QED BY <1>1, <1>2, <1>5, <2>1, <2>2 DEF ShapeInv
<1>7. GlobalInv'
  BY <1>1, <1>2, <1>5 DEF GlobalInv, NeverLoggedIn, LogoutIsFinal
<1> QED BY <1>1, <1>6, <1>7, QuietTabs DEF NeverLoggedIn

LEMMA LoggedInStep ==
    ASSUME SessionInv, LoggedIn
    PROVE  SessionInv'
<1>0. PICK t \in Tabs : t = form.tab
  BY FormCases, IdleState DEF SessionInv, LoggedIn
<1>1. /\ ShapeInv /\ GlobalInv /\ TabInv(t) /\ form.state = "loggedin"
      /\ access' = [session |-> form.session, valid |-> TRUE]
      /\ refresh' = form.session /\ emptied' = None /\ form' = Idle /\ Enter(t)
      /\ logout' = IF logout = "confirmed" THEN "none" ELSE logout
      /\ UNCHANGED <<table, call, renewal>>
  BY <1>0 DEF SessionInv, LoggedIn
<1>2. form # Idle
  BY <1>1, IdleState
<1>3. form.session \in 0..created /\ form.session # None
  BY <1>1, <1>2, FormCases
<1>4. form.session \in 1..created
  BY <1>1, <1>3, SessionAssumption DEF ShapeInv, None
<1>5. ~ NeverLoggedIn'
  BY <1>1, <1>3 DEF NeverLoggedIn
<1>6. Idle \in FormSet /\ access' \in AccessSet /\ refresh' \in 0..created
  BY <1>1, <1>3, <1>4 DEF FormSet, AccessSet
<1>7. ShapeInv'
  BY <1>1, <1>6, EnterFits, TableKept DEF ShapeInv
<1>8. GlobalInv'
  BY <1>1, <1>5, TableKept, IdleState DEF GlobalInv, LogoutIsFinal
<1>9. TabInv(t)'
  BY <1>1, <1>5 DEF TabInv
<1>10. \A u \in Tabs \ {t} : auth'[u] = auth[u]
  BY <1>1, EnterFits
<1> QED BY <1>1, <1>5, <1>7, <1>8, <1>9, <1>10, TabStep

\* Sessions end: those that were found to be gone stay gone.
LEMMA EndFits ==
    ASSUME SessionInv, NEW S, S \subseteq sessions, End(S)
    PROVE  /\ created' = created /\ sessions' \subseteq sessions
           /\ ended \subseteq ended' /\ ended' = ended \cup S
           /\ sessions' \cup ended' = 1..created /\ sessions' \cap ended' = {}
           /\ CallSet \subseteq CallSet' /\ RenewalSet \subseteq RenewalSet'
           /\ FormSet \subseteq FormSet' /\ AccessSet \subseteq AccessSet'
           /\ ReasonSet \subseteq ReasonSet'
<1>1. ShapeInv /\ created \in Nat
  BY SessionAssumption DEF SessionInv, ShapeInv
<1>2. created' = created /\ ended \subseteq ended' /\ ended' = ended \cup S
  BY DEF End
<1> QED BY <1>1, <1>2, SetsGrow DEF End, ShapeInv

\* What the end of a session leaves alone keeps its shape.
LEMMA EndKeeps ==
    ASSUME SessionInv, NEW S, S \subseteq sessions, End(S), form' \in FormSet',
           UNCHANGED <<access, refresh, emptied, auth, reason, call, renewal, link>>
    PROVE  ShapeInv'
<1>1. /\ ShapeInv /\ created' = created /\ ended \subseteq ended'
      /\ sessions' \cup ended' = 1..created /\ sessions' \cap ended' = {}
      /\ CallSet \subseteq CallSet' /\ RenewalSet \subseteq RenewalSet'
      /\ AccessSet \subseteq AccessSet' /\ ReasonSet \subseteq ReasonSet'
  BY EndFits DEF SessionInv
<1>2. /\ access' \in AccessSet' /\ call' \in [Tabs -> [Calls -> CallSet']]
      /\ renewal' \in [Tabs -> [Refreshes -> RenewalSet']]
      /\ reason' \in [Tabs -> ReasonSet']
      /\ emptied' = None \/ emptied' \in ended'
  BY <1>1 DEF ShapeInv
<1> QED BY <1>1, <1>2 DEF ShapeInv

LEMMA ServeLogoutStep ==
    ASSUME SessionInv, ServeLogout
    PROVE  SessionInv'
<1> DEFINE S == sessions \cap {form.session}
<1>1. /\ ShapeInv /\ GlobalInv /\ form.state = "logout" /\ End(S) /\ S \subseteq sessions
      /\ form' = [form EXCEPT !.state = "loggedout"]
      /\ UNCHANGED <<access, refresh, emptied, auth, reason, logout, call, renewal, link>>
  BY DEF SessionInv, ServeLogout, cookies, status
<1>2. form # Idle
  BY <1>1, IdleState
<1>3. form.session = None \/ form.session \in ended'
  <2>1. CASE form.session \in sessions
    BY <2>1, <1>1 DEF End
  <2>2. CASE form.session # None /\ form.session \notin sessions
    BY <1>1, <1>2, <2>2, FormCases, GoneHasEnded DEF End
  <2> QED BY <2>1, <2>2
<1> HIDE DEF S
<1>4. form' \in FormSet' /\ form'.session = form.session
  <2>1. form' = [state |-> "loggedout", tab |-> form.tab, session |-> form.session]
    BY <1>1, <1>2, FormCases
  <2>2. form.tab \in Tabs /\ form.session \in 0..created
    BY <1>1, <1>2, FormCases
  <2>3. created' = created
    BY <1>1, EndFits
  <2> QED BY <1>3, <2>1, <2>2, <2>3 DEF FormSet
<1>5. ShapeInv'
  BY <1>1, <1>4, EndKeeps
<1>6. created' = created /\ ended \subseteq ended'
  BY <1>1, EndFits
<1>7. GlobalInv'
  BY <1>1, <1>4, <1>6 DEF GlobalInv, NeverLoggedIn, LogoutIsFinal
<1> QED BY <1>1, <1>5, <1>7, QuietTabs DEF NeverLoggedIn

\* The logout has emptied the jar of an ended session, unless it was empty.
LEMMA LoggedOutStep ==
    ASSUME SessionInv, LoggedOut
    PROVE  SessionInv'
<1>0. PICK t \in Tabs : t = form.tab
  BY FormCases, IdleState DEF SessionInv, LoggedOut
<1>1. /\ ShapeInv /\ GlobalInv /\ TabInv(t) /\ form.state = "loggedout"
      /\ access' = NoAccess /\ refresh' = None
      /\ emptied' = IF form.session = None THEN emptied ELSE form.session
      /\ form' = Idle /\ Leave(t, NoRefusal)
      /\ logout' = IF logout = "none" THEN "confirmed" ELSE logout
      /\ UNCHANGED <<table, call, renewal>>
  BY <1>0 DEF SessionInv, LoggedOut, ClearCookies
<1>2. form # Idle
  BY <1>1, IdleState
<1>3. emptied' # None /\ emptied' \in ended
  <2>1. form.session = None \/ form.session \in ended
    BY <1>1, <1>2, FormCases
  <2>2. form.session = None => emptied # None
    BY <1>1 DEF GlobalInv
  <2> QED BY <1>1, <2>1, <2>2 DEF ShapeInv
<1>4. ~ NeverLoggedIn'
  BY <1>3 DEF NeverLoggedIn
<1>5. Idle \in FormSet /\ NoAccess \in AccessSet /\ None \in 0..created
  BY <1>1, SessionAssumption DEF FormSet, AccessSet, None, ShapeInv
<1>6. /\ auth' \in [Tabs -> {"loading", "in", "out"}]
      /\ reason' \in [Tabs -> ReasonSet]
      /\ link' \in [Tabs -> {"open", "authenticating", "closed"}]
      /\ \A u \in Tabs : auth'[u] = "in" <=> link'[u] # "closed"
      /\ \A u \in Tabs \ {t} : auth'[u] = auth[u]
  BY <1>1, NoRefusalFits, LeaveFits
<1>7. ShapeInv'
  BY <1>1, <1>3, <1>5, <1>6, TableKept DEF ShapeInv
<1>8. GlobalInv'
  BY <1>1, <1>3, <1>4, TableKept, IdleState DEF GlobalInv, LogoutIsFinal
<1>9. TabInv(t)'
  BY <1>1, <1>4 DEF TabInv
<1> QED BY <1>1, <1>4, <1>6, <1>7, <1>8, <1>9, TabStep

LEMMA FormFailsStep ==
    ASSUME SessionInv, FormFails
    PROVE  SessionInv'
<1>1. /\ ShapeInv /\ GlobalInv /\ form' = Idle
      /\ UNCHANGED <<table, access, refresh, emptied, auth, reason, logout, call,
                     renewal, link>>
  BY DEF SessionInv, FormFails, cookies, status
<1>2. Idle \in FormSet
  BY DEF FormSet
<1>3. ShapeInv'
  BY <1>1, <1>2, TableKept DEF ShapeInv
<1>4. GlobalInv'
  BY <1>1, TableKept, IdleState DEF GlobalInv, NeverLoggedIn, LogoutIsFinal
<1> QED BY <1>1, <1>3, <1>4, QuietTabs DEF NeverLoggedIn

LEMMA EndElsewhereStep ==
    ASSUME SessionInv, EndElsewhere
    PROVE  SessionInv'
<1>1. /\ ShapeInv /\ GlobalInv /\ End(sessions)
      /\ UNCHANGED <<access, refresh, emptied, auth, reason, logout, call, renewal, form,
                     link>>
  BY DEF SessionInv, EndElsewhere, cookies, status
<1>2. created' = created /\ ended \subseteq ended' /\ FormSet \subseteq FormSet'
  BY <1>1, EndFits
<1>3. ShapeInv'
  <2>1. form' \in FormSet'
    BY <1>1, <1>2 DEF ShapeInv
  <2> QED BY <1>1, <2>1, EndKeeps
<1>4. GlobalInv'
  BY <1>1, <1>2 DEF GlobalInv, NeverLoggedIn, LogoutIsFinal
<1> QED BY <1>1, <1>3, <1>4, QuietTabs DEF NeverLoggedIn

LEMMA ExpiryStep ==
    ASSUME SessionInv, TokenExpires \/ CookieExpires
    PROVE  SessionInv'
<1>1. /\ ShapeInv /\ GlobalInv /\ access # NoAccess
      /\ UNCHANGED <<table, refresh, emptied, auth, reason, logout, call, renewal, form,
                     link>>
  BY DEF SessionInv, TokenExpires, CookieExpires, NoAccess, status
<1>2. access' \in AccessSet
  BY <1>1 DEF ShapeInv, AccessSet, NoAccess, TokenExpires, CookieExpires
<1>3. ShapeInv'
  BY <1>1, <1>2, TableKept DEF ShapeInv
<1>4. GlobalInv'
  BY <1>1, TableKept DEF GlobalInv, NeverLoggedIn, LogoutIsFinal
<1> QED BY <1>1, <1>3, <1>4, QuietTabs DEF NeverLoggedIn

-----------------------------------------------------------------------------
(* The socket. *)

LEMMA ReauthenticateStep ==
    ASSUME SessionInv, NEW t \in Tabs, Reauthenticate(t)
    PROVE  SessionInv'
<1>1. /\ ShapeInv /\ GlobalInv /\ TabInv(t) /\ link[t] = "open"
      /\ call' = [call EXCEPT ![t]["me"] = Sent(access, FALSE)]
      /\ link' = [link EXCEPT ![t] = "authenticating"]
      /\ UNCHANGED <<table, access, refresh, emptied, auth, reason, logout, renewal, form>>
  BY DEF SessionInv, Reauthenticate, cookies, status
<1>2. auth[t] = "in"
  BY <1>1 DEF ShapeInv
<1>3. Sent(access, FALSE) \in CallSet /\ Sent(access, FALSE).state = "sent"
  BY <1>1, SentFits
<1>4. /\ call' \in [Tabs -> [Calls -> CallSet]]
      /\ call'[t]["me"] = Sent(access, FALSE) /\ call'[t]["ui"] = call[t]["ui"]
      /\ \A u \in Tabs \ {t} : call'[u] = call[u]
  BY <1>1, <1>3, OneCall DEF Calls
<1>5. /\ link' \in [Tabs -> {"open", "authenticating", "closed"}]
      /\ \A u \in Tabs : auth[u] = "in" <=> link'[u] # "closed"
  BY <1>1 DEF ShapeInv
<1>6. ShapeInv'
  BY <1>1, <1>4, <1>5, TableKept DEF ShapeInv
<1>7. GlobalInv'
  BY <1>1, TableKept DEF GlobalInv, NeverLoggedIn, LogoutIsFinal
<1>8. TabInv(t)'
  BY <1>1, <1>2, <1>3, <1>4 DEF TabInv, NeverLoggedIn, Calls
<1> QED BY <1>1, <1>4, <1>6, <1>7, <1>8, TabStep DEF NeverLoggedIn

LEMMA HandshakeRefusedStep ==
    ASSUME SessionInv, NEW t \in Tabs, HandshakeRefused(t)
    PROVE  SessionInv'
<1>1. /\ ShapeInv /\ GlobalInv /\ TabInv(t) /\ link[t] = "open"
      /\ UNCHANGED <<table, access, refresh, emptied, logout, call, renewal, form>>
  BY DEF SessionInv, HandshakeRefused, cookies
<1>2. PICK why \in ReasonSet : Leave(t, why)
  <2>1. NoRefusal \in ReasonSet
    BY <1>1, NoRefusalFits
  <2>2. CASE Leave(t, NoRefusal)
    BY <2>1, <2>2
  <2>3. CASE /\ "AUTH_INVALID" \in Handshake /\ access.session \notin sessions
             /\ Leave(t, Refusal(access.session))
    <3>1. access # NoAccess
      BY <2>3 DEF Handshake
    <3>2. access.session \in 0..created /\ auth[t] = "in"
      BY <1>1, <3>1, SessionAssumption DEF ShapeInv, AccessSet
    <3> QED BY <2>3, <3>2, RefusalFits
  <2> QED BY <2>2, <2>3 DEF HandshakeRefused
<1>3. /\ auth' \in [Tabs -> {"loading", "in", "out"}] /\ auth'[t] = "out"
      /\ reason' \in [Tabs -> ReasonSet]
      /\ link' \in [Tabs -> {"open", "authenticating", "closed"}]
      /\ \A u \in Tabs : auth'[u] = "in" <=> link'[u] # "closed"
      /\ \A u \in Tabs \ {t} : auth'[u] = auth[u]
  BY <1>1, <1>2, LeaveFits
<1>4. ShapeInv'
  BY <1>1, <1>3, TableKept DEF ShapeInv
<1>5. GlobalInv'
  BY <1>1, TableKept DEF GlobalInv, NeverLoggedIn, LogoutIsFinal
<1>6. TabInv(t)'
  BY <1>1, <1>3 DEF TabInv, NeverLoggedIn
<1> QED BY <1>1, <1>3, <1>4, <1>5, <1>6, TabStep DEF NeverLoggedIn

-----------------------------------------------------------------------------
LEMMA SessionStutter == SessionInv /\ UNCHANGED vars => SessionInv'
BY DEF SessionInv, ShapeInv, GlobalInv, TabInv, NeverLoggedIn, LogoutIsFinal, vars,
       table, cookies, status, CallSet, RenewalSet, FormSet, AccessSet, ReasonSet

LEMMA SessionInvariant == Spec => []SessionInv
<1>1. SessionInv /\ [Next]_vars => SessionInv'
  <2> SUFFICES ASSUME SessionInv, [Next]_vars PROVE SessionInv'
    OBVIOUS
  <2>1. ASSUME NEW t \in Tabs, NEW k \in Calls, CallStep(t, k) \/ CallFails(t, k)
        PROVE  SessionInv'
    BY <2>1, SucceedStep, DeniedStep, DeniedAgainStep, CallFailsStep DEF CallStep
  <2>2. ASSUME NEW t \in Tabs, NEW r \in Refreshes, RefreshStep(t, r) \/ RefreshFails(t, r)
        PROVE  SessionInv'
    BY <2>2, ServeRefreshStep, RenewedStep, RejectedStep, RefreshFailsStep
       DEF RefreshStep
  <2> QED BY <2>1, <2>2, OpenStep, RequestStep, LoginStep, LogoutStep,
             ReauthenticateStep, HandshakeRefusedStep, ServeLoginStep, LoggedInStep,
             ServeLogoutStep, LoggedOutStep, FormFailsStep, EndElsewhereStep,
             ExpiryStep, SessionStutter DEF Next
<1> QED BY SessionInit, <1>1, PTL DEF Spec

\* Every variable keeps its type: calls, refreshes and forms carry nothing but
\* sessions of the user, and the socket is up in a tab that is logged in.
THEOREM SessionTypeCorrect == Spec => []TypeOK
<1>1. ASSUME SessionInv PROVE TypeOK
  <2>1. ShapeInv /\ 0..created \subseteq Sessions \cup {None} /\ 1..created \subseteq Sessions
    BY <1>1, SessionAssumption DEF SessionInv, ShapeInv, Sessions, None
  <2>2. CallSet \subseteq {Idle} \cup [state : {"waiting"}]
          \cup [state : {"sent"}, retried : BOOLEAN, session : Sessions \cup {None}]
    BY <2>1 DEF CallSet
  <2>3. RenewalSet \subseteq
          {Idle} \cup [state : {"sent", "renewed", "rejected"},
                       session : Sessions \cup {None}]
    BY <2>1 DEF RenewalSet
  <2>4. FormSet \subseteq
          {Idle} \cup [state : {"login", "loggedin", "logout", "loggedout"},
                       tab : Tabs, session : Sessions \cup {None}]
    BY <2>1 DEF FormSet
  <2>5. /\ AccessSet \subseteq Accesses
        /\ ReasonSet \subseteq [refusal : {"none", "current", "outdated"},
                                session : Sessions \cup {None}]
    BY <2>1 DEF AccessSet, Accesses, ReasonSet
  <2>6. /\ sessions \subseteq Sessions /\ ended \subseteq Sessions
        /\ refresh \in Sessions \cup {None} /\ emptied \in Sessions \cup {None}
        /\ access \in Accesses
    BY <2>1, <2>5 DEF ShapeInv
  <2>7. /\ call \in [Tabs -> [Calls -> {Idle} \cup [state : {"waiting"}]
             \cup [state : {"sent"}, retried : BOOLEAN, session : Sessions \cup {None}]]]
        /\ renewal \in [Tabs -> [Refreshes ->
             {Idle} \cup [state : {"sent", "renewed", "rejected"},
                          session : Sessions \cup {None}]]]
        /\ reason \in [Tabs -> [refusal : {"none", "current", "outdated"},
                                session : Sessions \cup {None}]]
    BY <2>1, <2>2, <2>3, <2>5 DEF ShapeInv
  <2> QED BY <1>1, <2>1, <2>4, <2>6, <2>7 DEF SessionInv, ShapeInv, GlobalInv, TypeOK
<1> QED BY <1>1, SessionInvariant, PTL

\* No call waits for a refresh that is not under way.
THEOREM NobodyWaitsForNothing == Spec => []NoOrphanWaiter
<1>1. SessionInv => NoOrphanWaiter
  BY DEF SessionInv, TabInv, NoOrphanWaiter, Waiting
<1> QED BY <1>1, SessionInvariant, PTL

\* A refusal that ends a login, unless it is outdated, is that of a session which
\* has ended: of the session whose token was refused or, when no token was sent,
\* of the one whose end has emptied the cookie jar.
THEOREM RefusedSessionsHaveEnded == Spec => []OnlyEndedSessionsLogOut
<1>1. ASSUME SessionInv, NEW t \in Tabs, reason[t].refusal = "current"
      PROVE  reason[t].session \in ended
  <2>1. reason[t] \in ReasonSet
    BY <1>1 DEF SessionInv, ShapeInv
  <2> QED BY <1>1, <2>1 DEF ReasonSet
<1>2. SessionInv => OnlyEndedSessionsLogOut
  BY <1>1 DEF OnlyEndedSessionsLogOut
<1> QED BY <1>2, SessionInvariant, PTL

\* After the confirmed logout of the only session nothing is granted.
THEOREM LogoutHolds == Spec => []LogoutIsFinal
<1>1. SessionInv => LogoutIsFinal
  BY DEF SessionInv, GlobalInv
<1> QED BY <1>1, SessionInvariant, PTL
=============================================================================
