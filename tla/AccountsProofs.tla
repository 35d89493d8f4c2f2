--------------------------- MODULE AccountsProofs ---------------------------
(***************************************************************************)
(* Proofs about Accounts: type correctness, the limit of a window, and     *)
(* that racing signups and logins implement Registry, for any requests,    *)
(* addresses, spellings, passwords and limit.                              *)
(***************************************************************************)
EXTENDS Accounts, TLAPS

\* The key of an address that is spelled in its normal form.
Canonical(k) == k[2] \in Emails

AccountsInv ==
    /\ TypeOK
    /\ \A k \in Keys :
         /\ admitted[k] <= Limit
         /\ Canonical(k) => admitted[k] <= count[k]
    /\ \A r \in Requests : At(r, "session") => User(r) \in users

\* Spelling out an address again changes nothing.
LEMMA NormalForm ==
    /\ Emails \subseteq Spellings
    /\ \A e \in Emails : Normal[e] = e
    /\ \A s \in Spellings : Normal[s] \in Emails
BY AccountsAssumption DEF Emails

\* What a request at work carries.
LEMMA FormOfRequest ==
    ASSUME TypeOK, NEW r \in Requests, ~ At(r, "idle")
    PROVE  /\ request[r] \in [step : Steps, form : Forms]
           /\ request[r].form.route \in Routes
           /\ request[r].form.password \in Passwords
           /\ Address(r) \in Emails
           /\ RouteAndAddress(r) \in Keys
           /\ Canonical(RouteAndAddress(r))
           /\ User(r) \in [email : Emails, password : Passwords]
<1>1. request[r] \in [step : Steps, form : Forms]
  BY DEF TypeOK, At, Idle
<1>2. request[r].form \in Forms
  BY <1>1
<1>3. /\ request[r].form.route \in Routes
      /\ request[r].form.email \in Spellings
      /\ request[r].form.password \in Passwords
  BY <1>2 DEF Forms
<1>4. Address(r) \in Emails
  BY <1>3, NormalForm DEF Address
<1>5. RouteAndAddress(r) \in Keys /\ Canonical(RouteAndAddress(r))
  BY <1>3, <1>4, NormalForm DEF RouteAndAddress, Key, Keys, Canonical
<1>6. User(r) \in [email : Emails, password : Passwords]
  BY <1>3, <1>4 DEF User
<1> QED BY <1>1, <1>3, <1>4, <1>5, <1>6

LEMMA InitAccounts == Init => AccountsInv
<1> SUFFICES ASSUME Init PROVE AccountsInv
  OBVIOUS
<1> USE AccountsAssumption
<1>1. TypeOK
  BY DEF Init, TypeOK
<1>2. \A r \in Requests : ~ At(r, "session")
  BY DEF Init, At, Idle
<1> QED BY <1>1, <1>2 DEF Init, AccountsInv

\* The next state of a request is one of its kind.
LEMMA NextPosition ==
    ASSUME TypeOK, NEW r \in Requests, ~ At(r, "idle"),
           Answer(r) \/ \E s \in Steps : Goto(r, s)
    PROVE  /\ request' \in [Requests -> {Idle} \cup [step : Steps, form : Forms]]
           /\ \A o \in Requests \ {r} : request'[o] = request[o]
           /\ \A s \in Steps : Goto(r, s) =>
                request'[r].step = s /\ request'[r].form = request[r].form
           /\ Answer(r) => request'[r].step = "idle"
<1>1. request[r] \in [step : Steps, form : Forms]
  BY FormOfRequest
<1>2. \A s \in Steps :
        [request[r] EXCEPT !.step = s] = [step |-> s, form |-> request[r].form]
  BY <1>1
<1>3. \A s \in Steps : [step |-> s, form |-> request[r].form]
                         \in [step : Steps, form : Forms]
  BY <1>1
<1>4. \A s \in Steps : Goto(r, s) =>
        request' = [request EXCEPT ![r] = [step |-> s, form |-> request[r].form]]
  BY <1>2 DEF Goto
<1>5. \A s \in Steps : Goto(r, s) =>
        request'[r].step = s /\ request'[r].form = request[r].form
  BY <1>4 DEF TypeOK
<1>6. Answer(r) => request'[r].step = "idle"
  BY DEF Answer, Idle, TypeOK
<1> QED BY <1>3, <1>4, <1>5, <1>6 DEF Answer, TypeOK

\* The counter of k goes up by one, or stays above the limit.
LEMMA CounterType ==
    ASSUME TypeOK, NEW k \in Keys, Increment(k)
    PROVE  /\ count' \in [Keys -> 0 .. Limit + 1]
           /\ expiring' \subseteq Keys
           /\ \A j \in Keys : count[j] <= count'[j]
           /\ count'[k] <= Limit => count'[k] = count[k] + 1
BY AccountsAssumption DEF Increment, TypeOK

-----------------------------------------------------------------------------
(* Steps that leave the limiter alone, and steps that leave the users. *)

LEMMA LimiterQuiet ==
    ASSUME AccountsInv, TypeOK', UNCHANGED limiter,
           \A r \in Requests : At(r, "session")' => (User(r) \in users)'
    PROVE  AccountsInv'
BY DEF AccountsInv, limiter

\* A request moves, users only come, and no request but one that has its
\* account gets to its session.
LEMMA SessionsHaveUsers ==
    ASSUME AccountsInv, NEW r \in Requests, users \subseteq users',
           \A o \in Requests \ {r} : request'[o] = request[o],
           At(r, "session")' => (User(r) \in users)'
    PROVE  \A o \in Requests : At(o, "session")' => (User(o) \in users)'
BY DEF AccountsInv, At, User, Address

LEMMA SubmitStep ==
    ASSUME AccountsInv, NEW r \in Requests, NEW f \in Forms, Submit(r, f)
    PROVE  AccountsInv'
<1>1. [step |-> "limit", form |-> f] \in [step : Steps, form : Forms]
  BY DEF Steps
<1>2. request' \in [Requests -> {Idle} \cup [step : Steps, form : Forms]]
  BY <1>1 DEF Submit, AccountsInv, TypeOK
<1>3. TypeOK'
  BY <1>2 DEF Submit, AccountsInv, TypeOK, limiter
<1>4. /\ \A o \in Requests \ {r} : request'[o] = request[o]
      /\ request'[r].step = "limit"
  BY DEF Submit, AccountsInv, TypeOK
<1>5. \A o \in Requests : At(o, "session")' => (User(o) \in users)'
  BY <1>4, SessionsHaveUsers DEF Submit, At
<1> QED BY <1>3, <1>5, LimiterQuiet DEF Submit

LEMMA RateLimitStep ==
    ASSUME AccountsInv, NEW r \in Requests, RateLimit(r)
    PROVE  AccountsInv'
<1> DEFINE k == RouteAndAddress(r)
<1>1. TypeOK /\ ~ At(r, "idle")
  BY DEF AccountsInv, RateLimit, At
<1>2. k \in Keys /\ Canonical(k)
  BY <1>1, FormOfRequest
<1>3. Increment(k) /\ At(r, "limit") /\ users' = users
  BY DEF RateLimit, LimitKey
<1>4. Answer(r) \/ Goto(r, "find")
  BY DEF RateLimit
<1>5. \/ admitted' = admitted
      \/ count'[k] <= Limit /\ admitted' = [admitted EXCEPT ![k] = @ + 1]
  <2>1. count'[k] \in 0 .. Limit + 1
    BY <1>1, <1>2, <1>3, CounterType
  <2> QED BY <2>1, AccountsAssumption DEF RateLimit, LimitKey
<1>6. admitted' \in [Keys -> Nat]
  BY <1>1, <1>2, <1>5 DEF TypeOK
<1>7. TypeOK'
  BY <1>1, <1>2, <1>3, <1>4, <1>6, NextPosition, CounterType
     DEF TypeOK, Steps
<1>8. \A j \in Keys : /\ admitted'[j] <= Limit
                      /\ Canonical(j) => admitted'[j] <= count'[j]
  <2> TAKE j \in Keys
  <2>1. /\ count[j] \in 0 .. Limit + 1 /\ count'[j] \in 0 .. Limit + 1
        /\ count[j] <= count'[j]
        /\ count'[k] <= Limit => count'[k] = count[k] + 1
    BY <1>1, <1>2, <1>3, CounterType DEF TypeOK
  <2>2. /\ admitted[j] \in Nat /\ admitted[j] <= Limit
        /\ Canonical(j) => admitted[j] <= count[j]
    BY <1>1 DEF AccountsInv, TypeOK
  <2>3. CASE admitted'[j] = admitted[j]
    BY <2>1, <2>2, <2>3, AccountsAssumption
  <2>4. CASE j = k /\ count'[k] <= Limit /\ admitted'[j] = admitted[j] + 1
    BY <1>2, <2>1, <2>2, <2>4, AccountsAssumption
  <2> QED BY <1>1, <1>2, <1>5, <2>3, <2>4 DEF TypeOK
<1>9. \A o \in Requests : At(o, "session")' => (User(o) \in users)'
  <2>1. ~ At(r, "session")'
    BY <1>1, <1>4, NextPosition DEF At, Steps
  <2> QED BY <1>1, <1>3, <1>4, <2>1, NextPosition, SessionsHaveUsers DEF Steps
<1> QED BY <1>7, <1>8, <1>9 DEF AccountsInv

LEMMA LimiterFailsStep ==
    ASSUME AccountsInv, NEW r \in Requests, LimiterFails(r)
    PROVE  AccountsInv'
<1>1. TypeOK /\ ~ At(r, "idle") /\ Answer(r) /\ users' = users /\ admitted' = admitted
  BY DEF AccountsInv, LimiterFails, At
<1>2. RouteAndAddress(r) \in Keys
  BY <1>1, FormOfRequest
<1>3. /\ count' \in [Keys -> 0 .. Limit + 1] /\ expiring' \subseteq Keys
      /\ \A j \in Keys : count[j] <= count'[j]
  <2>1. CASE Increment(RouteAndAddress(r))
    BY <1>1, <1>2, <2>1, CounterType
  <2>2. CASE UNCHANGED <<count, expiring>>
    BY <1>1, <2>2, AccountsAssumption DEF TypeOK
  <2> QED BY <2>1, <2>2 DEF LimiterFails, LimitKey
<1>4. TypeOK'
  BY <1>1, <1>3, NextPosition DEF TypeOK
<1>5. \A j \in Keys : /\ admitted'[j] <= Limit
                      /\ Canonical(j) => admitted'[j] <= count'[j]
  <2> TAKE j \in Keys
  <2>1. /\ admitted[j] \in Nat /\ admitted[j] <= Limit
        /\ Canonical(j) => admitted[j] <= count[j]
        /\ count[j] \in 0 .. Limit + 1 /\ count'[j] \in 0 .. Limit + 1
    BY <1>1, <1>3 DEF AccountsInv, TypeOK
  <2> QED BY <1>1, <1>3, <2>1, AccountsAssumption
<1>6. \A o \in Requests : At(o, "session")' => (User(o) \in users)'
  <2>1. ~ At(r, "session")'
    BY <1>1, NextPosition DEF At
  <2> QED BY <1>1, <2>1, NextPosition, SessionsHaveUsers
<1> QED BY <1>4, <1>5, <1>6 DEF AccountsInv

LEMMA WindowEndsStep ==
    ASSUME AccountsInv, NEW k \in Keys, WindowEnds(k)
    PROVE  AccountsInv'
<1> USE AccountsAssumption
<1>1. TypeOK /\ UNCHANGED <<users, request>>
  BY DEF AccountsInv, WindowEnds
<1> DEFINE c == Key(k[1], Normal[k[2]])
<1>2. c \in Keys /\ (Canonical(k) => c = k)
  BY NormalForm DEF Keys, Key, Canonical
<1>3. /\ count' = [count EXCEPT ![k] = 0]
      /\ admitted' = [admitted EXCEPT ![c] = 0]
      /\ expiring' = expiring \ {k}
  BY DEF WindowEnds
<1>4. TypeOK'
  BY <1>1, <1>2, <1>3 DEF TypeOK
<1>5. \A j \in Keys : /\ admitted'[j] <= Limit
                      /\ Canonical(j) => admitted'[j] <= count'[j]
  <2> TAKE j \in Keys
  <2>1. /\ admitted[j] \in Nat /\ admitted[j] <= Limit
        /\ Canonical(j) => admitted[j] <= count[j]
        /\ count[j] \in 0 .. Limit + 1
    BY <1>1 DEF AccountsInv, TypeOK
  <2>2. /\ admitted'[j] = IF j = c THEN 0 ELSE admitted[j]
        /\ count'[j] = IF j = k THEN 0 ELSE count[j]
    BY <1>1, <1>3 DEF TypeOK
  <2> QED BY <1>2, <2>1, <2>2
<1>6. \A o \in Requests : At(o, "session")' => (User(o) \in users)'
  BY <1>1 DEF AccountsInv, At, User, Address
<1> QED BY <1>4, <1>5, <1>6 DEF AccountsInv

\* Past the limiter: the request moves on, or a new user is stored.
LEMMA ServiceStep ==
    ASSUME AccountsInv, NEW r \in Requests,
           \/ FindByEmail(r) \/ CreateUser(r) \/ ComparePassword(r)
           \/ SetAuthCookies(r) \/ RequestFails(r)
    PROVE  AccountsInv'
<1>1. TypeOK /\ ~ At(r, "idle") /\ UNCHANGED limiter
  BY DEF AccountsInv, At, FindByEmail, CreateUser, ComparePassword,
         SetAuthCookies, RequestFails
<1>2. User(r) \in [email : Emails, password : Passwords]
  BY <1>1, FormOfRequest
<1>3. Answer(r) \/ \E s \in Steps : Goto(r, s)
  BY DEF FindByEmail, CreateUser, ComparePassword, SetAuthCookies, RequestFails, Steps
<1>4. users' \in {users, users \cup {User(r)}}
  BY DEF FindByEmail, CreateUser, ComparePassword, SetAuthCookies, RequestFails
<1>5. users' \subseteq [email : Emails, password : Passwords]
  BY <1>1, <1>2, <1>4 DEF TypeOK
<1>6. TypeOK'
  BY <1>1, <1>3, <1>5, NextPosition DEF TypeOK, limiter
<1>7. At(r, "session")' => (User(r) \in users)'
  <2>1. CASE Answer(r)
    BY <1>1, <1>3, <2>1, NextPosition DEF At
  <2>2. ASSUME NEW s \in Steps, Goto(r, s), s # "session"
        PROVE  ~ At(r, "session")'
    BY <1>1, <1>3, <2>2, NextPosition DEF At
  <2>3. CASE Goto(r, "session") /\ User(r) \in users'
    <3>1. request'[r].form = request[r].form
      BY <1>1, <1>3, <2>3, NextPosition DEF Steps
    <3>2. User(r)' = User(r)
      BY <3>1 DEF User, Address
    <3> QED BY <2>3, <3>2
  <2>4. \/ Answer(r)
        \/ \E s \in Steps \ {"session"} : Goto(r, s)
        \/ Goto(r, "session") /\ User(r) \in users'
    BY DEF FindByEmail, CreateUser, ComparePassword, SetAuthCookies,
           RequestFails, Steps
  <2> QED BY <2>1, <2>2, <2>3, <2>4
<1>8. \A o \in Requests : At(o, "session")' => (User(o) \in users)'
  BY <1>1, <1>3, <1>4, <1>7, NextPosition, SessionsHaveUsers
<1> QED BY <1>1, <1>6, <1>8, LimiterQuiet

LEMMA StutterAccounts == AccountsInv /\ UNCHANGED vars => AccountsInv'
BY DEF AccountsInv, TypeOK, vars, limiter, At, User, Address

LEMMA AccountsInvariant == Spec => []AccountsInv
<1>1. AccountsInv /\ [Next]_vars => AccountsInv'
  BY SubmitStep, RateLimitStep, LimiterFailsStep, WindowEndsStep, ServiceStep,
     StutterAccounts DEF Next, Handle
<1> QED BY InitAccounts, <1>1, PTL DEF Spec

-----------------------------------------------------------------------------
\* Every variable keeps its type.
THEOREM AccountsTypeCorrect == Spec => []TypeOK
<1>1. AccountsInv => TypeOK
  BY DEF AccountsInv
<1> QED BY <1>1, AccountsInvariant, PTL

\* No more than Limit requests of a window get past the limiter, however the
\* address is spelled.
THEOREM WindowKeepsLimit == Spec => []LimitPerWindow
<1>1. AccountsInv => LimitPerWindow
  BY DEF AccountsInv, LimitPerWindow
<1> QED BY <1>1, AccountsInvariant, PTL

\* Racing signups for one address make one account for one of them, everybody
\* else is refused, and sessions are opened with the password of the account.
THEOREM AccountsImplementRegistry == Spec => ImplementsRegistry
<1>1. Init => R!Init
  BY DEF Init, R!Init, Account
<1>2. ASSUME AccountsInv, NEW r \in Requests, CreateUser(r), ~ Taken(Address(r))
      PROVE  R!Register(Address(r), request[r].form.password)
  <2> DEFINE a == Address(r)  p == request[r].form.password
  <2>1. /\ a \in Emails /\ p \in Passwords
        /\ users \subseteq [email : Emails, password : Passwords]
    BY <1>2, FormOfRequest DEF AccountsInv, TypeOK, CreateUser, At
  <2>2. Account[a] = {}
    BY <1>2, <2>1 DEF Account, Taken
  <2>3. users' = users \cup {[email |-> a, password |-> p]}
    BY <1>2 DEF CreateUser, User
  <2>4. ASSUME NEW e \in Emails
        PROVE  Account'[e] = IF e = a THEN {p} ELSE Account[e]
    <3>1. CASE e = a
      <4>1. {v \in users' : v.email = a} = {[email |-> a, password |-> p]}
        BY <1>2, <2>1, <2>3 DEF Taken
      <4>2. {u.password : u \in {[email |-> a, password |-> p]}} = {p}
        OBVIOUS
      <4>3. Account'[a] = {u.password : u \in {v \in users' : v.email = a}}
        BY <2>1 DEF Account
      <4> HIDE DEF a, p
      <4> QED BY <3>1, <4>1, <4>2, <4>3
    <3>2. CASE e # a
      <4>1. {v \in users' : v.email = e} = {v \in users : v.email = e}
        BY <2>3, <3>2
      <4> QED BY <3>2, <4>1 DEF Account
    <3> QED BY <3>1, <3>2
  <2>5. Account' = [Account EXCEPT ![a] = {p}]
    BY <2>1, <2>4 DEF Account
  <2> QED BY <1>2, <2>1, <2>2, <2>5 DEF R!Register, CreateUser
<1>3. ASSUME AccountsInv, NEW r \in Requests,
             refused' = refused \cup {Address(r)}, Taken(Address(r)),
             UNCHANGED <<users, confirmed, opened>>
      PROVE  R!Refuse(Address(r))
  <2>1. Account' = Account
    BY <1>3 DEF Account
  <2>2. PICK u \in users : u.email = Address(r)
    BY <1>3 DEF Taken
  <2>3. Address(r) \in Emails
    BY <1>3, <2>2 DEF AccountsInv, TypeOK
  <2>4. u.password \in Account[Address(r)]
    BY <2>2, <2>3 DEF Account
  <2> QED BY <1>3, <2>1, <2>4 DEF R!Refuse
<1>4. ASSUME AccountsInv, NEW r \in Requests, SetAuthCookies(r)
      PROVE  R!Open(Address(r), request[r].form.password)
  <2> DEFINE a == Address(r)  p == request[r].form.password
  <2>1. a \in Emails /\ p \in Passwords
    BY <1>4, FormOfRequest DEF AccountsInv, TypeOK, SetAuthCookies, At
  <2>2. [email |-> a, password |-> p] \in users
    BY <1>4 DEF AccountsInv, SetAuthCookies, User
  <2>3. [email |-> a, password |-> p] \in {v \in users : v.email = a}
    BY <2>2
  <2>4. p \in Account[a]
    BY <2>1, <2>3 DEF Account
  <2>5. Account' = Account
    BY <1>4 DEF SetAuthCookies, Account
  <2> QED BY <1>4, <2>4, <2>5 DEF R!Open, SetAuthCookies, Login
<1>5. ASSUME UNCHANGED <<users, history>>
      PROVE  UNCHANGED R!vars
  <2>1. Account' = Account
    BY <1>5 DEF Account
  <2> QED BY <1>5, <2>1 DEF R!vars, history
<1>6. ASSUME AccountsInv, NEW r \in Requests, Handle(r)
      PROVE  \/ UNCHANGED R!vars
             \/ Address(r) \in Emails /\ request[r].form.password \in Passwords
                /\ R!Next
  <2>1. CASE RateLimit(r) \/ LimiterFails(r) \/ ComparePassword(r) \/ RequestFails(r)
    BY <1>5, <2>1 DEF RateLimit, LimiterFails, ComparePassword, RequestFails
  <2>2. CASE FindByEmail(r) \/ CreateUser(r) \/ SetAuthCookies(r)
    <3>1. Address(r) \in Emails /\ request[r].form.password \in Passwords
      BY <2>2, <1>6, FormOfRequest
         DEF AccountsInv, FindByEmail, CreateUser, SetAuthCookies, At
    <3>2. \/ UNCHANGED R!vars
          \/ R!Refuse(Address(r))
          \/ R!Register(Address(r), request[r].form.password)
          \/ R!Open(Address(r), request[r].form.password)
      BY <1>2, <1>3, <1>4, <1>5, <1>6, <2>2
         DEF FindByEmail, CreateUser, history
    <3> QED BY <3>1, <3>2 DEF R!Next
  <2> QED BY <1>6, <2>1, <2>2 DEF Handle
<1>7. AccountsInv /\ [Next]_vars => [R!Next]_(R!vars)
  <2>1. ASSUME NEW r \in Requests, NEW f \in Forms, Submit(r, f)
        PROVE  UNCHANGED R!vars
    BY <1>5, <2>1 DEF Submit
  <2>2. ASSUME NEW k \in Keys, WindowEnds(k)
        PROVE  UNCHANGED R!vars
    BY <1>5, <2>2 DEF WindowEnds
  <2>3. UNCHANGED vars => UNCHANGED R!vars
    BY <1>5 DEF vars
  <2> QED BY <1>6, <2>1, <2>2, <2>3 DEF Next
<1> QED BY <1>1, <1>7, AccountsInvariant, PTL
        DEF Spec, ImplementsRegistry, R!Spec
=============================================================================
