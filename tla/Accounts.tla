------------------------------ MODULE Accounts ------------------------------
(***************************************************************************)
(* Signup and login: the rate limiter in Redis, the user service and the   *)
(* users table, for requests that run side by side, in any number of API   *)
(* processes.  Every await is a step.                                      *)
(*                                                                         *)
(* An address is typed in some spelling; Normal is trim().toLowerCase().   *)
(***************************************************************************)
EXTENDS Naturals

CONSTANTS
    Requests,   \* requests under way at a time
    Spellings,  \* what people type for an address
    Normal,     \* Normal[s]: the address s is a spelling of
    Passwords,
    Limit       \* authRateLimit.limit

ASSUME AccountsAssumption ==
    /\ Normal \in [Spellings -> Spellings]
    /\ \A s \in Spellings : Normal[Normal[s]] = Normal[s]
    /\ Limit \in Nat \ {0}

Emails == {Normal[s] : s \in Spellings}
Routes == {"signup", "login"}
Keys   == Routes \X Spellings

VARIABLES
    count,     \* count[k]: the counter in Redis, 0 if the key does not exist;
               \* Limit + 1 stands for everything above the limit
    expiring,  \* keys that have a time to live
    admitted,  \* history: requests let through per route and address since
               \* the window of its key began
    users,     \* the users table: [email, password]
    request,   \* request[r]: the form it was sent with, and where it is
    confirmed, \* history: signups answered with 201
    refused,   \* history: addresses answered with 409
    opened     \* history: sessions, with the password that was shown

limiter == <<count, expiring, admitted>>
history == <<confirmed, refused, opened>>
vars    == <<limiter, users, request, history>>

Forms == [route : Routes, email : Spellings, password : Passwords]
Steps == {"limit", "find", "insert", "compare", "session"}
Idle  == [step |-> "idle"]

Address(r) == Normal[request[r].form.email]
Login(r)   == <<Address(r), request[r].form.password>>
User(r)    == [email |-> Address(r), password |-> request[r].form.password]
Key(route, s) == <<route, s>>

Init ==
    /\ count = [k \in Keys |-> 0]
    /\ expiring = {}
    /\ admitted = [k \in Keys |-> 0]
    /\ users = {}
    /\ request = [r \in Requests |-> Idle]
    /\ confirmed = {} /\ refused = {} /\ opened = {}

At(r, s)   == request[r].step = s
Goto(r, s) == request' = [request EXCEPT ![r].step = s]
Answer(r)  == request' = [request EXCEPT ![r] = Idle]

-----------------------------------------------------------------------------
(* The browser. *)

\* onSubmit of the signup or login form; nothing keeps a form from being
\* submitted twice.
Submit(r, f) ==
    /\ At(r, "idle")
    /\ request' = [request EXCEPT ![r] = [step |-> "limit", form |-> f]]
    /\ UNCHANGED <<limiter, users, history>>

-----------------------------------------------------------------------------
(* createRedisRateLimiter *)

\* Mutant: the key is made of the address as it was typed.
LimitKeyAsTyped(r) == Key(request[r].form.route, request[r].form.email)

RouteAndAddress(r) == Key(request[r].form.route, Address(r))

\* credentialRateLimitKey
LimitKey(r) == RouteAndAddress(r)

\* INCREMENT_SCRIPT: INCR, with EXPIRE if the key is new, in one step.
Increment(k) ==
    /\ count' = [count EXCEPT ![k] = IF @ > Limit THEN @ ELSE @ + 1]
    /\ expiring' = IF count'[k] = 1 THEN expiring \cup {k} ELSE expiring

\* 429 above the limit; below it the body is validated, which may end in 400.
RateLimit(r) ==
    /\ At(r, "limit")
    /\ Increment(LimitKey(r))
    /\ IF count'[LimitKey(r)] > Limit
         THEN Answer(r) /\ UNCHANGED admitted
         ELSE /\ admitted' = [admitted EXCEPT ![RouteAndAddress(r)] = @ + 1]
              /\ Answer(r) \/ Goto(r, "find")
    /\ UNCHANGED <<users, history>>

\* Mutant: INCR and EXPIRE are two calls, and the second one can fail.
LimiterFailsBetween(r) ==
    /\ At(r, "limit")
    /\ count' = [count EXCEPT ![LimitKey(r)] = IF @ > Limit THEN @ ELSE @ + 1]
    /\ Answer(r)
    /\ UNCHANGED <<expiring, admitted, users, history>>

\* Redis does not answer, before or after it ran the script: 503.
LimiterFails(r) ==
    /\ At(r, "limit")
    /\ Increment(LimitKey(r)) \/ UNCHANGED <<count, expiring>>
    /\ Answer(r)
    /\ UNCHANGED <<admitted, users, history>>

\* The window ends: Redis drops the key.
WindowEnds(k) ==
    /\ k \in expiring
    /\ count' = [count EXCEPT ![k] = 0]
    /\ expiring' = expiring \ {k}
    /\ admitted' = [admitted EXCEPT ![Key(k[1], Normal[k[2]])] = 0]
    /\ UNCHANGED <<users, request, history>>

-----------------------------------------------------------------------------
(* registerUser and authenticateUser *)

Taken(e) == \E u \in users : u.email = e

\* findByEmail.  A signup for a free address goes on to hash the password, a
\* login to compare it with the one that was read; a login for an unknown
\* address ends with 401, a signup for a known one with 409.
FindByEmail(r) ==
    /\ At(r, "find")
    /\ IF request[r].form.route = "signup"
         THEN IF Taken(Address(r))
                THEN Answer(r) /\ refused' = refused \cup {Address(r)}
                ELSE Goto(r, "insert") /\ UNCHANGED refused
         ELSE /\ IF Taken(Address(r)) THEN Goto(r, "compare") ELSE Answer(r)
              /\ UNCHANGED refused
    /\ UNCHANGED <<limiter, users, confirmed, opened>>

\* Mutant: no unique index stands behind the check in findByEmail.
CreateUserUnchecked(r) ==
    /\ At(r, "insert")
    /\ users' = users \cup {User(r)}
    /\ Goto(r, "session")
    /\ UNCHANGED <<limiter, history>>

\* The INSERT commits, or the unique index on email refuses it: errorHandler
\* makes 409 of SQLSTATE 23505.
CreateUser(r) ==
    /\ At(r, "insert")
    /\ IF Taken(Address(r))
         THEN /\ Answer(r)
              /\ refused' = refused \cup {Address(r)}
              /\ UNCHANGED users
         ELSE /\ users' = users \cup {User(r)}
              /\ Goto(r, "session")
              /\ UNCHANGED refused
    /\ UNCHANGED <<limiter, confirmed, opened>>

\* bcrypt.compare: 401 for another password.
ComparePassword(r) ==
    /\ At(r, "compare")
    /\ IF User(r) \in users
         THEN Goto(r, "session")
         ELSE Answer(r)
    /\ UNCHANGED <<limiter, users, history>>

\* setAuthCookies stores a session; then the answer, 201 or 200, is sent.
SetAuthCookies(r) ==
    /\ At(r, "session")
    /\ opened' = opened \cup {Login(r)}
    /\ confirmed' = IF request[r].form.route = "signup"
                      THEN confirmed \cup {Login(r)}
                      ELSE confirmed
    /\ Answer(r)
    /\ UNCHANGED <<limiter, users, refused>>

\* The database fails, or the process dies: 500, or no answer.  A signup that
\* was past its INSERT leaves an account behind that nobody was told of.
RequestFails(r) ==
    /\ request[r].step \notin {"idle", "limit"}
    /\ Answer(r)
    /\ UNCHANGED <<limiter, users, history>>

-----------------------------------------------------------------------------
Handle(r) ==
    \/ RateLimit(r) \/ LimiterFails(r) \/ FindByEmail(r) \/ CreateUser(r)
    \/ ComparePassword(r) \/ SetAuthCookies(r) \/ RequestFails(r)

Next ==
    \/ \E r \in Requests : Handle(r) \/ \E f \in Forms : Submit(r, f)
    \/ \E k \in Keys : WindowEnds(k)

\* Redis drops a key when its time to live is over.
Spec == Init /\ [][Next]_vars /\ \A k \in Keys : WF_vars(WindowEnds(k))

-----------------------------------------------------------------------------
TypeOK ==
    /\ count \in [Keys -> 0 .. Limit + 1]
    /\ expiring \subseteq Keys
    /\ admitted \in [Keys -> Nat]
    /\ users \subseteq [email : Emails, password : Passwords]
    /\ request \in [Requests -> {Idle} \cup [step : Steps, form : Forms]]

\* However an address is spelled, and whatever processes serve the requests,
\* no more than Limit requests of a window get past the limiter (the atomic
\* script, and the normalised key).
LimitPerWindow == \A k \in Keys : admitted[k] <= Limit

\* A counter that has gone over the limit goes back to zero by itself: a key
\* without a time to live would lock its address out for good.
NobodyLockedOut ==
    \A route \in Routes, e \in Emails :
        (count[Key(route, e)] > Limit) ~> (count[Key(route, e)] = 0)

\* What opens address e, after the users table.
Account == [e \in Emails |-> {u.password : u \in {v \in users : v.email = e}}]

R == INSTANCE Registry WITH account <- Account

\* Racing signups for one address make one account, for one of them; the others
\* are refused, also the one whose check came before the winner's INSERT.
ImplementsRegistry == R!Spec
=============================================================================
