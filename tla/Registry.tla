------------------------------ MODULE Registry ------------------------------
(***************************************************************************)
(* What registration and login promise: an address belongs to the password *)
(* it was first registered with, whoever is told of an account has just    *)
(* made it, whoever is refused met one, and only its password opens it.    *)
(***************************************************************************)
CONSTANTS Emails, Passwords

VARIABLES
    account,   \* account[e]: the passwords that open address e
    confirmed, \* registrations somebody was told of
    refused,   \* addresses somebody was told are taken
    opened     \* sessions, by address and the password shown for it

vars == <<account, confirmed, refused, opened>>

Init ==
    /\ account = [e \in Emails |-> {}]
    /\ confirmed = {} /\ refused = {} /\ opened = {}

Register(e, p) ==
    /\ account[e] = {}
    /\ account' = [account EXCEPT ![e] = {p}]
    /\ UNCHANGED <<confirmed, refused, opened>>

Refuse(e) ==
    /\ account[e] # {}
    /\ refused' = refused \cup {e}
    /\ UNCHANGED <<account, confirmed, opened>>

\* A session is opened, and a registration is confirmed with its first one.
Open(e, p) ==
    /\ p \in account[e]
    /\ opened' = opened \cup {<<e, p>>}
    /\ confirmed' \in {confirmed, confirmed \cup {<<e, p>>}}
    /\ UNCHANGED <<account, refused>>

Next ==
    \E e \in Emails :
        Refuse(e) \/ \E p \in Passwords : Register(e, p) \/ Open(e, p)

Spec == Init /\ [][Next]_vars
=============================================================================
