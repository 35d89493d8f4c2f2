---------------------------- MODULE Announcement ----------------------------
(***************************************************************************)
(* What the outbox promises, without workers, leases or attempts: accepted *)
(* messages of a conversation are announced in the order in which they     *)
(* were accepted, each at least once unless it is given up for good.       *)
(***************************************************************************)
EXTENDS Naturals, Sequences

CONSTANTS Conversations, Messages

VARIABLES
    accepted,  \* accepted[c]: messages stored in conversation c
    log,       \* log[c]: batches of messages announced for c
    abandoned  \* messages given up

vars == <<accepted, log, abandoned>>

Announced(c) == UNION {log[c][m] : m \in DOMAIN log[c]}

Init ==
    /\ accepted = [c \in Conversations |-> {}]
    /\ log = [c \in Conversations |-> <<>>]
    /\ abandoned = {}

\* A message is stored, behind all the messages of its conversation.
Accept(c, e) ==
    /\ \A d \in Conversations : e \notin accepted[d]
    /\ \A d \in accepted[c] : d < e
    /\ accepted' = [accepted EXCEPT ![c] = @ \cup {e}]
    /\ UNCHANGED <<log, abandoned>>

\* A batch is announced, possibly again.  It leaves out no predecessor that is
\* neither announced nor abandoned, and revives no abandoned message.
Announce(c, S) ==
    /\ S # {} /\ S \subseteq accepted[c] \ abandoned
    /\ \A j \in S : \A i \in accepted[c] :
         i < j => i \in S \cup Announced(c) \cup abandoned
    /\ log' = [log EXCEPT ![c] = Append(@, S)]
    /\ UNCHANGED <<accepted, abandoned>>

Abandon(e) ==
    /\ \E c \in Conversations : e \in accepted[c]
    /\ e \notin abandoned
    /\ abandoned' = abandoned \cup {e}
    /\ UNCHANGED <<accepted, log>>

Next ==
    \/ \E c \in Conversations, e \in Messages : Accept(c, e)
    \/ \E c \in Conversations : \E S \in SUBSET accepted[c] : Announce(c, S)
    \/ \E e \in Messages : Abandon(e)

Spec == Init /\ [][Next]_vars
=============================================================================
