---------------------------- MODULE SendMessage ----------------------------
(***************************************************************************)
(* POST /message/send/:id: concurrent requests that find or create the     *)
(* direct conversation of two users, store a message in it, and emit it to *)
(* the receiver's sockets.  Waiting for row locks and unique keys of open  *)
(* PostgreSQL transactions is part of the model.  The outbox row that the  *)
(* store transaction inserts as well is the subject of module Outbox.      *)
(***************************************************************************)
EXTENDS Naturals, FiniteSets

CONSTANTS
    Users,      \* ids in use as parameters; UUIDs are compared, so numbers
    Registered, \* those with a row in users
    Requests,   \* concurrent requests, each one handled once
    NoId

ASSUME SendMessageAssumption ==
    /\ Users \subseteq Nat
    /\ Registered \subseteq Users
    /\ NoId \notin Requests

VARIABLES
    pc,            \* where request r is
    sender,        \* authenticated user of r
    receiver,      \* :id of r
    conv,          \* conversation r works with
    conversations, \* committed rows; id = the request whose randomUUID it was
    members,       \* committed conversation_members
    messages,      \* committed messages; id = the request that sent it
    emitted        \* newMessage events sent to a user's room

params == <<sender, receiver>>
tables == <<conversations, members, messages>>
vars   == <<pc, params, conv, tables, emitted>>

\* "creating": own conversation row inserted, not committed; "joining": row of
\* another request locked FOR UPDATE; "storing": message inserted, not committed.
PCs == {"start", "find", "create", "resolve", "creating", "joining", "store",
        "storing", "stored", "answered", "rejected", "failed"}
Final == {"answered", "rejected", "failed"}

\* Mutant: the pair is stored as it comes.
PairAsGiven(a, b) == <<a, b>>

canonicalizeMemberPair(a, b) == IF a < b THEN <<a, b>> ELSE <<b, a>>

Pair(r) == canonicalizeMemberPair(sender[r], receiver[r])

\* findDirectConversation: the committed rows of the pair.
Found(r) == {c \in conversations : c.pair = Pair(r)}

\* Another transaction has inserted the same pair and is still open.
PairPending(r) ==
    \E q \in Requests \ {r} : pc[q] = "creating" /\ Pair(q) = Pair(r)

\* FOR UPDATE excludes itself and the KEY SHARE of a foreign key check.
LockedForUpdate(r, id) ==
    \E q \in Requests \ {r} : pc[q] = "joining" /\ conv[q] = id

LockedForKey(r, id) ==
    \E q \in Requests \ {r} : pc[q] = "storing" /\ conv[q] = id

Goto(r, place) == pc' = [pc EXCEPT ![r] = place]

-----------------------------------------------------------------------------
(* sendMessage. *)

\* Self-message and receiver checks.
Validate(r, a, b) ==
    /\ pc[r] = "start"
    /\ sender' = [sender EXCEPT ![r] = a]
    /\ receiver' = [receiver EXCEPT ![r] = b]
    /\ Goto(r, IF a = b \/ b \notin Registered THEN "rejected" ELSE "find")
    /\ UNCHANGED <<conv, tables, emitted>>

FindDirectConversation(r) ==
    /\ pc[r] = "find"
    /\ IF Found(r) = {}
       THEN Goto(r, "create") /\ UNCHANGED conv
       ELSE /\ Goto(r, "store")
            /\ \E c \in Found(r) : conv' = [conv EXCEPT ![r] = c.id]
    /\ UNCHANGED <<params, tables, emitted>>

\* Mutant: the INSERT does not wait for an open transaction's row.
InsertNoWait(r) ==
    /\ pc[r] = "create"
    /\ IF Found(r) = {} /\ ~ PairPending(r)
       THEN Goto(r, "creating") /\ conv' = [conv EXCEPT ![r] = r]
       ELSE Goto(r, "resolve") /\ UNCHANGED conv
    /\ UNCHANGED <<params, tables, emitted>>

\* BEGIN; INSERT ... ON CONFLICT (member_a_id, member_b_id) DO NOTHING waits
\* for an open transaction that inserted the pair.
InsertConversation(r) ==
    /\ pc[r] = "create"
    /\ ~ PairPending(r)
    /\ IF Found(r) = {}
       THEN Goto(r, "creating") /\ conv' = [conv EXCEPT ![r] = r]
       ELSE Goto(r, "resolve") /\ UNCHANGED conv
    /\ UNCHANGED <<params, tables, emitted>>

\* SELECT ... FOR UPDATE after a conflict.  No row: the code throws.
ResolveConflict(r) ==
    /\ pc[r] = "resolve"
    /\ \A c \in Found(r) : ~ LockedForUpdate(r, c.id) /\ ~ LockedForKey(r, c.id)
    /\ IF Found(r) = {}
       THEN Goto(r, "failed") /\ UNCHANGED conv
       ELSE /\ Goto(r, "joining")
            /\ \E c \in Found(r) : conv' = [conv EXCEPT ![r] = c.id]
    /\ UNCHANGED <<params, tables, emitted>>

\* Mutant: only the member who creates the conversation is entered.
CommitWithoutPeer(r) ==
    /\ pc[r] \in {"creating", "joining"}
    /\ conversations' = conversations \cup
         (IF pc[r] = "creating" THEN {[id |-> r, pair |-> Pair(r)]} ELSE {})
    /\ members' = members \cup {<<conv[r], sender[r]>>}
    /\ Goto(r, "store")
    /\ UNCHANGED <<params, conv, messages, emitted>>

\* Mutant: COMMIT stands in the branch that inserted the conversation.
CommitCreatedOnly(r) ==
    /\ pc[r] = "creating"
    /\ conversations' = conversations \cup {[id |-> r, pair |-> Pair(r)]}
    /\ members' = members \cup ({conv[r]} \X {Pair(r)[1], Pair(r)[2]})
    /\ Goto(r, "store")
    /\ UNCHANGED <<params, conv, messages, emitted>>

\* ensureMembership of both users, COMMIT.
CommitConversation(r) ==
    /\ pc[r] \in {"creating", "joining"}
    /\ conversations' = conversations \cup
         (IF pc[r] = "creating" THEN {[id |-> r, pair |-> Pair(r)]} ELSE {})
    /\ members' = members \cup ({conv[r]} \X {Pair(r)[1], Pair(r)[2]})
    /\ Goto(r, "store")
    /\ UNCHANGED <<params, conv, messages, emitted>>

\* BEGIN; INSERT INTO messages, whose foreign key share-locks the conversation.
InsertMessage(r) ==
    /\ pc[r] = "store"
    /\ ~ LockedForUpdate(r, conv[r])
    /\ Goto(r, "storing")
    /\ UNCHANGED <<params, conv, tables, emitted>>

CommitMessage(r) ==
    /\ pc[r] = "storing"
    /\ messages' = messages \cup {[id |-> r, conv |-> conv[r]]}
    /\ Goto(r, "stored")
    /\ UNCHANGED <<params, conv, conversations, members, emitted>>

\* The controller emits newMessage to the receiver's room and answers 201.
EmitNewMessage(r) ==
    /\ pc[r] = "stored"
    /\ emitted' = emitted \cup {<<receiver[r], r>>}
    /\ Goto(r, "answered")
    /\ UNCHANGED <<params, conv, tables>>

\* A statement throws, or the process dies: an open transaction is rolled back
\* and what is committed stays, a message without its emit included.
Fail(r) ==
    /\ pc[r] \notin Final \cup {"start"}
    /\ Goto(r, "failed")
    /\ UNCHANGED <<params, conv, tables, emitted>>

-----------------------------------------------------------------------------
Init ==
    /\ pc = [r \in Requests |-> "start"]
    /\ sender = [r \in Requests |-> 0]
    /\ receiver = [r \in Requests |-> 0]
    /\ conv = [r \in Requests |-> NoId]
    /\ conversations = {} /\ members = {} /\ messages = {}
    /\ emitted = {}

Proceed(r) ==
    \/ FindDirectConversation(r)
    \/ InsertConversation(r)
    \/ ResolveConflict(r)
    \/ CommitConversation(r)
    \/ InsertMessage(r)
    \/ CommitMessage(r)
    \/ EmitNewMessage(r)

Next ==
    \E r \in Requests :
        \/ \E a \in Registered, b \in Users : Validate(r, a, b)
        \/ Proceed(r)
        \/ Fail(r)

Spec == Init /\ [][Next]_vars

\* Node runs every handler on and PostgreSQL grants locks in the end.
FairSpec == Spec /\ \A r \in Requests : WF_vars(Proceed(r))

-----------------------------------------------------------------------------
(* Properties. *)

TypeOK ==
    /\ pc \in [Requests -> PCs]
    /\ sender \in [Requests -> Users \cup {0}]
    /\ receiver \in [Requests -> Users \cup {0}]
    /\ conv \in [Requests -> Requests \cup {NoId}]
    /\ \A r \in Requests :
         pc[r] \in {"creating", "joining", "store", "storing", "stored"}
           => conv[r] # NoId
    /\ conversations \subseteq [id : Requests, pair : Users \X Users]
    /\ members \subseteq Requests \X Users
    /\ messages \subseteq [id : Requests, conv : Requests]
    /\ emitted \subseteq Users \X Requests

\* Two users share one conversation, whoever writes first and however their
\* requests race.
OneConversation ==
    \A c, d \in conversations :
        {c.pair[1], c.pair[2]} = {d.pair[1], d.pair[2]} => c = d

\* A stored message lies in a committed conversation whose members are exactly
\* its sender and its receiver, and nobody is told of a message that is not
\* stored for him, whatever is rolled back or dies in between.
MessageAmongMembers ==
    /\ \A m \in messages :
         /\ \E c \in conversations : c.id = m.conv
         /\ {u \in Users : <<m.conv, u>> \in members}
              = {sender[m.id], receiver[m.id]}
    /\ \A e \in emitted :
         \E m \in messages : m.id = e[2] /\ receiver[m.id] = e[1]

\* A request that loses the race finds the winner's row: the code's "could not
\* be resolved after conflict" is never thrown.
ConflictResolves == \A r \in Requests : pc[r] = "resolve" => Found(r) # {}

\* No request waits for ever: unique keys and row locks never form a cycle.
EventuallyAnswered ==
    \A r \in Requests : pc[r] = "find" ~> pc[r] \in Final
=============================================================================
