-------------------------- MODULE ClientConversation --------------------------
(***************************************************************************)
(* One browser tab: the conversation store fed by the load of the last     *)
(* page (useMessages), the answer to a sent message (useSendMessage) and   *)
(* the events of the socket (useSocketMessages), which overlap.  A message *)
(* is named by its position in stored, the order of its created_at.        *)
(***************************************************************************)
EXTENDS Integers, Sequences, FiniteSets, SequencesExt, Ordering

CONSTANTS
    Peers,       \* users the tab may have a conversation with
    NoPeer,
    PageSize,    \* DEFAULT_MESSAGE_PAGE_SIZE
    InSecond,    \* messages whose createdAt shows the same second
    MaxMessages  \* bound: messages stored

ASSUME ClientAssumption ==
    /\ NoPeer \notin Peers
    /\ PageSize \in Nat \ {0} /\ InSecond \in Nat \ {0} /\ MaxMessages \in Nat

VARIABLES
    stored,    \* the messages between this user and the peers
    unemitted, \* messages to this user whose newMessage is still to be emitted
    wire,      \* newMessage events on their way to the tab
    connected, \* the tab's socket is in the user's room
    selected,  \* selectedConversation
    load,      \* the effect of useMessages: "none", "sent", "read" (its answer is
               \* on its way), "shown" (merged and displayed) or "error"
    page,      \* the page its request has read, in the order of the ids
    covered,   \* history: connected ever since that page was read
    cache,     \* messagesByConversation
    post       \* the request of useSendMessage

server == <<stored, unemitted>>
socket == <<wire, connected>>
loading == <<load, page, covered>>
vars == <<server, socket, selected, loading, cache, post>>

Idle == [state |-> "idle"]

\* The order of created_at, and what createdAt shows of it.
ById == {p \in (1..MaxMessages) \X (1..MaxMessages) : p[1] < p[2]}
Second(id) == (id - 1) \div InSecond
With(p) == {id \in DOMAIN stored : stored[id].peer = p}
Cached(p) == ToSet(cache[p])

Store(p, mine) ==
    /\ Len(stored) < MaxMessages
    /\ stored' = Append(stored, [peer |-> p, mine |-> mine])

-----------------------------------------------------------------------------
(* conversationStore. *)

appendMessage(list, id) == IF id \in ToSet(list) THEN list ELSE Append(list, id)

\* Mutant: the page replaces the list.
PageOnly(list, incoming) == InOrder(incoming, ById)

\* A Map by id, in which the list comes before what is new on the page, and a
\* stable sort by createdAt.
mergeUniqueMessages(list, incoming) ==
    LET ids == ToSet(list) \cup incoming
        Place(id) == IF id \in ToSet(list) THEN CHOOSE k \in DOMAIN list : list[k] = id
                                          ELSE Len(list) + id
        order == {p \in ids \X ids :
                    \/ Second(p[1]) < Second(p[2])
                    \/ Second(p[1]) = Second(p[2]) /\ Place(p[1]) < Place(p[2])}
    IN  InOrder(ids, order)

-----------------------------------------------------------------------------
(* The server and the user elsewhere. *)

\* Peer p sends: the message is stored before its event is emitted.
PeerSends(p) ==
    /\ Store(p, FALSE)
    /\ unemitted' = unemitted \cup {Len(stored')}
    /\ UNCHANGED <<socket, selected, loading, cache, post>>

\* This user sends to p from another device: the event goes to p alone.
MineElsewhere(p) ==
    /\ Store(p, TRUE)
    /\ UNCHANGED <<unemitted, socket, selected, loading, cache, post>>

\* io.to(room).emit, by any API process and in any order; a process that dies
\* first never emits.
Emit(id) ==
    /\ id \in unemitted
    /\ unemitted' = unemitted \ {id}
    /\ wire' = IF connected THEN Append(wire, id) ELSE wire
    /\ UNCHANGED <<stored, connected, selected, loading, cache, post>>

\* What is under way to a socket is lost with it; nothing is sent again.
Disconnect ==
    /\ connected
    /\ connected' = FALSE /\ wire' = <<>> /\ covered' = FALSE
    /\ UNCHANGED <<server, selected, load, page, cache, post>>

Reconnect ==
    /\ ~ connected
    /\ connected' = TRUE
    /\ UNCHANGED <<server, wire, selected, loading, cache, post>>

-----------------------------------------------------------------------------
(* useMessages. *)

\* Mutant: what is loaded once is not loaded again.
SelectKeepsCache(p) ==
    /\ p # selected
    /\ selected' = p
    /\ load' = IF cache[p] = <<>> THEN "sent" ELSE "shown"
    /\ page' = {} /\ covered' = connected
    /\ UNCHANGED <<server, socket, cache, post>>

\* Another conversation is selected: its effect aborts the request of the one
\* before, whose answer is dropped, and sends its own.
Select(p) ==
    /\ p # selected
    /\ selected' = p
    /\ load' = "sent" /\ page' = {} /\ covered' = FALSE
    /\ UNCHANGED <<server, socket, cache, post>>

\* The server reads the last page.
ReadPage ==
    /\ load = "sent"
    /\ page' = Newest(With(selected), ById, PageSize)
    /\ load' = "read" /\ covered' = connected
    /\ UNCHANGED <<server, socket, selected, cache, post>>

\* The answer.
MergePage ==
    /\ load = "read"
    /\ cache' = [cache EXCEPT ![selected] = mergeUniqueMessages(@, page)]
    /\ load' = "shown"
    /\ UNCHANGED <<server, socket, selected, page, covered, post>>

\* No answer, an error, or 404 because the two have no conversation yet.
LoadFails ==
    /\ load \in {"sent", "read"}
    /\ load' = "error"
    /\ UNCHANGED <<server, socket, selected, page, covered, cache, post>>

Retry ==
    /\ load = "error"
    /\ load' = "sent" /\ page' = {} /\ covered' = FALSE
    /\ UNCHANGED <<server, socket, selected, cache, post>>

-----------------------------------------------------------------------------
(* useSendMessage and useSocketMessages. *)

Send ==
    /\ selected # NoPeer /\ post = Idle
    /\ post' = [state |-> "sent", peer |-> selected]
    /\ UNCHANGED <<server, socket, selected, loading, cache>>

StorePost ==
    /\ post.state = "sent"
    /\ Store(post.peer, TRUE)
    /\ post' = [state |-> "stored", peer |-> post.peer, id |-> Len(stored')]
    /\ UNCHANGED <<unemitted, socket, selected, loading, cache>>

\* Mutant: the answer goes to the conversation that is selected by then.
PostArrivesAtSelected ==
    /\ post.state = "stored"
    /\ cache' = [cache EXCEPT ![selected] = appendMessage(@, post.id)]
    /\ post' = Idle
    /\ UNCHANGED <<server, socket, selected, loading>>

\* The answer goes to the conversation the message was sent in.
PostArrives ==
    /\ post.state = "stored"
    /\ cache' = [cache EXCEPT ![post.peer] = appendMessage(@, post.id)]
    /\ post' = Idle
    /\ UNCHANGED <<server, socket, selected, loading>>

\* No answer, whether or not the message was stored.
PostFails ==
    /\ post # Idle
    /\ post' = Idle
    /\ UNCHANGED <<server, socket, selected, loading, cache>>

\* Mutant: events are handled only after the load.
DeliverWhenShown ==
    /\ wire # <<>>
    /\ wire' = Tail(wire)
    /\ LET id == Head(wire)
       IN  cache' = IF stored[id].peer = selected /\ load = "shown"
                    THEN [cache EXCEPT ![selected] = appendMessage(@, id)]
                    ELSE cache
    /\ UNCHANGED <<server, connected, selected, loading, post>>

\* handleNewMessage: an event of another conversation is dropped.
Deliver ==
    /\ wire # <<>>
    /\ wire' = Tail(wire)
    /\ LET id == Head(wire)
       IN  cache' = IF stored[id].peer = selected
                    THEN [cache EXCEPT ![selected] = appendMessage(@, id)]
                    ELSE cache
    /\ UNCHANGED <<server, connected, selected, loading, post>>

-----------------------------------------------------------------------------
Init ==
    /\ stored = <<>> /\ unemitted = {}
    /\ wire = <<>> /\ connected = TRUE
    /\ selected = NoPeer
    /\ load = "none" /\ page = {} /\ covered = FALSE
    /\ cache = [p \in Peers |-> <<>>]
    /\ post = Idle

Next ==
    \/ \E p \in Peers : PeerSends(p) \/ MineElsewhere(p) \/ Select(p)
    \/ \E id \in unemitted : Emit(id)
    \/ Disconnect \/ Reconnect
    \/ ReadPage \/ MergePage \/ LoadFails \/ Retry
    \/ Send \/ StorePost \/ PostArrives \/ PostFails
    \/ Deliver

Spec == Init /\ [][Next]_vars

\* The server answers, answers arrive, and the socket delivers what is on its
\* way.  The user has to do nothing and no message has to be emitted.
Fairness == WF_vars(ReadPage) /\ WF_vars(MergePage) /\ WF_vars(Deliver)

FairSpec == Spec /\ Fairness

-----------------------------------------------------------------------------
(* Properties. *)

\* PHASE-05: duplicate REST and socket messages are prevented by message id,
\* and none is shown in another conversation than its own.
CacheOfConversation ==
    \A p \in Peers :
        /\ Cached(p) \subseteq With(p)
        /\ Len(cache[p]) = Cardinality(Cached(p))

\* The page was to show it: the page has room, or an older message on it.
OnPage(id) == Cardinality(page) < PageSize \/ \E m \in page : m <= id

\* PHASE-05: a message received while the load is in flight is not lost.  What
\* the peer has sent since the oldest message of the page is shown, on the
\* wire or not emitted yet, as long as the socket has been connected since the
\* page was read.
NothingMissed ==
    load = "shown" /\ covered =>
        \A id \in With(selected) :
            OnPage(id) /\ ~ stored[id].mine
                => id \in Cached(selected) \cup unemitted \cup ToSet(wire)

\* What the tab has shown of a conversation it shows again, after loads that
\* read an older or a shorter page included.
NothingForgotten == [][\A p \in Peers : Cached(p) \subseteq Cached(p)']_vars

\* What is on its way to the tab is displayed in the conversation on screen,
\* unless the load fails, the socket is lost or the user turns away.
EventuallyShown ==
    \A p \in Peers, id \in 1..MaxMessages :
        selected = p /\ id \in ToSet(wire) /\ id \in With(p)
            ~> \/ load = "shown" /\ id \in Cached(p)
               \/ load = "error" \/ ~ connected \/ selected # p
=============================================================================
