---------------------------- MODULE MessageHistory ----------------------------
(***************************************************************************)
(* GET /message/get/:id with a cursor: one reader pages backwards through  *)
(* a conversation while messages are being stored.  Times are counted in   *)
(* ticks, PerSecond of them to a second.                                   *)
(***************************************************************************)
EXTENDS Integers, Sequences, FiniteSets, SequencesExt, Ordering

CONSTANTS
    Ids,       \* message ids; UUIDs are compared, so integers
    PerSecond, \* resolution of created_at
    Limits,    \* values of ?limit that validation lets through
    MaxTime,   \* bound: the last tick
    MaxPages   \* bound: pages the reader asks for

ASSUME MessageHistoryAssumption ==
    /\ Ids \subseteq Nat /\ IsFiniteSet(Ids)
    /\ PerSecond \in Nat \ {0}
    /\ Limits \subseteq 1..100
    /\ MaxTime \in Nat /\ MaxPages \in Nat

VARIABLES
    now,
    createdAt, \* createdAt[m]: NOW() of the transaction storing m, -1 before
    messages,  \* committed rows
    shown,     \* what the reader has, oldest first
    cursor,    \* nextCursor of its last page
    more,      \* hasMore of its last page
    pages,     \* pages read, up to MaxPages
    cut,       \* oldest message of each page that had a next one
    base       \* rows committed when the reader began

reader == <<shown, cursor, more, pages, cut, base>>
historyVars == <<now, createdAt, messages, reader>>

NoCursor == <<>>

\* ORDER BY created_at, id.
Earlier(m, n) ==
    \/ createdAt[m] < createdAt[n]
    \/ createdAt[m] = createdAt[n] /\ m < n

Chronological == {p \in Ids \X Ids : Earlier(p[1], p[2])}

\* mapMessage: String(date) has no fraction of a second.
Truncate(t) == (t \div PerSecond) * PerSecond

\* Mutant: the row of the cursor is part of the next page.
BeforeOrAt(m, c) ==
    c = NoCursor \/ createdAt[m] < c[1] \/ (createdAt[m] = c[1] /\ m <= c[2])

\* (created_at, id) < ($2, $3)
Before(m, c) ==
    c = NoCursor \/ createdAt[m] < c[1] \/ (createdAt[m] = c[1] /\ m < c[2])

\* Mutant: ORDER BY ... ASC.
PageAscending(limit) ==
    LET rows == {m \in messages : Before(m, cursor)}
    IN  {m \in rows : Cardinality({n \in rows : Earlier(n, m)}) < limit}

\* The newest rows before the cursor, at most limit of them.
Page(limit) ==
    LET rows == {m \in messages : Before(m, cursor)}
    IN  Newest(rows, Chronological, limit)

HasMore(limit) == Cardinality({m \in messages : Before(m, cursor)}) > limit

Oldest(S) == CHOOSE m \in S : \A n \in S \ {m} : Earlier(m, n)

\* encodeMessageCursor of the oldest message on the page.
NextCursor(S) == <<Truncate(createdAt[Oldest(S)]), Oldest(S)>>

-----------------------------------------------------------------------------
Tick ==
    /\ now < MaxTime
    /\ now' = now + 1
    /\ UNCHANGED <<createdAt, messages, reader>>

\* BEGIN; INSERT INTO messages, whose created_at is the transaction's NOW().
BeginMessage(m) ==
    /\ createdAt[m] = -1
    /\ createdAt' = [createdAt EXCEPT ![m] = now]
    /\ UNCHANGED <<now, messages, reader>>

CommitMessage(m) ==
    /\ createdAt[m] # -1 /\ m \notin messages
    /\ messages' = messages \cup {m}
    /\ UNCHANGED <<now, createdAt, reader>>

\* findMessagesByConversation and getMessages.  The reader goes on as long as
\* hasMore is set, and may ask for another number of rows each time.
GetMessages(limit) ==
    /\ more /\ pages < MaxPages
    /\ LET page == Page(limit)
       IN  /\ shown' = InOrder(page, Chronological) \o shown
           /\ more' = HasMore(limit)
           /\ cursor' = IF HasMore(limit) THEN NextCursor(page) ELSE NoCursor
           /\ cut' = IF HasMore(limit) THEN cut \cup {Oldest(page)} ELSE cut
    /\ pages' = pages + 1
    /\ base' = IF pages = 0 THEN messages ELSE base
    /\ UNCHANGED <<now, createdAt, messages>>

-----------------------------------------------------------------------------
HistoryInit ==
    /\ now = 0
    /\ createdAt = [m \in Ids |-> -1]
    /\ messages = {}
    /\ shown = <<>> /\ cursor = NoCursor /\ more = TRUE /\ pages = 0
    /\ cut = {} /\ base = {}

HistoryNext ==
    \/ Tick
    \/ \E m \in Ids : BeginMessage(m) \/ CommitMessage(m)
    \/ \E limit \in Limits : GetMessages(limit)

HistorySpec == HistoryInit /\ [][HistoryNext]_historyVars

Done == pages > 0 /\ ~ more

-----------------------------------------------------------------------------
(* Properties. *)

\* Pages never overlap and fit together: what the reader has is in order and
\* without repetition, although rows are stored and become visible meanwhile.
PagesInOrder ==
    \A i, j \in DOMAIN shown : i < j => Earlier(shown[i], shown[j])

\* The only rows of the reader's start that paging can lose are those of the
\* second in which a page ended, at or after its beginning.
LostOnlyWithinSecond ==
    Done => \A m \in base \ Range(shown) :
        \E c \in cut : /\ Earlier(m, c)
                       /\ Truncate(createdAt[m]) = Truncate(createdAt[c])

\* The cursor is a stable ordering key (messageCursor.test.ts): a reader who has
\* followed it to the end has every row that was there when it began.
HistoryComplete == Done => base \subseteq Range(shown)
=============================================================================
