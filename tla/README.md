# A TLA+ model of MERN-Chat-App

The program is a chat: an Express and Socket.IO API (`Backend/`, several processes behind one address) on PostgreSQL,
Redis and Kafka, and a React client (`Frontend/`). This directory holds its TLA+ modules, the TLC configurations that check
them, the theorems TLAPS proves, and `PROJECT.json`, which ties every definition to the lines it stands for.

Paths below are relative to `src/`.

## 1. The system

| Component | State | Operations | Talks to |
|---|---|---|---|
| Send message (`services/message.service.ts`, `repositories/postgres/{conversation,message}.repository.ts`, `controller/message.controller.ts`) | `conversations`, `conversation_members`, `messages` | find or create the direct conversation, store the message and its outbox row in one transaction, emit `newMessage` | PostgreSQL, Socket.IO, outbox |
| Transactional outbox (`repositories/postgres/outbox.repository.ts`, `events/publisher.ts`) | `outbox_events`: status, attempts, `available_at`, `locked_until` | claim a batch, publish, mark published, reschedule, dead-letter | PostgreSQL, Kafka |
| Notification consumer (`events/message-notification.consumer.ts`) | `processed_events`, `notifications`, the group's offsets, the DLQ | handle a record, ignore a duplicate, dead-letter a malformed one | Kafka, PostgreSQL |
| Message history (`message.repository.ts`, `utils/messageCursor.ts`) | none of its own | read a page before a cursor | PostgreSQL |
| Presence store (`infra/redis/presence.ts`) | a sorted set of socket leases per user, a sorted index of online users | mark online, mark offline, is online, list | Redis |
| Socket.IO server (`SocketIO/server.ts`) | `socketsByUser` of a process, heartbeats | connect, heartbeat, disconnect, emit `getOnlineUsers`; authenticate a handshake | presence store, sessions, clients |
| Sessions (`auth/session.ts`, `controller/user.controller.ts`, `middleware/secureRoute.ts`, `session.repository.ts`; client: `utils/axiosConfig.ts`, `context/AuthProvider.tsx`, `context/SocketContext.tsx`) | `sessions`, two cookies per browser, `refreshPromise` and `authUser` per tab | log in, refresh, log out, guard a request, restore a session, reauthenticate a socket | PostgreSQL, client |
| Client conversations (`state/conversationStore.ts`, `hooks/use{Messages,SendMessage,SocketMessages}.ts`) | `selectedConversation`, `messagesByConversation` | load a page, post, receive an event | API, Socket.IO |
| Server process and Kafka lifecycle (`index.ts`, `infra/kafka/client.ts`, the starts and stops in `publisher.ts` and `message-notification.consumer.ts`) | connection flags, the group-join promise and its timer, the relay's timer and `relayRunning`, the pool, the listening socket | start PostgreSQL, Redis and Kafka, start consumer and relay, listen, poll, shut down on a signal | everything the process opens |
| Migrations (`db/migrate.ts`) | `schema_migrations`, the advisory lock | apply the missing versions, one transaction each | PostgreSQL |
| Rate limiter (`middleware/rateLimit.ts`) | a counter with a time to live per route and address | count and refuse | Redis |
| Registration (`services/user.service.ts`, `user.repository.ts`, `controller/user.controller.ts`) | `users` with its unique index | sign up, check a password, open a session | PostgreSQL, rate limiter, sessions |
| Validation, routes, headers, logging, metrics, health, user interface | none, or write-only | | |

A message takes this way: `sendMessage` commits a row of `messages` with one of `outbox_events`, the controller emits
`newMessage` to the receiver's room, a relay in any process claims the outbox row and sends it to Kafka, and a member of the
consumer group turns the record into a row of `notifications`. The client gets it as a socket event, as the answer to its
own post or in a page of the history, in any order.

What is hard, and which properties say it is right (every hazard, with its line, is in `PROJECT.json`):

* **Outbox.** Two claims interleave between their statements; `SKIP LOCKED` hides rows; `sequence_number` is allocated at
  INSERT and visible at COMMIT; Kafka can take a batch whose acknowledgement, or whose UPDATE, is lost; leases run out under a
  worker; workers die. *Nothing is announced that was not stored, nothing is written off unannounced, per-conversation order, bounded
  duplicates, one worker to a row while its lease runs, final states stay final, everything is settled in the end.*
* **Consumer.** Kafka repeats records after crashes, rebalances and failures, and two members may hold one partition for a
  while. *No offset passes a record without its effect; marker and effect are one; everything is handled.*
* **Sending.** First messages of two users race in both directions through unique keys and row locks. *One conversation, with
  exactly the two as members; no unresolved conflict; no lock cycle; no message outside its conversation.*
* **History.** Rows appear between two pages and out of order; the cursor is a timestamp cut to seconds. *Pages never overlap
  or run out of order; what they lose is confined to the second of a page boundary.*
* **Presence.** Several sockets of a user on several processes, heartbeats on their way, readers with other clocks, processes
  that die. *The connected are online, those who left are not, the clients come to agree with Redis.*
* **Sessions.** Tabs share cookies and refresh at once; answers arrive late. *No call waits for nobody; a refusal that
  ends a login is that of a session which has ended; a confirmed logout is final.*
* **Client.** A page, a post's answer and socket events overlap with each other and with the user's choice of a conversation.
  *No duplicates, nothing in the wrong conversation, nothing missed or forgotten.*
* **Server process.** Startup, the shutdown of a signal, the consumer, the relay's poll and requests are coroutines that interleave at
  every `await`; the broker fails at any point or never lets the consumer in; the database is migrated while servers run on it.
  *The startup settles, a signal ends the process, work in progress keeps its connections, the poll survives its failures.*
* **Migrations.** Several runners, of several releases, at once; connections die between two versions or during a COMMIT. *Runners
  never make each other fail; each version takes effect once, in order, together with its record.*
* **Accounts.** Forms sent twice, two spellings of one address, a counter whose time to live may be lost. *No window admits more
  than its limit, no address stays locked out, an address belongs to the one who registered it first and was told so.*

## 2. Modules

| Module | Models | State and actions |
|---|---|---|
| `Outbox` | send transaction and relay | Rows are named by their sequence number. `InsertOutboxEvent`/`CommitMessage` are the transaction of `sendMessage`; `ClaimFrontier`, `LockCandidates`, `CommitClaim` the three parts of `claimPendingOutboxEvents`, with the row locks as state (`locked`); `PublishOutboxEvents`/`PublishFails` the producer call; `MarkOutboxEventsPublished`, `SettleFailed`, `MarkFails` the rest of `runOutboxRelayOnce`; `LeaseExpires`, `LeaseOutlived`, `BackoffElapses`, `Crash` the environment. |
| `Announcement` | what the outbox promises | accept, announce in order, abandon |
| `OutboxImplements` | the refinement | stored = accepted, Kafka's log = announcements, dead-lettered = abandoned |
| `OutboxProofs` | proofs | see section 5 |
| `NotificationConsumer` | consumer group | offsets, assignment, redelivery and stale batches as external actions; `eachMessage` and its transaction step by step |
| `SendMessage` | `POST /message/send/:id` | one program counter per request; waits for unique keys, `FOR UPDATE` and foreign-key locks are guards |
| `ConsumerProofs`, `SendMessageProofs`, `SessionProofs`, `PresenceProofs`, `ConversationProofs`, `DeploymentProofs`, `AccountsProofs` | proofs | see section 5 |
| `Ordering` | `ORDER BY … LIMIT`, a sort | `InOrder` and `Newest` count what is before or after an element, so that they can be proved about; used by the next one and by `ClientConversation` |
| `MessageHistory` | `GET /message/get/:id` with cursors | a reader paging (`GetMessages`) while rows are stored and committed out of order |
| `PresenceStore` | the four Lua scripts | scores, the key's time to live, clocks that differ by `Skew`, calls that carry an old reading |
| `PresenceServer` | connection handlers over `PresenceStore` (`EXTENDS`) | per process a FIFO of Redis commands; what an answer triggers is issued when it arrives; snapshots are published; crashes and lost commands |
| `Session` | sessions, cookies, tabs | requests carry the cookies of the moment they are sent; `Denied`, `DeniedAgain` are the interceptor; `ServeRefresh`, `Renewed`, `Rejected`, `RefreshFails` the two refreshes of a tab, the one behind `refreshPromise` (`"calls"`) and the one `restoreSession` posts itself (`"restore"`); `Handshake`, `Reauthenticate`, `HandshakeRefused` the socket. The history `reason` holds the refusal that ended a tab's login, `emptied` the session whose end emptied the cookie jar |
| `ClientConversation` | one tab | `Select`/`ReadPage`/`MergePage`/`LoadFails`/`Retry` are `useMessages`, `Send`…`PostFails` `useSendMessage`, `Deliver` `useSocketMessages`; a page is the set of its ids, which merging puts in order |
| `Migrations` | `runMigrations` | per runner the position in `runMigrations` and `applyMigration` (`Lock`, `EnsureMigrationsTable`, `SelectVersion`, `RunSql`, `InsertVersion`, `CommitVersion`, `Rollback`, `Unlock`); `StatementFails` and `SessionLost` the faults, a connection lost during COMMIT leaving it open whether it took effect |
| `SchemaHistory` | what migrations promise | the next version takes effect and is recorded, in one instant |
| `ServerProcess` | `startServer`, `initializeKafkaInfrastructure`, `closeKafkaInfrastructure`, `shutdown`, `startOutboxRelay` | `start` and `closing[k]` are program counters of the startup and of the shutdown that signal `k` (or the catch block, `"init"`) began; `flags` what the program believes to be connected, `links` what is |
| `Deployment` | a server and the migration runners of its database | composes `ServerProcess` (`INSTANCE`) with `Migrations` over `schema_migrations` |
| `Accounts` | signup, login and their rate limiter | one position per request and a counter per key: `RateLimit`, `FindByEmail`, `CreateUser`, `ComparePassword`, `SetAuthCookies`, `WindowEnds` |
| `Registry` | what accounts promise | an address belongs to the password it was first registered with |

`MC*` modules instantiate them for TLC (`MCOutbox` and `MCPresenceStore` add symmetry, which is used for safety only).
Definitions marked "Mutant" in a comment are wrong variants of the definition that follows. No specification uses them; they
show that each property can fail: with the variant in place of the definition TLC finds the property violated.

### Abstractions

* **Outbox.** Eligibility (`available_at`, `locked_until` against `NOW()`) is the flag `due` that the environment sets. A
  batch is appended to the log of a conversation in one go, because all its records have one partition key. A send that
  failed was appended by the time its failure is known, or never. The settling UPDATEs hold no lock beyond their statement.
* **SendMessage, consumer.** READ COMMITTED: a statement sees what is committed when it starts; locks are explicit where the
  code can wait.
* **Presence.** Answers of Redis, heartbeats and timers come within a tick, which is what the ratio of the heartbeat (30 s)
  to the lease (60 s) allows for; publishing a snapshot and its delivery are one step.
* **Session.** One user, one browser. Serving a guarded request or a handshake is one step; a refresh, a login and a logout
  have their answers on the way separately, because their answers carry cookies. One login or logout form at a time. A query that fails while a handshake is
  authenticated makes it `AUTH_INVALID`, as in the code (`SocketIO/server.ts:73`); one that fails in a guarded request or a refresh is an error
  other than 401 (`CallFails`, `RefreshFails`). The refresh cookie's own 30 days are left out: they end with those of its session (`EndElsewhere`).
* **Migrations.** A file is its number; it runs on the schema of the files before it and fails on any other. Statements of PostgreSQL that
  create the same names wait for each other.
* **ServerProcess.** The consumer and the relay only hold connections here; what they do with them is in `NotificationConsumer` and
  `Outbox`. One record, one request and one poll at a time. The model ends with the process.
* **Accounts.** Passwords are model values, each a class of passwords that bcrypt tells apart (bcryptjs compares the first 72 bytes of
  what may be 128 characters); `Normal` is `trim().toLowerCase()`; everything above the limit is one
  value of the counter.
* **ClientConversation.** Ids are in `created_at` order; 404 for a conversation that does not exist yet is a load that fails.

## 3. Runs

| Run | Question | Instance |
|---|---|---|
| `outbox_safety` | Is everything that reaches Kafka, or is called published, right? | 2 senders, 2 workers, 3 rows of one conversation, batch 2, 2 attempts, 1 fault or outlived lease |
| `outbox_progress` | Does the outbox implement the ordered announcement, and settle everything? | 1 sender, 2 workers, 2 conversations, 2 rows, 2 faults |
| `consumer_group` | Is every acknowledged record handled, once, and in the end? | 2 members, 3 records of 4 kinds, 3 faults |
| `send_message_races` | Do racing first messages agree, and end? | 3 requests, 2 registered users and a stranger |
| `history_paging` | Do pages fit together? | 4 messages, 2 ticks a second, limits 1 and 2, 4 pages |
| `history_subsecond` | Does the reader get everything? **No** | 3 messages, limit 1 |
| `presence_leases` | Does the index say what the leases say? | 3 sockets, lease 2, key 4, skew 1, 7 ticks |
| `presence_serving` | Are the connected online, and do clients agree with Redis? | 2 processes, 2 sockets, 2 users, 1 fault, 4 ticks |
| `client_tab` | Does the tab show each message once, in its place, and all of them? | 2 conversations, 3 messages, page 2 |
| `session_tabs` | Do shared cookies and refreshes keep logins, and do logouts hold? | 2 tabs, 1 login, 2 calls at a time |
| `deployment` | Does a server come up, relay, and go down in order, while its database is migrated? | 1 server with SIGTERM, 2 runners of releases with 2 files and 1, 1 fault |
| `accounts` | Do limits hold, and do racing forms make one account? | 2 requests, 2 spellings of an address, 2 passwords, limit 2 |

*Why the bounds suffice.* Two workers and two senders are the least for which claims and commits interleave; three rows the
least for which a claim can leave a gap between a frontier and what it takes; two attempts the least with a retry and a limit.
Three records let one be repeated between two others. Three requests are a winner, a loser that waits and one that comes after.
Four messages and pages of one or two give full, partial and last pages with rows of one second on both sides of a cut. Seven
ticks outlast the key's time to live by a lease. Three messages with pages of two leave one that only an event can bring. Two
tabs with a call each, besides the socket's, are the least in which two refreshes cross and one refresh has two waiters.
`MaxFaults`, `MaxSlow`, `MaxTime`, `MaxLogins`, `MaxCalls`, `MaxLog`, `MaxPages`, `MaxMessages` and `MaxEvents` bound what the
environment does and stand in the guards of those actions only; in the outbox `MaxFaults` bounds crashes, database errors and
outlived leases together, and `MaxSlow` the outlived leases among them. `outbox_safety` with `MaxFaults = 2`, one of the two an
outlived lease at most, has 10.3 million states in place of 1.4 million and finds no error either. `session_tabs` with two logins has 22 million, and satisfies
its invariants too (without the condition of `LogoutIsFinal`, which speaks of one login, that one fails). Two runners, one of
an older release, are the least in which a runner meets versions it does not know. `deployment` has one signal, because a second one makes `pool.end` reject and the process exit; its invariants were checked with both
signals too, over 9.8 million states. A limit of two lets a window admit two requests of which one races the other.
Deadlock is not checked: in every run the system may rightly stop when the bounds are used up and nobody asks for more.

*Fairness.* Outbox: `setInterval` polls for ever, so each worker's step is weakly fair; time passes, so leases and back-offs
end; a send transaction commits or rolls back. Claims that find nothing are disabled, so weak fairness suffices. Failing sends
need no fairness: attempts are counted. Consumer: the group assigns an unowned partition, kafkajs fetches, calls the handler,
and commits on its interval. SendMessage: the driver and PostgreSQL answer. Presence: a process executes its queue, intervals fire,
time passes. Session: the server answers and the browser handles the answers. Client: likewise, and the socket delivers what is on
its way. Deployment: calls end in an answer or an error, timers fire, transactions come to their end, and the advisory lock is handed out in the
order of the requests (strong fairness); nothing is assumed of the broker's group, of requests, signals or anybody who migrates.
Accounts: Redis drops a key whose time is over. Users, failures, crashes and expiries are never assumed to happen, with two exceptions in the list above that time
brings about.

## 4. Where the code departs from its documents

1. `history_subsecond` (the one run that expects a violation). The cursor is called a stable ordering key, but `mapMessage` loses the fraction
   of the second, and the next page skips the rest of that second. `LostOnlyWithinSecond` bounds the loss.

The models contain further departures, seen while they were written; the properties are stated around them, and each has a hazard:

2. Order. ADR 0016 (line 33) promises per-conversation ordering. Two overlapping sends can commit against the order of their sequence numbers,
   and the later one is then published first. `OrderedPublication` states what does hold.
3. Handshake. PHASE-09 (line 31) lets the socket refresh an expired token. The access cookie expires with its token, the handshake is then
   refused with `AUTH_REQUIRED`, and the tab is logged out although its session is alive. It is also logged out when a query for its session or
   user fails during a handshake, because the catch block of `io.use` calls every error but that of an expired token `AUTH_INVALID`.
   `OnlyEndedSessionsLogOut` leaves both out.
4. Startup. PHASE-15 (line 48) and PHASE-17 (lines 42, 86) make Kafka best effort. Nobody awaits the group-join promise while `consumer.run`
   is pending or after it has thrown: when its timer then fires, the unhandled rejection ends the process. `StartupSettles` allows for that.
5. Leak. The catch block of `initializeKafkaInfrastructure` (`client.ts:97`) resets both flags before it closes, so that what was connected
   stays connected; `OrderlyShutdown` therefore speaks of startups that ended with Kafka.
6. A signal during startup. Startup goes on opening what the shutdown closes. `OrderlyShutdown` excludes it (`early`), `ShutdownEnds` does not.
7. A server does not look for its schema (ADR 003:20 and PHASE-13:86 leave migrations to their own command): its polls fail until somebody
   has migrated, and `EventuallyRelays` shows that they recover.
8. A logout is final for one login only: a second login in a browser leaves the first session alive, and a late answer of its refresh can
   bring it back.
9. PHASE-02 keeps the refresh token stable so that refreshes do not end each other's session, and no refresh does. But a refresh that
   `restoreSession` sent without a token from a page that was not logged in, and that is refused after the login form has stored one, logs the tab
   out of its live session (`AuthProvider.tsx:45`). The model has this with one login; `OnlyEndedSessionsLogOut` calls the refusal outdated and leaves it out.

Also worth knowing: the views of online users are not refreshed when a dead process's leases run out, two processes can publish snapshots in
another order than they read them, a tab does not reload after a reconnect, a late rejection for an earlier
session can clear the cookies of a newer login, a refresh or reauthentication that merely fails logs out like a refused one, and with the default `KAFKA_NOTIFICATION_CONSUMER_FROM_BEGINNING` the records before a group's first commit
may be skipped.

## 5. Proofs

Each proof module states its inductive invariant as a conjunction of named parts, shows that every action keeps it, and derives the
properties from it. Nothing is assumed but the named assumptions on the constants, and each holds for every number of processes, users,
rows, faults and steps.

* `OutboxProofs` (`OutboxAssumption`: the bounds are natural numbers, batch size and attempts positive; `WorkersAssumption`: finitely many workers). `TypeCorrect` is `Spec => []TypeOK`.
  `NothingPublishedUnsent` (`NoPhantomPublish`) and `NothingAnnouncedUnstored` (`NoGhostEvent`) follow from `PublicationInv`: a worker marks
  rows published because it is in the state "sent", so the invariant says that whatever a worker in that state holds is in the log
  (`SentLogged`), hence that it holds committed rows only (`ClaimedCommitted`), whose aggregate never changes; that needs a sequence
  number to be given to one open transaction and never again (`Allocation`), and a row to be there exactly if its message is (`StoredTogether`).
  `ClaimsAreExclusive` and `SettledIsFinal` follow from `ClaimInv`: row locks are exclusive and lie on unfinished rows (`LockInv`), and a
  row that a worker holds is being processed and not due, unless its lease was outlived (`LeaseInv`). `PublicationIsOrdered`
  (`OrderedPublication`) follows from `OrderInv`: in an aggregate in which nothing committed late and no lease was outlived, what a worker
  has locked, and what it then holds, contains the unfinished rows before it (`Prefix`), because the locked frontier keeps every other claim out of the
  aggregate (`OneClaim`) between the two SELECTs of a claim. `OutboxImplementsAnnouncement` shows step by step that `Announcement` is
  implemented while neither happens (`Calm`), and `LoneSenderImplementsAnnouncement` that with one send at a time and no outlived lease neither does.
  `DuplicatesAreBounded` (`BoundedDuplicates`, the one place where `WorkersAssumption` is used) follows from `DuplicateInv`, which counts what
  can still happen to a row: after n faults and outlived leases at most n holders are late (`HolderInv`), each holder that would return the row to
  pending, and the row itself if it can be claimed, stands for one more attempt (`AttemptInv`), and each claim for one batch in the log (`RecordInv`).
* `PresenceProofs` is about the store and then about the servers on top of it.
  * The store (`PresenceAssumption`: clocks differ by at most `KeyTTL - Lease`). `StoreInvariant`, and from it `PresenceTypeCorrect`,
    `NoGhostOnline` (`ShownHasLease`) and `NobodyHidden` (`LeaseIsShown`). The sorted set of a user and the shared index are pruned at
    different times by different clocks, and the first can be dropped as a whole by its time to live; `LeasesWithinKey` ties the scores of both
    to that time, and the rest of `StoreInv` says that the index is the longest lease as long as it has an entry, and that what it lacks is live nowhere.
  * The servers (`ServerAssumption` besides: a heartbeat is shorter than the lease). `ServersUseStore` (`ServerSpec => Spec`): whatever the
    processes do, failing commands and crashes included, is a step of the store or leaves it alone; hence `ServersShowLeases`. `ServerInvariant`,
    and from it `ServerTypeCorrect`, `ConnectedAreOnline` (`ConnectedIsOnline`) and `NoLeaseIsLeft` (`NoLeaseAfterLeave`). `ServerInv` puts on
    top of `StoreInv` that queued commands are as old as the current tick and concern sockets of their process, that the newest mark
    of a connected socket is as old as its interval whether it waits in the queue or is the lease already (`UpInv`), and that no mark of a socket
    follows its leave (`GoneInv`). This is where the FIFO of a Redis client is needed.
* `ConversationProofs` begins with the two operators of `Ordering`, for every finite set and every strict total order on it: `InOrderSorts` (each
  element once, in order) and `NewestReaches` (a page is closed towards the newer rows, and a page with room is everything). Both count: what is
  before an element grows along the order (`RankGrows`), and every rank is taken (`RanksTaken`).
  * The tab (`ClientAssumption`: page size and messages to a second positive). `ClientTypeCorrect`, `NothingTwice` (`CacheOfConversation`),
    `EventsCoverTheLoad` (`NothingMissed`) and `ListsOnlyGrow` (`NothingForgotten`, an action property) from `ClientInv`. `PlaceInv` says that lists, the page and
    the answer to a post hold messages of their own conversation, lists without repetition. `CoverInv` is `NothingMissed` from the moment
    the page is read: as long as the socket has been connected since then, what the page was to show is on it, in the list or on its way. The
    merge keeps all this because its order, the second and then the place in the list, is total (`MergeAdds`).
  * The history (`MessageHistoryAssumption`: finitely many messages, at most 100 to a page). `HistoryTypeCorrect`, `PagesFitTogether` (`PagesInOrder`) and
    `OnlyTheSecondIsLost` (`LostOnlyWithinSecond`) from `HistoryInv`: a cursor is the oldest row shown, cut to its second, which is no later
    than the row (`CursorInv`, `TruncateEarlier`); and a row of the reader's start is shown, or before the cursor, or passed over in the second of a cut (`ReachInv`).
* `ConsumerProofs`. `ConsumerTypeCorrect`, `MarkerStandsWithEffect` and `NothingCommittedUnhandled` (`CommittedHandled`) from `ConsumerInv`: an
  offset, committed or resolved by a member, lies behind records with their effect only (`OffsetInv`), and a member in the middle of a
  record stands where that effect is already there or still its own to bring about (`WorkInv`).
* `SendMessageProofs`. `SendTypeCorrect`, `PairsShareConversation` (`OneConversation`), `MessagesStayAmongMembers` (`MessageAmongMembers`) and
  `ConflictsResolve` from `SendInv`: who may hold the unique key of a pair, what a request knows at each of its statements (`RequestInv`), and that
  members are inserted with their conversation (`RowInv`).
* `SessionProofs`. `SessionTypeCorrect`, `NobodyWaitsForNothing` (`NoOrphanWaiter`), `RefusedSessionsHaveEnded` (`OnlyEndedSessionsLogOut`) and
  `LogoutHolds` (`LogoutIsFinal`) from `SessionInv`: the shape of requests and answers on their way, a rejected refresh with a token being that of an
  ended session (`ShapeInv`), what the cookies may name (`GlobalInv`), and what each tab's calls wait for (`TabInv`). A request without a token can be
  refused to a tab that is logged in only if there has been a token: as long as the jar has never been filled (`NeverLoggedIn`), no tab is logged in
  and no request carries a token, and a jar that was filled is empty because the session `emptied` has ended.
* `DeploymentProofs` is about `Migrations`, then about `ServerProcess`, in `Deployment`.
  * `MigrationsTypeCorrect`, `RunnersNeverCollide` (`NoCollision`) and `MigrationsImplementHistory` (`MigrationsAssumption`): every
    step of a runner is a step of `SchemaHistory` or none, because only the holder of the advisory lock is between two versions and what it has
    selected is still true when it commits. `RunnersBesideServer` is `NoCollision` with a server at work on the same database: no step of
    the server is one of a runner.
  * `ServerTypeCorrect` and `ShutdownIsOrderly` (`OrderlyShutdown`), for any number of signals. `ServerInv` relates `flags`, what the program believes to be connected, to `links`,
    what is, at each position of the startup (`StartingInv`) and once it listens (`ListeningInv`): each shutdown closes what is still open when it gets
    there, unless the signal came before the startup was over.
* `AccountsProofs` (`AccountsAssumption`). `AccountsTypeCorrect`, `WindowKeepsLimit` (`LimitPerWindow`) and `AccountsImplementRegistry`: signup and
  login implement `Registry`, because the unique index decides what the check before it (`FindByEmail`) cannot.

Every invariant, action property and refinement that a passing run checks is proved as well. Out of the prover's reach, and only
model-checked: liveness, because the prover knows neither fairness nor `ENABLED` (`EventuallySettled` of the outbox and of the sessions, `EventuallyHandled`,
`EventuallyAnswered`, `EventuallyConsistent`, `EventuallyShown`, `ShutdownEnds`, `StartupSettles`, `EventuallyRelays`, `NobodyLockedOut`). The prover also has no
induction over data and no definition of `SortSeq`, on which the sorts of the community modules rest; this is why `Ordering` defines order by counting.

## 6. Not modelled

* The users list of the client (read-only, the effect of `useMessages` without a merge), observability (nothing reads the counters back),
  validation, configuration, routing, headers and error formatting (stateless checks of one request, which the models take as passed), the rest of
  the user interface, and build and load tests.
* Within modelled components: `Session` has no signup (the cookies of a login), no deleted user (the 401 of `refresh` with `revokeAllSessions`) and no
  button for logging out everywhere; the client store has no `clearMessages` (no caller) and the outbox no operational snapshot (read-only);
  `ServerProcess` has Kafka enabled. Password hashing, token signing and JSON are data.

## 7. Plan

1. Composition of outbox and consumer: each stored message is notified exactly once or dead-lettered.
2. Lemmas under the liveness properties that are invariants or step properties: what each waiting step leaves enabled.
