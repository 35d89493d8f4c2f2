---------------------------- MODULE ServerProcess ----------------------------
(***************************************************************************)
(* One server process from startServer to its exit: what it opens, in      *)
(* which order, and how shutdown takes it down again.  The startup, the    *)
(* shutdown of each signal, the notification consumer, the relay's poll    *)
(* and an HTTP request are coroutines of one process that interleave at    *)
(* every await.                                                            *)
(*                                                                         *)
(* What the consumer and the relay do to the database is modelled in       *)
(* NotificationConsumer and Outbox; here they only hold connections.       *)
(***************************************************************************)
EXTENDS Naturals

CONSTANTS
    Signals,       \* the signals that may arrive, of SIGTERM and SIGINT
    OutboxVersion, \* the migration that creates the outbox table
    MaxFaults      \* bound: failures of a poll

VARIABLES
    recorded,   \* the migrations applied; this process only reads the tables
    faults,
    start,      \* where startServer is; "listening", "degraded": it returned
    closing,    \* closing[k]: where closeKafkaInfrastructure and what follows
                \* it are, called by the catch block of the startup or a signal
    exit,       \* how the process ended
    flags,      \* producerConnected and consumerConnected
    links,      \* connections that are really open
    subscribed, \* runningConsumer is set
    join,       \* the groupJoin promise and its timer
    consuming,  \* Kafka delivers records to eachMessage
    handler,    \* processMessageCreatedEvent
    timer,      \* relayTimer is set
    polling,    \* relayRunning
    poll,       \* where the relay's poll is
    http,       \* the listening socket
    request,    \* an HTTP request that uses the database
    pool,       \* the PostgreSQL pool
    early       \* history: a signal arrived before startServer had returned

kafkaVars  == <<flags, subscribed, join, consuming>>
relayVars  == <<timer, polling, poll>>
workVars   == <<handler, request>>
serverVars == <<start, closing, exit, kafkaVars, links, relayVars, workVars,
                http, pool, early>>
externals  == <<recorded, faults>>

Clients == {"producer", "consumer"}

Returned == {"listening", "degraded"}

ServerInit ==
    /\ start = "postgres"
    /\ closing = [k \in Signals \cup {"init"} |-> "idle"]
    /\ exit = "running"
    /\ flags = {} /\ links = {}
    /\ subscribed = FALSE /\ join = "none" /\ consuming = FALSE
    /\ timer = FALSE /\ polling = FALSE /\ poll = "idle"
    /\ handler = "idle" /\ request = "idle"
    /\ http = "closed"
    /\ pool = "open"
    /\ early = FALSE

\* The pool's clients that are checked out.
InTransaction ==
    \/ start = "postgres"
    \/ poll \in {"claiming", "settling"}
    \/ "working" \in {handler, request}

Ready == pool = "open" /\ "client" \in links        \* GET /health/ready
KafkaConnected == flags = Clients                   \* getKafkaHealthSnapshot

-----------------------------------------------------------------------------
(* startServer *)

\* An awaited call of startServer rejects: exit(1).
StartFails ==
    /\ \/ start \in {"postgres", "redis", "subscriber", "ping"}
       \/ closing["init"] = "stopping" /\ subscribed
    /\ exit' = "failed"
    /\ UNCHANGED <<start, closing, kafkaVars, links, relayVars, workVars, http,
                   pool, early, externals>>

\* SELECT 1 succeeded; connectRedis opens the client.
VerifyPostgresConnection ==
    /\ start = "postgres" /\ pool = "open"
    /\ start' = "redis"
    /\ links' = links \cup {"client"}
    /\ UNCHANGED <<closing, exit, kafkaVars, relayVars, workVars, http, pool,
                   early, externals>>

ConnectRedis ==
    /\ start = "redis"
    /\ start' = "subscriber"
    /\ links' = links \cup {"subscriber"}
    /\ UNCHANGED <<closing, exit, kafkaVars, relayVars, workVars, http, pool,
                   early, externals>>

\* The subscriber is connected and the client answers PING.
VerifyRedisConnection ==
    /\ \/ start = "subscriber" /\ start' = "ping"
       \/ start = "ping" /\ "client" \in links /\ start' = "topics"
    /\ UNCHANGED <<closing, exit, kafkaVars, links, relayVars, workVars, http,
                   pool, early, externals>>

CreateTopics ==
    /\ start = "topics"
    /\ start' = "producer"
    /\ UNCHANGED <<closing, exit, kafkaVars, links, relayVars, workVars, http,
                   pool, early, externals>>

\* producer.connect, then consumer.connect, each followed by its flag.
ConnectKafka ==
    /\ \/ start = "producer" /\ start' = "consumer"
       \/ start = "consumer" /\ start' = "subscribe"
    /\ flags' = flags \cup {start}
    /\ links' = links \cup {start}
    /\ UNCHANGED <<closing, exit, subscribed, join, consuming, relayVars,
                   workVars, http, pool, early, externals>>

\* consumer.subscribe; the groupJoin promise and its timer; consumer.run.
Subscribe ==
    /\ start = "subscribe"
    /\ start' = "run"
    /\ subscribed' = TRUE
    /\ join' = "waiting"
    /\ UNCHANGED <<closing, exit, flags, links, consuming, relayVars, workVars,
                   http, pool, early, externals>>

\* consumer.run returns, perhaps before the group is joined.
RunReturns ==
    /\ start = "run"
    /\ start' = "join"
    /\ UNCHANGED <<closing, exit, kafkaVars, links, relayVars, workVars, http,
                   pool, early, externals>>

\* The broker lets the consumer into its group, in time or after the timer; a
\* stop called before that does not prevent it.
GroupJoin ==
    /\ subscribed /\ "consumer" \in links
    /\ \A k \in Signals : closing[k] # "consumer"
    /\ start \in {"run", "join"} \/ (start = "catch" /\ join = "none")
    /\ ~ consuming
    /\ join' = IF join = "waiting" THEN "joined" ELSE join
    /\ consuming' = TRUE
    /\ UNCHANGED <<start, closing, exit, flags, subscribed, links, relayVars,
                   workVars, http, pool, early, externals>>

\* await groupJoin: startOutboxRelay with its first poll, then server.listen.
KafkaInitialized ==
    /\ start = "join" /\ join = "joined"
    /\ start' = "listening"
    /\ http' = "listening"
    /\ timer' = TRUE
    /\ IF pool = "open" THEN polling' = TRUE /\ poll' = "claiming"
                        ELSE UNCHANGED <<polling, poll>>
    /\ UNCHANGED <<closing, exit, kafkaVars, links, workVars, pool, early,
                   externals>>

\* stopOutboxRelay, and the call of runningConsumer.stop: no record is
\* delivered any more.
BeginClose(k) ==
    /\ closing' = [closing EXCEPT ![k] = "stopping"]
    /\ timer' = FALSE
    /\ polling' = (polling /\ ~ timer)
    /\ consuming' = (consuming /\ ~ subscribed)

\* The catch block of initializeKafkaInfrastructure.
CatchKafka ==
    /\ start' = "catch"
    /\ flags' = {}
    /\ BeginClose("init")
    /\ UNCHANGED <<exit, subscribed, links, poll, workVars, http, pool, early,
                   externals>>

\* An awaited call of initializeKafkaInfrastructure rejects.
KafkaFails ==
    /\ start \in {"topics", "producer", "consumer", "subscribe", "run"}
    /\ CatchKafka
    /\ UNCHANGED join

\* Mutant: the groupJoin promise has no timer.
JoinTimeoutNever == FALSE

\* The timer of groupJoin rejects it.  Only "await groupJoin" observes that: a
\* rejection while consumer.run is still pending, or after it has thrown, is
\* unhandled and ends the process.
JoinTimeout ==
    /\ join = "waiting"
    /\ join' = "none"
    /\ IF start = "join"
         THEN CatchKafka
         ELSE /\ exit' = "failed"
              /\ UNCHANGED <<start, closing, flags, subscribed, consuming,
                             links, relayVars, workVars, http, pool, early,
                             externals>>

-----------------------------------------------------------------------------
(* closeKafkaInfrastructure, closeSocketInfrastructure, closePostgresPool *)

AfterConsumer == IF "producer" \in flags THEN "producer" ELSE "sockets"
AfterStop == IF "consumer" \in flags THEN "consumer" ELSE AfterConsumer

\* Control moves to position p.  Before "sockets" both flags are cleared; the
\* startup then goes on without Kafka, a shutdown calls io.close.
Proceed(k, p) ==
    /\ closing' = [closing EXCEPT ![k] = IF p = "sockets" /\ k = "init"
                                           THEN "done" ELSE p]
    /\ flags' = IF p = "sockets" THEN {} ELSE flags
    /\ start' = IF p = "sockets" /\ k = "init" THEN "degraded" ELSE start
    /\ http' = CASE p # "sockets" -> http
                 [] k = "init" -> "listening"
                 [] OTHER -> IF http = "listening" THEN "closing" ELSE http

\* stop() of the consumer has waited for the handler (it does not wait for a
\* consumer that was not in its group yet); disconnect() stops it for good.
ConsumerStopped(k) ==
    /\ closing[k] = "stopping"
    /\ subscribed => consuming \/ handler = "idle"
    /\ subscribed' = FALSE
    /\ Proceed(k, AfterStop)
    /\ consuming' = (consuming /\ AfterStop # "consumer")
    /\ UNCHANGED <<exit, join, links, relayVars, workVars, pool, early,
                   externals>>

\* consumer.disconnect; whether it throws or not, the shutdown goes on.
ConsumerDisconnected(k) ==
    /\ closing[k] = "consumer"
    /\ handler = "idle"
    /\ links' = links \ {"consumer"}
    /\ Proceed(k, AfterConsumer)
    /\ UNCHANGED <<exit, subscribed, join, consuming, relayVars, workVars, pool, early,
                   externals>>

ProducerDisconnected(k) ==
    /\ closing[k] = "producer"
    /\ links' = links \ {"producer"}
    /\ Proceed(k, "sockets")
    /\ UNCHANGED <<exit, subscribed, join, consuming, relayVars, workVars,
                   pool, early, externals>>

\* The next of the calls that close Redis: a client that is not open is left
\* out, and one that is asked to quit is no longer open.
Quit(k, from) ==
    LET c == IF from = "sockets" /\ "subscriber" \in links THEN "subscriber"
             ELSE IF from # "client" /\ "client" \in links THEN "client"
             ELSE "pool"
    IN  /\ closing' = [closing EXCEPT ![k] = c]
        /\ links' = links \ {c}

\* Mutant: io.close is not awaited.
SocketsClosedAtOnce(k) ==
    /\ closing[k] \in {"sockets", "subscriber", "client"}
    /\ Quit(k, closing[k])
    /\ http' = IF http = "closing" THEN "closed" ELSE http
    /\ UNCHANGED <<start, exit, kafkaVars, relayVars, workVars, pool, early,
                   externals>>

\* io.close has waited for the requests (it does not if the server was not
\* listening yet), or Redis has confirmed a quit.
SocketsClosed(k) ==
    /\ closing[k] \in {"sockets", "subscriber", "client"}
    /\ closing[k] = "sockets" /\ http = "closing" => request = "idle"
    /\ Quit(k, closing[k])
    /\ http' = IF http = "closing" THEN "closed" ELSE http
    /\ UNCHANGED <<start, exit, kafkaVars, relayVars, workVars, pool, early,
                   externals>>

\* pool.end is called; a second call of it rejects.
EndPool(k) ==
    /\ closing[k] = "pool"
    /\ pool' = IF pool = "open" THEN "ending" ELSE pool
    /\ exit' = IF pool = "open" THEN exit ELSE "failed"
    /\ closing' = [closing EXCEPT ![k] = "ending"]
    /\ UNCHANGED <<start, kafkaVars, links, relayVars, workVars, http, early,
                   externals>>

\* Every client was given back: the pool is closed, exit(0).
PoolEnded(k) ==
    /\ closing[k] = "ending" /\ pool = "ending"
    /\ ~ InTransaction
    /\ pool' = "ended"
    /\ exit' = "clean"
    /\ UNCHANGED <<start, closing, kafkaVars, links, relayVars, workVars, http,
                   early, externals>>

\* Mutant: the catch block of shutdown logs, and does not exit.
ShutdownFailsSilently(k) ==
    /\ \/ closing[k] = "stopping" /\ subscribed
       \/ closing[k] \in {"subscriber", "client"}
    /\ closing' = [closing EXCEPT ![k] = "done"]
    /\ UNCHANGED <<start, exit, kafkaVars, links, relayVars, workVars, http,
                   pool, early, externals>>

\* stop() or a quit rejects: exit(1).
ShutdownFails(k) ==
    /\ \/ closing[k] = "stopping" /\ subscribed
       \/ closing[k] \in {"subscriber", "client"}
    /\ exit' = "failed"
    /\ UNCHANGED <<start, closing, kafkaVars, links, relayVars, workVars, http,
                   pool, early, externals>>

\* process.once(k): each signal starts a shutdown of its own, at any time.
Signal(k) ==
    /\ closing[k] = "idle"
    /\ BeginClose(k)
    /\ early' = (early \/ start \notin Returned)
    /\ UNCHANGED <<start, exit, flags, subscribed, join, links, poll, workVars,
                   http, pool, externals>>

-----------------------------------------------------------------------------
(* The work that shutdown has to wait for *)

\* eachMessage checks a client out; it throws if the pool was closed.
Handle ==
    /\ consuming /\ "consumer" \in links
    /\ handler = "idle" /\ pool = "open"
    /\ handler' = "working"
    /\ UNCHANGED <<start, closing, exit, kafkaVars, links, relayVars, request,
                   http, pool, early, externals>>

Request ==
    /\ http = "listening"
    /\ request = "idle" /\ pool = "open"
    /\ request' = "working"
    /\ UNCHANGED <<start, closing, exit, kafkaVars, links, relayVars, handler,
                   http, pool, early, externals>>

\* COMMIT or ROLLBACK, and release.
HandleDone ==
    /\ handler = "working"
    /\ handler' = "idle"
    /\ UNCHANGED <<start, closing, exit, kafkaVars, links, relayVars, request,
                   http, pool, early, externals>>

RequestDone ==
    /\ request = "working"
    /\ request' = "idle"
    /\ UNCHANGED <<start, closing, exit, kafkaVars, links, relayVars, handler,
                   http, pool, early, externals>>

\* The interval of the relay fires; it starts no second poll.
Tick ==
    /\ timer /\ ~ polling
    /\ pool = "open"
    /\ polling' = TRUE
    /\ poll' = "claiming"
    /\ UNCHANGED <<start, closing, exit, kafkaVars, links, timer, workVars,
                   http, pool, early, externals>>

\* The finally block of poll.
PollEnds == poll' = "idle" /\ polling' = FALSE

\* Mutant: the flag is only reset by a poll that did not throw.
PollThrowsWedged ==
    /\ \/ poll = "claiming" /\ OutboxVersion \notin recorded /\ UNCHANGED faults
       \/ /\ poll \in {"claiming", "settling"}
          /\ faults < MaxFaults /\ faults' = faults + 1
       \/ poll = "publishing" /\ pool # "open" /\ UNCHANGED faults
    /\ poll' = "idle"
    /\ UNCHANGED <<start, closing, exit, kafkaVars, links, timer, polling,
                   workVars, http, pool, early, recorded>>

\* A statement fails, because of the database, because the table does not
\* exist yet, or because the pool is closed: the error ends this poll only.
PollThrows ==
    /\ \/ poll = "claiming" /\ OutboxVersion \notin recorded /\ UNCHANGED faults
       \/ /\ poll \in {"claiming", "settling"}
          /\ faults < MaxFaults /\ faults' = faults + 1
       \/ poll = "publishing" /\ pool # "open" /\ UNCHANGED faults
    /\ PollEnds
    /\ UNCHANGED <<start, closing, exit, kafkaVars, links, timer, workVars,
                   http, pool, early, recorded>>

\* The claim commits, with rows to publish or without.
Claim ==
    /\ poll = "claiming" /\ OutboxVersion \in recorded
    /\ PollEnds \/ (poll' = "publishing" /\ UNCHANGED polling)
    /\ UNCHANGED <<start, closing, exit, kafkaVars, links, timer, workVars,
                   http, pool, early, externals>>

\* The producer answers or throws; either outcome is settled in the table.
Published ==
    /\ poll = "publishing" /\ pool = "open"
    /\ poll' = "settling"
    /\ UNCHANGED <<start, closing, exit, kafkaVars, links, timer, polling,
                   workVars, http, pool, early, externals>>

\* The rows are settled.  After a success the next batch is claimed, if the
\* pool still gives out clients.
Settled ==
    /\ poll = "settling"
    /\ PollEnds \/ (pool = "open" /\ poll' = "claiming" /\ UNCHANGED polling)
    /\ UNCHANGED <<start, closing, exit, kafkaVars, links, timer, workVars,
                   http, pool, early, externals>>

-----------------------------------------------------------------------------
Close(k) ==
    \/ ConsumerStopped(k) \/ ConsumerDisconnected(k) \/ ProducerDisconnected(k)
Startup ==
    \/ VerifyPostgresConnection \/ ConnectRedis \/ VerifyRedisConnection
    \/ CreateTopics \/ ConnectKafka \/ Subscribe \/ RunReturns
    \/ KafkaInitialized \/ StartFails \/ KafkaFails \/ Close("init")
Shutdown(k) ==
    \/ Close(k) \/ SocketsClosed(k) \/ EndPool(k) \/ PoolEnded(k)
    \/ ShutdownFails(k)
Relay == Tick \/ PollThrows \/ Claim \/ Published \/ Settled

\* process.exit ends every coroutine.
ServerNext ==
    /\ exit = "running"
    /\ \/ Startup \/ JoinTimeout \/ GroupJoin
       \/ \E k \in Signals : Signal(k) \/ Shutdown(k)
       \/ Handle \/ HandleDone \/ Request \/ RequestDone
       \/ Relay
=============================================================================
