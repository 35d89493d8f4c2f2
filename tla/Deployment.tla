----------------------------- MODULE Deployment -----------------------------
(***************************************************************************)
(* A server process and the migration runners of its database.  Servers do *)
(* not migrate and do not look for the schema when they start, so that one *)
(* may run on a database that has no tables yet, and live through its      *)
(* migration.                                                              *)
(***************************************************************************)
EXTENDS Migrations

CONSTANTS Signals, OutboxVersion

\* "init" names the shutdown that a failed startup makes.
ASSUME DeploymentAssumption == "init" \notin Signals

VARIABLES start, closing, exit, flags, links, subscribed, join, consuming,
          handler, timer, polling, poll, http, request, pool, early

Server == INSTANCE ServerProcess

runnerOnly == <<hasTable, history, lock, step, file>>
serverOnly == <<start, closing, exit, flags, links, subscribed, join, consuming,
                handler, timer, polling, poll, http, request, pool, early>>
all == <<vars, serverOnly>>

DeploymentInit == Init /\ Server!ServerInit

\* Bound: the model ends with the process; the runners do not depend on it.
RunnerStep == exit = "running" /\ Next /\ UNCHANGED serverOnly
ServerStep == Server!ServerNext /\ UNCHANGED runnerOnly

DeploymentNext == RunnerStep \/ ServerStep

\* A step A of the server, while it runs.
Of(A) == exit = "running" /\ A /\ UNCHANGED runnerOnly

\* Calls to PostgreSQL, Redis and Kafka end, in an answer or in an error;
\* timers fire; what is in a transaction comes to its end.  Nothing says that
\* the broker ever lets the consumer into its group, that requests, records or
\* signals arrive, or that anybody migrates.
DeploymentFairness ==
    /\ \A m \in Migrators :
          /\ WF_all(exit = "running" /\ Work(m) /\ UNCHANGED serverOnly)
          /\ SF_all(exit = "running" /\ Lock(m) /\ UNCHANGED serverOnly)
    /\ WF_all(Of(Server!Startup))
    /\ WF_all(Of(Server!JoinTimeout))
    /\ \A k \in Signals : WF_all(Of(Server!Shutdown(k)))
    /\ WF_all(Of(Server!HandleDone))
    /\ WF_all(Of(Server!RequestDone))
    /\ WF_all(Of(Server!Relay))

DeploymentSpec ==
    DeploymentInit /\ [][DeploymentNext]_all /\ DeploymentFairness

-----------------------------------------------------------------------------
\* Once the startup has returned with Kafka, whatever is being worked on keeps
\* its tools until it is done: a record that is handled has the pool and the
\* producer for the DLQ, a request has the pool and Redis; and an exit with
\* code 0 leaves no connection open (the order of the calls in shutdown and
\* closeKafkaInfrastructure).  A signal before that is another matter: startup
\* and shutdown then open and close the same things side by side.
OrderlyShutdown ==
    start = "listening" /\ ~ early =>
        /\ consuming \/ handler = "working" =>
             pool = "open" /\ Server!KafkaConnected
        /\ request = "working" => Server!Ready
        /\ exit = "clean" => links = {}

\* Whatever the process was doing, a signal ends it (shutdown in index.ts).
ShutdownEnds ==
    (\E k \in Signals : closing[k] # "idle") ~> (exit # "running")

\* Kafka is optional at startup: with a broker that fails at any point, or that
\* never lets the consumer in, the server comes up or exits, and does not hang.
StartupSettles == <>(start \in Server!Returned \/ exit # "running")

\* A server that came up with Kafka on a database without tables goes on
\* failing its polls, and relays once somebody has migrated the database, even
\* with runs that died: the poll, its flag and its timer survive the failures.
EventuallyRelays ==
    /\ \E m \in {r \in Migrators : OutboxVersion <= Files[r]} :
         []<>(step[m] = "waiting")
    /\ <>[](exit = "running" /\ http = "listening" /\ Server!KafkaConnected)
    => []<><<Of(Server!Claim)>>_all
=============================================================================
