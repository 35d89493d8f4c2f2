-------------------------- MODULE DeploymentProofs --------------------------
(***************************************************************************)
(* Theorems about Deployment.  The migration runners, by themselves and    *)
(* beside a server: they never make each other fail, and implement         *)
(* SchemaHistory, for any runners, releases and faults.  The server: it    *)
(* shuts down in order, for any signals, beside any runners.               *)
(***************************************************************************)
EXTENDS Deployment, TLAPS

(* The migration runners. *)

\* Between pg_advisory_lock and pg_advisory_unlock.
Locked == Steps \ {"idle", "waiting"}

\* The version a runner works on is the next one.
OnNext == {"sql", "insert", "commit"}

MigrationsInv ==
    /\ TypeOK
    /\ recorded = 1 .. Len(history)
    /\ \A i \in 1 .. Len(history) : history[i] = i
    /\ \A m \in Migrators :
         /\ step[m] \in Locked => lock = m
         /\ file[m] > 0
         /\ step[m] = "select" => file[m] <= Len(history) + 1
         /\ step[m] \in OnNext => file[m] = Len(history) + 1

\* What the invariant says of the schema.
LEMMA InForceIsRecorded ==
    ASSUME MigrationsInv
    PROVE  InForce = 1 .. Len(history)
<1>1. DOMAIN history = 1 .. Len(history)
  BY DEF MigrationsInv, TypeOK
<1>2. \A i \in 1 .. Len(history) : history[i] = i
  BY DEF MigrationsInv
<1> QED BY <1>1, <1>2 DEF InForce

LEMMA InitMigrations == Init => MigrationsInv
<1> SUFFICES ASSUME Init PROVE MigrationsInv
  OBVIOUS
<1>1. TypeOK
  <2>1. history \in Seq(Nat) /\ recorded \subseteq Nat
    BY DEF Init
  <2>2. step \in [Migrators -> Steps] /\ file \in [Migrators -> Nat]
    BY DEF Init, Steps
  <2> QED BY <2>1, <2>2 DEF Init, TypeOK
<1>2. Len(history) = 0
  BY DEF Init
<1> QED BY <1>1, <1>2 DEF Init, MigrationsInv, Locked, OnNext, Steps

\* A step that leaves the versions alone, and takes m to a position that suits
\* the file it is on.
LEMMA QuietMigration ==
    ASSUME MigrationsInv, TypeOK', NEW m \in Migrators,
           UNCHANGED <<recorded, history>>,
           \A o \in Migrators \ {m} : step'[o] = step[o] /\ file'[o] = file[o],
           \A o \in Migrators \ {m} : lock = o => lock' = o,
           step'[m] \in Locked => lock' = m,
           file'[m] > 0,
           step'[m] = "select" => file'[m] <= Len(history) + 1,
           step'[m] \in OnNext => file'[m] = Len(history) + 1
    PROVE  MigrationsInv'
BY DEF MigrationsInv

\* Only one runner is between lock and unlock.
LEMMA Alone ==
    ASSUME MigrationsInv, NEW m \in Migrators, step[m] \in Locked,
           NEW o \in Migrators \ {m}
    PROVE  step[o] \notin Locked /\ lock # o
BY DEF MigrationsInv

\* The transaction of m takes effect: the next version does.
LEMMA AppliedVersion ==
    ASSUME MigrationsInv, TypeOK', NEW m \in Migrators,
           step[m] = "commit", Applied(m),
           \A o \in Migrators \ {m} : step'[o] = step[o] /\ file'[o] = file[o],
           step'[m] \in Locked => lock' = m,
           file'[m] > 0,
           step'[m] = "select" => file'[m] <= Len(history) + 2,
           step'[m] \notin OnNext
    PROVE  /\ MigrationsInv'
           /\ history' = Append(history, Len(history) + 1)
           /\ recorded' = recorded \cup {Len(history) + 1}
<1> DEFINE n == Len(history)
<1>1. n \in Nat /\ history \in Seq(Nat)
  BY DEF MigrationsInv, TypeOK
<1>2. file[m] = n + 1
  BY DEF MigrationsInv, OnNext
<1>3. history' = Append(history, n + 1) /\ recorded' = recorded \cup {n + 1}
  BY <1>2 DEF Applied
<1>4. Len(history') = n + 1 /\ \A i \in 1 .. n : history'[i] = history[i]
  BY <1>1, <1>3
<1>5. history'[n + 1] = n + 1
  BY <1>1, <1>3
<1>6. recorded' = 1 .. n + 1
  BY <1>1, <1>3 DEF MigrationsInv
<1>7. \A i \in 1 .. n + 1 : history'[i] = i
  BY <1>1, <1>4, <1>5 DEF MigrationsInv
<1>8. ASSUME NEW o \in Migrators
      PROVE  /\ step'[o] \in Locked => lock' = o
             /\ file'[o] > 0
             /\ step'[o] = "select" => file'[o] <= n + 2
             /\ step'[o] \in OnNext => file'[o] = n + 2
  <2>1. CASE o = m
    BY <2>1
  <2>2. CASE o # m
    <3>1. step'[o] \notin Locked /\ step'[o] # "select" /\ step'[o] \notin OnNext
      BY <2>2, Alone DEF Locked, Steps, OnNext, MigrationsInv, TypeOK
    <3> QED BY <2>2, <3>1 DEF MigrationsInv
  <2> QED BY <2>1, <2>2
<1>9. MigrationsInv'
  BY <1>1, <1>4, <1>6, <1>7, <1>8 DEF MigrationsInv
<1> QED BY <1>3, <1>9

-----------------------------------------------------------------------------
LEMMA NextFileTyped ==
    ASSUME TypeOK, NEW m \in Migrators, NEW f \in Nat, ToFile(m, f)
    PROVE  file' \in [Migrators -> Nat] /\ step' \in [Migrators -> Steps]
<1>1. CASE f <= Files[m]
  BY <1>1 DEF ToFile, Goto, TypeOK, Steps
<1>2. CASE ~ (f <= Files[m])
  BY <1>2 DEF ToFile, Goto, TypeOK, Steps
<1> QED BY <1>1, <1>2

LEMMA TypesOfWork ==
    ASSUME TypeOK, NEW m \in Migrators,
           Start(m) \/ Work(m) \/ StatementFails(m) \/ SessionLost(m)
    PROVE  TypeOK'
<1>1. Files[m] \in Nat /\ MaxFaults \in Nat
  BY MigrationsAssumption
<1>2. CASE Start(m) \/ Lock(m) \/ Rollback(m) \/ Unlock(m)
  BY <1>2 DEF Start, Lock, Rollback, Unlock, Goto, TypeOK, Steps, dbVars
<1>3. CASE EnsureMigrationsTable(m) \/ SelectVersion(m)
  <2>1. /\ \/ ToFile(m, 1) \/ ToFile(m, file[m] + 1)
           \/ Goto(m, "sql") /\ UNCHANGED file
        /\ file[m] + 1 \in Nat /\ 1 \in Nat
    BY <1>3 DEF EnsureMigrationsTable, SelectVersion, TypeOK
  <2>2. CASE Goto(m, "sql") /\ UNCHANGED file
    BY <1>3, <2>2 DEF EnsureMigrationsTable, SelectVersion, Goto, TypeOK, Steps, dbVars
  <2>3. CASE ToFile(m, 1) \/ ToFile(m, file[m] + 1)
    <3>1. file' \in [Migrators -> Nat] /\ step' \in [Migrators -> Steps]
      BY <2>1, <2>3, NextFileTyped
    <3> QED BY <1>3, <3>1 DEF EnsureMigrationsTable, SelectVersion, TypeOK, dbVars
  <2> QED BY <2>1, <2>2, <2>3
<1>4. CASE RunSql(m) \/ InsertVersion(m)
  <2>1. file' \in [Migrators -> Nat] /\ step' \in [Migrators -> Steps]
    BY <1>4 DEF RunSql, InsertVersion, Abandon, Goto, TypeOK, Steps
  <2> QED BY <1>4, <2>1 DEF RunSql, InsertVersion, TypeOK, dbVars
<1>5. ASSUME Applied(m)
      PROVE  history' \in Seq(Nat) /\ recorded' \subseteq Nat
  <2>1. file[m] \in Nat /\ history \in Seq(Nat) /\ recorded \subseteq Nat
    BY DEF TypeOK
  <2>2. history' \in Seq(Nat)
    BY <1>5, <2>1 DEF Applied
  <2>3. recorded' \subseteq Nat
    BY <1>5, <2>1 DEF Applied
  <2> QED BY <2>2, <2>3
<1>6. CASE CommitVersion(m)
  <2>1. ToFile(m, file[m] + 1) /\ file[m] + 1 \in Nat
    BY <1>6 DEF CommitVersion, TypeOK
  <2>2. file' \in [Migrators -> Nat] /\ step' \in [Migrators -> Steps]
    BY <2>1, NextFileTyped
  <2> QED BY <1>5, <1>6, <2>2 DEF CommitVersion, TypeOK
<1>7. CASE StatementFails(m)
  <2>1. file' \in [Migrators -> Nat] /\ step' \in [Migrators -> Steps]
    BY <1>7 DEF StatementFails, Abandon, Goto, TypeOK, Steps
  <2> QED BY <1>1, <1>7, <2>1 DEF StatementFails, TypeOK, dbVars
<1>8. CASE SessionLost(m)
  <2>1. file' \in [Migrators -> Nat] /\ step' \in [Migrators -> Steps]
    BY <1>8 DEF SessionLost, Goto, TypeOK, Steps
  <2>2. /\ history' \in Seq(Nat) /\ recorded' \subseteq Nat
        /\ lock' \in Migrators \cup {NoMigrator}
    BY <1>5, <1>8 DEF SessionLost, TypeOK
  <2> QED BY <1>1, <1>8, <2>1, <2>2 DEF SessionLost, TypeOK
<1> QED BY <1>2, <1>3, <1>4, <1>6, <1>7, <1>8 DEF Work

\* Every step of a runner keeps the invariant; the versions it makes effective
\* are the next one, or none.
LEMMA StepOfRunner ==
    ASSUME MigrationsInv, NEW m \in Migrators,
           Start(m) \/ Work(m) \/ StatementFails(m) \/ SessionLost(m)
    PROVE  /\ MigrationsInv'
           /\ \/ UNCHANGED <<history, recorded>>
              \/ /\ history' = Append(history, Len(history) + 1)
                 /\ recorded' = recorded \cup {Len(history) + 1}
<1> USE DEF Locked, OnNext, Steps, Goto
<1>1. TypeOK /\ TypeOK'
  BY TypesOfWork DEF MigrationsInv
<1>2. /\ Len(history) \in Nat
      /\ \A o \in Migrators : file[o] \in Nat \ {0}
  BY <1>1 DEF MigrationsInv, TypeOK
<1>3. CASE Start(m)
  BY <1>1, <1>2, <1>3, QuietMigration DEF Start, dbVars, TypeOK, MigrationsInv
<1>4. CASE Lock(m)
  <2>1. \A o \in Migrators : lock # o
    BY <1>4, MigrationsAssumption DEF Lock
  <2> QED BY <1>1, <1>2, <1>4, <2>1, QuietMigration DEF Lock, dbVars, TypeOK, MigrationsInv
<1>5. CASE EnsureMigrationsTable(m)
  <2>1. /\ \A o \in Migrators \ {m} : step'[o] = step[o] /\ file'[o] = file[o]
        /\ step'[m] \in {"select", "unlock"} /\ file'[m] = 1 /\ lock' = lock
        /\ UNCHANGED <<recorded, history>>
    BY <1>1, <1>5 DEF EnsureMigrationsTable, ToFile, TypeOK
  <2>2. lock = m /\ 1 <= Len(history) + 1
    BY <1>2, <1>5 DEF EnsureMigrationsTable, MigrationsInv
  <2> QED BY <1>1, <2>1, <2>2, QuietMigration
<1>6. CASE SelectVersion(m)
  <2>1. /\ lock = m /\ lock' = lock /\ UNCHANGED <<recorded, history>>
        /\ file[m] <= Len(history) + 1 /\ file[m] \in Nat \ {0}
    BY <1>2, <1>6 DEF SelectVersion, dbVars, MigrationsInv
  <2>2. CASE file[m] \in recorded
    <3>1. file[m] + 1 <= Len(history) + 1 /\ file[m] + 1 > 0
      BY <1>2, <2>2 DEF MigrationsInv
    <3>2. /\ \A o \in Migrators \ {m} : step'[o] = step[o] /\ file'[o] = file[o]
          /\ \/ step'[m] = "select" /\ file'[m] = file[m] + 1
             \/ step'[m] = "unlock" /\ file'[m] = 1
      BY <1>1, <1>6, <2>2 DEF SelectVersion, ToFile, TypeOK
    <3> QED BY <1>1, <2>1, <3>1, <3>2, QuietMigration
  <2>3. CASE file[m] \notin recorded
    <3>1. file[m] = Len(history) + 1
      BY <1>2, <2>1, <2>3 DEF MigrationsInv
    <3>2. /\ \A o \in Migrators \ {m} : step'[o] = step[o] /\ file'[o] = file[o]
          /\ step'[m] = "sql" /\ file'[m] = file[m]
      BY <1>1, <1>6, <2>3 DEF SelectVersion, TypeOK
    <3> QED BY <1>1, <2>1, <3>1, <3>2, QuietMigration
  <2> QED BY <2>2, <2>3
<1>7. CASE RunSql(m)
  BY <1>1, <1>2, <1>7, QuietMigration DEF RunSql, Abandon, dbVars, TypeOK, MigrationsInv
<1>8. CASE InsertVersion(m)
  BY <1>1, <1>2, <1>8, QuietMigration DEF InsertVersion, Abandon, dbVars, TypeOK, MigrationsInv
<1>9. CASE CommitVersion(m)
  <2>1. file[m] = Len(history) + 1 /\ lock = m
    BY <1>9 DEF CommitVersion, MigrationsInv
  <2>2. /\ \A o \in Migrators \ {m} : step'[o] = step[o] /\ file'[o] = file[o]
        /\ step'[m] \notin OnNext /\ lock' = m
        /\ file'[m] > 0
        /\ step'[m] = "select" => file'[m] <= Len(history) + 2
    BY <1>1, <1>2, <1>9, <2>1 DEF CommitVersion, ToFile, TypeOK
  <2> QED BY <1>1, <1>9, <2>2, AppliedVersion DEF CommitVersion
<1>10. CASE Rollback(m)
  BY <1>1, <1>2, <1>10, QuietMigration DEF Rollback, dbVars, TypeOK, MigrationsInv
<1>11. CASE Unlock(m)
  <2>1. \A o \in Migrators \ {m} : lock = o => lock' = o
    BY <1>11 DEF Unlock
  <2> QED BY <1>1, <1>2, <1>11, <2>1, QuietMigration DEF Unlock, dbVars, TypeOK, MigrationsInv
<1>12. CASE StatementFails(m)
  <2>1. /\ \A o \in Migrators \ {m} : step'[o] = step[o] /\ file'[o] = file[o]
        /\ step'[m] \in {"rollback", "unlock"} /\ file'[m] \in {1, file[m]}
        /\ step[m] \in Locked /\ lock' = lock
        /\ UNCHANGED <<recorded, history>>
    BY <1>1, <1>12 DEF StatementFails, Abandon, dbVars, TypeOK
  <2>2. lock = m /\ file'[m] > 0
    BY <1>2, <2>1 DEF MigrationsInv
  <2> QED BY <1>1, <2>1, <2>2, QuietMigration
<1>13. CASE SessionLost(m)
  <2>1. /\ \A o \in Migrators \ {m} : step'[o] = step[o] /\ file'[o] = file[o]
        /\ step'[m] = "idle" /\ file'[m] = 1
    BY <1>1, <1>13 DEF SessionLost, TypeOK
  <2>2. CASE UNCHANGED <<history, recorded>>
    <3>1. \A o \in Migrators \ {m} : lock = o => lock' = o
      BY <1>13 DEF SessionLost
    <3> QED BY <1>1, <2>1, <2>2, <3>1, QuietMigration
  <2>3. CASE step[m] = "commit" /\ Applied(m)
    BY <1>1, <1>2, <2>1, <2>3, AppliedVersion
  <2> QED BY <1>13, <2>2, <2>3 DEF SessionLost
<1> QED BY <1>3, <1>4, <1>5, <1>6, <1>7, <1>8, <1>9, <1>10, <1>11, <1>12, <1>13
        DEF Work

LEMMA StutterMigrations == MigrationsInv /\ UNCHANGED vars => MigrationsInv'
BY DEF MigrationsInv, TypeOK, vars, dbVars

LEMMA MigrationsInvariant == Spec => []MigrationsInv
<1>1. MigrationsInv /\ [Next]_vars => MigrationsInv'
  BY StepOfRunner, StutterMigrations DEF Next
<1> QED BY InitMigrations, <1>1, PTL DEF Spec

-----------------------------------------------------------------------------
\* Every variable keeps its type.
THEOREM MigrationsTypeCorrect == Spec => []TypeOK
<1>1. MigrationsInv => TypeOK
  BY DEF MigrationsInv
<1> QED BY <1>1, MigrationsInvariant, PTL

LEMMA NeverColliding == MigrationsInv => NoCollision
<1> SUFFICES ASSUME MigrationsInv, NEW m \in Migrators
             PROVE  /\ step[m] = "sql" => Runs(m) /\ file[m] \notin recorded
                    /\ step[m] = "insert" => file[m] \notin recorded
  BY DEF NoCollision
<1>1. Len(history) \in Nat /\ recorded = 1 .. Len(history)
  BY DEF MigrationsInv, TypeOK
<1>2. step[m] \in {"sql", "insert"} => file[m] = Len(history) + 1
  BY DEF MigrationsInv, OnNext
<1>3. step[m] \in {"sql", "insert"} => file[m] \notin recorded
  BY <1>1, <1>2
<1>4. step[m] = "sql" => 1 .. file[m] - 1 = 1 .. Len(history)
  BY <1>1, <1>2
<1> QED BY <1>3, <1>4, InForceIsRecorded DEF Runs

\* A runner about to run a file finds the schema the file was written for, and
\* no record of it: the advisory lock keeps runners from failing one another.
THEOREM RunnersNeverCollide == Spec => []NoCollision
  BY NeverColliding, MigrationsInvariant, PTL

\* The versions take effect in order, each once and together with its record,
\* whatever statements fail and connections are lost.
THEOREM MigrationsImplementHistory == Spec => ImplementsSchemaHistory
<1>1. Init => H!Init
  BY DEF Init, H!Init
<1>2. MigrationsInv /\ [Next]_vars => [H!Apply]_<<history, recorded>>
  <2>1. ASSUME MigrationsInv, NEW m \in Migrators,
               Start(m) \/ Work(m) \/ StatementFails(m) \/ SessionLost(m)
        PROVE  H!Apply \/ UNCHANGED <<history, recorded>>
    BY <2>1, StepOfRunner DEF H!Apply
  <2>2. UNCHANGED vars => UNCHANGED <<history, recorded>>
    BY DEF vars, dbVars
  <2> QED BY <2>1, <2>2 DEF Next
<1> QED BY <1>1, <1>2, MigrationsInvariant, PTL
        DEF Spec, ImplementsSchemaHistory, H!Spec

-----------------------------------------------------------------------------
(* Runners beside a server. *)

\* The server reads the tables and counts its faults, and that is all.
LEMMA ServerReadsOnly ==
    ASSUME Server!ServerNext
    PROVE  recorded' = recorded /\ faults' \in {faults, faults + 1}
<1> USE DEF Server!externals
<1>1. CASE Server!Startup \/ Server!JoinTimeout \/ Server!GroupJoin
  BY <1>1 DEF Server!Startup, Server!VerifyPostgresConnection, Server!ConnectRedis,
     Server!VerifyRedisConnection, Server!CreateTopics, Server!ConnectKafka,
     Server!Subscribe, Server!RunReturns, Server!KafkaInitialized, Server!StartFails,
     Server!KafkaFails, Server!CatchKafka, Server!Close, Server!ConsumerStopped,
     Server!ConsumerDisconnected, Server!ProducerDisconnected, Server!JoinTimeout,
     Server!GroupJoin
<1>2. CASE \E k \in Signals : Server!Signal(k) \/ Server!Shutdown(k)
  BY <1>2 DEF Server!Signal, Server!Shutdown, Server!Close, Server!ConsumerStopped,
     Server!ConsumerDisconnected, Server!ProducerDisconnected, Server!SocketsClosed,
     Server!EndPool, Server!PoolEnded, Server!ShutdownFails
<1>3. CASE \/ Server!Handle \/ Server!HandleDone
           \/ Server!Request \/ Server!RequestDone
  BY <1>3 DEF Server!Handle, Server!HandleDone, Server!Request, Server!RequestDone
<1>4. CASE Server!Relay
  BY <1>4 DEF Server!Relay, Server!Tick, Server!PollThrows, Server!Claim,
              Server!Published, Server!Settled
<1> QED BY <1>1, <1>2, <1>3, <1>4 DEF Server!ServerNext

LEMMA RunnersInvariant == DeploymentSpec => []MigrationsInv
<1>1. ASSUME MigrationsInv, ServerStep PROVE MigrationsInv'
  <2>1. /\ UNCHANGED <<hasTable, recorded, history, lock, step, file>>
        /\ faults' \in Nat
    BY <1>1, ServerReadsOnly DEF ServerStep, runnerOnly, MigrationsInv, TypeOK
  <2> QED BY <1>1, <2>1 DEF MigrationsInv, TypeOK
<1>2. MigrationsInv /\ [DeploymentNext]_all => MigrationsInv'
  BY <1>1, StepOfRunner, StutterMigrations
     DEF DeploymentNext, RunnerStep, Next, all
<1> QED BY <1>2, InitMigrations, PTL DEF DeploymentSpec, DeploymentInit

\* A server that runs on the database while it is migrated neither makes the
\* runners collide nor shows in the history of the schema.
THEOREM RunnersBesideServer ==
    DeploymentSpec => []NoCollision /\ ImplementsSchemaHistory
<1>1. Init => H!Init
  BY DEF Init, H!Init
<1>2. MigrationsInv /\ [DeploymentNext]_all => [H!Apply]_<<history, recorded>>
  <2>1. ServerStep => UNCHANGED <<history, recorded>>
    BY ServerReadsOnly DEF ServerStep, runnerOnly
  <2>2. ASSUME MigrationsInv, NEW m \in Migrators,
               Start(m) \/ Work(m) \/ StatementFails(m) \/ SessionLost(m)
        PROVE  H!Apply \/ UNCHANGED <<history, recorded>>
    BY <2>2, StepOfRunner DEF H!Apply
  <2>3. UNCHANGED all => UNCHANGED <<history, recorded>>
    BY DEF all, vars, dbVars
  <2> QED BY <2>1, <2>2, <2>3 DEF DeploymentNext, RunnerStep, Next
<1> QED BY <1>1, <1>2, NeverColliding, RunnersInvariant, PTL
        DEF DeploymentSpec, DeploymentInit, ImplementsSchemaHistory, H!Spec

-----------------------------------------------------------------------------
(* The server process. *)

Starting == {"postgres", "redis", "subscriber", "ping", "topics", "producer",
             "consumer", "subscribe", "run", "join"}

\* Where a shutdown is once io.close has returned.
Drained == {"subscriber", "client", "pool", "ending"}

\* ... and once both Kafka clients are closed.
KafkaClosed == {"sockets"} \cup Drained

Positions == {"idle", "stopping", "consumer", "producer", "done"} \cup KafkaClosed

ServerTypeOK ==
    /\ start \in Starting \cup {"listening", "catch", "degraded"}
    /\ closing \in [Signals \cup {"init"} -> Positions]
    /\ exit \in {"running", "clean", "failed"}
    /\ flags \subseteq Server!Clients
    /\ links \subseteq Server!Clients \cup {"client", "subscriber"}
    /\ {subscribed, consuming, timer, polling, early} \subseteq BOOLEAN
    /\ join \in {"none", "waiting", "joined"}
    /\ {handler, request} \subseteq {"idle", "working"}
    /\ poll \in {"idle", "claiming", "publishing", "settling"}
    /\ http \in {"closed", "listening", "closing"}
    /\ pool \in {"open", "ending", "ended"}

\* A startup that no signal has disturbed: nothing is taken down yet, and what
\* is needed further on is there.
StartingInv ==
    start \in Starting /\ ~ early =>
      /\ \A k \in Signals \cup {"init"} : closing[k] = "idle"
      /\ exit # "clean" /\ pool = "open" /\ http = "closed"
      /\ request # "working"
      /\ consuming \/ handler = "working" => subscribed
      /\ subscribed <=> start \in {"run", "join"}
      /\ start = "consumer" => "producer" \in flags
      /\ start \in {"subscribe", "run", "join"} => flags = Server!Clients
      /\ start # "postgres" => "client" \in links

\* Both shutdowns, when two signals have come, have taken the same things down
\* by the time one of them is past the step that does.
ListeningInv ==
    start = "listening" /\ ~ early =>
      /\ closing["init"] = "idle"
      /\ subscribed <=> \A k \in Signals : closing[k] \in {"idle", "stopping"}
      /\ consuming => \A k \in Signals : closing[k] = "idle"
      /\ consuming \/ handler = "working" => subscribed
      /\ flags \in {Server!Clients, {}}
      /\ flags = Server!Clients <=> \A k \in Signals : closing[k] \notin KafkaClosed
      /\ flags = {} => links \cap Server!Clients = {} /\ http # "listening"
      /\ request = "working" => http # "closed"
      /\ http # "closed" <=> \A k \in Signals : closing[k] \notin Drained
      /\ http # "closed" => "client" \in links
      /\ pool # "open" \/ exit = "clean" => \E k \in Signals : closing[k] = "ending"
      /\ \A k \in Signals :
           /\ closing[k] # "done"
           /\ closing[k] = "producer" => "consumer" \notin links
           /\ closing[k] \in Drained => "subscriber" \notin links
           /\ closing[k] \in Drained \ {"subscriber"} => "client" \notin links

ServerInv == ServerTypeOK /\ StartingInv /\ ListeningInv

-----------------------------------------------------------------------------
LEMMA ServerInitFits == Server!ServerInit => ServerInv
<1> SUFFICES ASSUME Server!ServerInit PROVE ServerInv
  OBVIOUS
<1>1. ServerTypeOK
  BY DEF Server!ServerInit, ServerTypeOK, Starting, Positions, Server!Clients
<1>2. StartingInv /\ ListeningInv
  BY DEF Server!ServerInit, StartingInv, ListeningInv, Starting
<1> QED BY <1>1, <1>2 DEF ServerInv

\* Moving one shutdown on.
LEMMA OneShutdown ==
    ASSUME ServerTypeOK, NEW k \in Signals \cup {"init"}, NEW p \in Positions,
           closing' = [closing EXCEPT ![k] = p]
    PROVE  /\ closing' \in [Signals \cup {"init"} -> Positions]
           /\ closing'[k] = p
           /\ \A j \in (Signals \cup {"init"}) \ {k} : closing'[j] = closing[j]
BY DEF ServerTypeOK

LEMMA TypesOfStartup ==
    ASSUME ServerTypeOK, Server!Startup \/ Server!JoinTimeout \/ Server!GroupJoin
    PROVE  ServerTypeOK' \/ Server!Close("init")
<1> USE DEF Server!kafkaVars, Server!relayVars, Server!workVars, Server!externals,
            Server!Clients
<1>1. ASSUME Server!CatchKafka, join' \in {join, "none"} PROVE ServerTypeOK'
  <2>1. closing' \in [Signals \cup {"init"} -> Positions]
    BY <1>1, OneShutdown DEF Server!CatchKafka, Server!BeginClose, Positions
  <2> QED BY <1>1, <2>1 DEF Server!CatchKafka, Server!BeginClose, ServerTypeOK
<1>2. CASE Server!StartFails
  BY <1>2 DEF Server!StartFails, ServerTypeOK
<1>3. CASE Server!VerifyPostgresConnection
  BY <1>3 DEF Server!VerifyPostgresConnection, ServerTypeOK, Starting
<1>4. CASE Server!ConnectRedis
  BY <1>4 DEF Server!ConnectRedis, ServerTypeOK, Starting
<1>5. CASE Server!VerifyRedisConnection
  BY <1>5 DEF Server!VerifyRedisConnection, ServerTypeOK, Starting
<1>6. CASE Server!CreateTopics
  BY <1>6 DEF Server!CreateTopics, ServerTypeOK, Starting
<1>7. CASE Server!ConnectKafka
  BY <1>7 DEF Server!ConnectKafka, ServerTypeOK, Starting
<1>8. CASE Server!Subscribe
  BY <1>8 DEF Server!Subscribe, ServerTypeOK, Starting
<1>9. CASE Server!RunReturns
  BY <1>9 DEF Server!RunReturns, ServerTypeOK, Starting
<1>10. CASE Server!KafkaInitialized
  BY <1>10 DEF Server!KafkaInitialized, ServerTypeOK
<1>11. CASE Server!KafkaFails
  BY <1>1, <1>11 DEF Server!KafkaFails
<1>12. CASE Server!JoinTimeout
  <2>1. CASE start = "join"
    BY <1>1, <1>12, <2>1 DEF Server!JoinTimeout
  <2>2. CASE start # "join"
    BY <1>12, <2>2 DEF Server!JoinTimeout, ServerTypeOK
  <2> QED BY <2>1, <2>2
<1>13. CASE Server!GroupJoin
  BY <1>13 DEF Server!GroupJoin, ServerTypeOK
<1> QED BY <1>2, <1>3, <1>4, <1>5, <1>6, <1>7, <1>8, <1>9, <1>10, <1>11, <1>12,
           <1>13 DEF Server!Startup

LEMMA TypesOfProceed ==
    ASSUME ServerTypeOK, NEW k \in Signals \cup {"init"},
           NEW p \in {"consumer", "producer", "sockets"}, Server!Proceed(k, p)
    PROVE  /\ closing' \in [Signals \cup {"init"} -> Positions]
           /\ flags' \subseteq Server!Clients
           /\ start' \in Starting \cup {"listening", "catch", "degraded"}
           /\ http' \in {"closed", "listening", "closing"}
<1>1. closing' \in [Signals \cup {"init"} -> Positions]
  BY OneShutdown DEF Server!Proceed, Positions, KafkaClosed
<1> QED BY <1>1 DEF Server!Proceed, ServerTypeOK

LEMMA TypesOfClose ==
    ASSUME ServerTypeOK, NEW k \in Signals \cup {"init"}, Server!Close(k)
    PROVE  ServerTypeOK'
<1> USE DEF Server!kafkaVars, Server!relayVars, Server!workVars, Server!externals
<1>1. /\ Server!AfterStop \in {"consumer", "producer", "sockets"}
      /\ Server!AfterConsumer \in {"producer", "sockets"}
  BY DEF Server!AfterStop, Server!AfterConsumer
<1>2. CASE Server!ConsumerStopped(k)
  <2>1. Server!Proceed(k, Server!AfterStop)
    BY <1>2 DEF Server!ConsumerStopped
  <2> QED BY <1>1, <1>2, <2>1, TypesOfProceed DEF Server!ConsumerStopped, ServerTypeOK
<1>3. CASE Server!ConsumerDisconnected(k)
  <2>1. Server!Proceed(k, Server!AfterConsumer)
    BY <1>3 DEF Server!ConsumerDisconnected
  <2> QED BY <1>1, <1>3, <2>1, TypesOfProceed DEF Server!ConsumerDisconnected, ServerTypeOK
<1>4. CASE Server!ProducerDisconnected(k)
  <2>1. Server!Proceed(k, "sockets")
    BY <1>4 DEF Server!ProducerDisconnected
  <2> QED BY <1>4, <2>1, TypesOfProceed DEF Server!ProducerDisconnected, ServerTypeOK
<1> QED BY <1>2, <1>3, <1>4 DEF Server!Close

LEMMA TypesOfShutdown ==
    ASSUME ServerTypeOK, NEW k \in Signals, Server!Signal(k) \/ Server!Shutdown(k)
    PROVE  ServerTypeOK'
<1> USE DEF Server!kafkaVars, Server!relayVars, Server!workVars, Server!externals
<1>1. CASE Server!Signal(k)
  <2>1. closing' \in [Signals \cup {"init"} -> Positions]
    BY <1>1, OneShutdown DEF Server!Signal, Server!BeginClose, Positions
  <2> QED BY <1>1, <2>1 DEF Server!Signal, Server!BeginClose, ServerTypeOK
<1>2. CASE Server!SocketsClosed(k)
  <2>1. closing' \in [Signals \cup {"init"} -> Positions] /\ links' \subseteq links
    BY <1>2, OneShutdown DEF Server!SocketsClosed, Server!Quit, Positions,
                             KafkaClosed, Drained
  <2> QED BY <1>2, <2>1 DEF Server!SocketsClosed, ServerTypeOK
<1>3. CASE Server!EndPool(k)
  <2>1. closing' \in [Signals \cup {"init"} -> Positions]
    BY <1>3, OneShutdown DEF Server!EndPool, Positions, KafkaClosed, Drained
  <2> QED BY <1>3, <2>1 DEF Server!EndPool, ServerTypeOK
<1>4. CASE Server!PoolEnded(k)
  BY <1>4 DEF Server!PoolEnded, ServerTypeOK
<1>5. CASE Server!ShutdownFails(k)
  BY <1>5 DEF Server!ShutdownFails, ServerTypeOK
<1>6. CASE Server!Close(k)
  BY <1>6, TypesOfClose
<1> QED BY <1>1, <1>2, <1>3, <1>4, <1>5, <1>6 DEF Server!Shutdown

\* Records, requests and polls.
LEMMA TypesOfServing ==
    ASSUME ServerTypeOK,
           \/ Server!Handle \/ Server!HandleDone
           \/ Server!Request \/ Server!RequestDone \/ Server!Relay
    PROVE  ServerTypeOK'
<1> USE DEF Server!kafkaVars, Server!relayVars, Server!workVars, Server!externals
<1>1. CASE Server!Handle \/ Server!HandleDone
  BY <1>1 DEF Server!Handle, Server!HandleDone, ServerTypeOK
<1>2. CASE Server!Request \/ Server!RequestDone
  BY <1>2 DEF Server!Request, Server!RequestDone, ServerTypeOK
<1>3. CASE Server!Relay
  <2>1. CASE Server!Tick \/ Server!PollThrows
    BY <2>1 DEF Server!Tick, Server!PollThrows, Server!PollEnds, ServerTypeOK
  <2>2. CASE Server!Claim
    BY <2>2 DEF Server!Claim, Server!PollEnds, ServerTypeOK
  <2>3. CASE Server!Published
    BY <2>3 DEF Server!Published, ServerTypeOK
  <2>4. CASE Server!Settled
    BY <2>4 DEF Server!Settled, Server!PollEnds, ServerTypeOK
  <2> QED BY <1>3, <2>1, <2>2, <2>3, <2>4 DEF Server!Relay
<1> QED BY <1>1, <1>2, <1>3

-----------------------------------------------------------------------------
\* What neither starts nor closes anything keeps the invariant.
LEMMA QuietServer ==
    ASSUME ServerInv,
           start' = start, closing' = closing, exit' = exit \/ exit' = "failed",
           flags' = flags, links' = links, subscribed' = subscribed,
           consuming' = consuming, http' = http, pool' = pool, early' = early,
           handler' = "working" => handler = "working" \/ consuming,
           request' = "working" => request = "working" \/ http = "listening"
    PROVE  StartingInv' /\ ListeningInv'
<1>1. StartingInv'
  BY DEF ServerInv, StartingInv
<1>2. ListeningInv'
  BY DEF ServerInv, ListeningInv
<1> QED BY <1>1, <1>2

\* A startup that fails is neither starting nor listening any more.
LEMMA NotStarting ==
    ASSUME start' \in {"catch", "degraded"} \/ early'
    PROVE  StartingInv' /\ ListeningInv'
BY DEF StartingInv, ListeningInv, Starting

LEMMA StartupFits ==
    ASSUME ServerInv,
           Server!Startup \/ Server!JoinTimeout \/ Server!GroupJoin,
           ~ Server!Close("init")
    PROVE  StartingInv' /\ ListeningInv'
<1> USE DEF Server!kafkaVars, Server!relayVars, Server!workVars, Server!externals,
            Server!Clients
<1>0. ServerTypeOK /\ StartingInv /\ ListeningInv
  BY DEF ServerInv
<1>1. ASSUME Server!CatchKafka PROVE StartingInv' /\ ListeningInv'
  BY <1>1, NotStarting DEF Server!CatchKafka
<1>2. CASE Server!StartFails
  BY <1>2, QuietServer DEF Server!StartFails
<1>3. CASE Server!VerifyPostgresConnection
  BY <1>0, <1>3 DEF Server!VerifyPostgresConnection, StartingInv, ListeningInv, Starting
<1>4. CASE Server!ConnectRedis
  BY <1>0, <1>4 DEF Server!ConnectRedis, StartingInv, ListeningInv, Starting
<1>5. CASE Server!VerifyRedisConnection
  BY <1>0, <1>5 DEF Server!VerifyRedisConnection, StartingInv, ListeningInv, Starting
<1>6. CASE Server!CreateTopics
  BY <1>0, <1>6 DEF Server!CreateTopics, StartingInv, ListeningInv, Starting
<1>7. CASE Server!ConnectKafka
  <2>1. CASE start = "producer"
    BY <1>0, <1>7, <2>1 DEF Server!ConnectKafka, StartingInv, ListeningInv, Starting,
                            ServerTypeOK
  <2>2. CASE start = "consumer"
    BY <1>0, <1>7, <2>2 DEF Server!ConnectKafka, StartingInv, ListeningInv, Starting,
                            ServerTypeOK
  <2> QED BY <1>7, <2>1, <2>2 DEF Server!ConnectKafka
<1>8. CASE Server!Subscribe
  BY <1>0, <1>8 DEF Server!Subscribe, StartingInv, ListeningInv, Starting
<1>9. CASE Server!RunReturns
  BY <1>0, <1>9 DEF Server!RunReturns, StartingInv, ListeningInv, Starting
<1>10. CASE Server!KafkaInitialized
  <2>1. StartingInv'
    BY <1>10 DEF Server!KafkaInitialized, StartingInv, Starting
  <2>2. ListeningInv'
    <3> SUFFICES ASSUME ~ early PROVE ListeningInv'
      BY <1>10 DEF Server!KafkaInitialized, ListeningInv
    <3>1. /\ \A k \in Signals \cup {"init"} : closing'[k] = "idle"
          /\ exit' # "clean" /\ pool' = "open" /\ http' = "listening"
          /\ request' # "working" /\ subscribed' /\ flags' = Server!Clients
          /\ "client" \in links'
      BY <1>0, <1>10 DEF Server!KafkaInitialized, StartingInv, Starting
    <3> QED BY <3>1 DEF ListeningInv, KafkaClosed, Drained
  <2> QED BY <2>1, <2>2
<1>11. CASE Server!KafkaFails
  BY <1>1, <1>11 DEF Server!KafkaFails
<1>12. CASE Server!JoinTimeout
  <2>1. CASE start = "join"
    BY <1>1, <1>12, <2>1 DEF Server!JoinTimeout
  <2>2. CASE start # "join"
    BY <1>12, <2>2, QuietServer DEF Server!JoinTimeout
  <2> QED BY <2>1, <2>2
<1>13. CASE Server!GroupJoin
  BY <1>0, <1>13 DEF Server!GroupJoin, StartingInv, ListeningInv, Starting
<1> QED BY <1>2, <1>3, <1>4, <1>5, <1>6, <1>7, <1>8, <1>9, <1>10, <1>11, <1>12,
           <1>13 DEF Server!Startup

\* Only a startup that has failed closes Kafka on its own account.
LEMMA CloseOfStartup ==
    ASSUME ServerInv, Server!Close("init")
    PROVE  StartingInv' /\ ListeningInv'
<1>1. closing["init"] # "idle"
  BY DEF Server!Close, Server!ConsumerStopped, Server!ConsumerDisconnected,
         Server!ProducerDisconnected
<1>2. start \in {"catch", "degraded"} \/ early
  BY <1>1 DEF ServerInv, ServerTypeOK, StartingInv, ListeningInv
<1>3. start' \in {start, "degraded"} /\ early' = early
  BY DEF Server!Close, Server!ConsumerStopped, Server!ConsumerDisconnected,
         Server!ProducerDisconnected, Server!Proceed
<1> QED BY <1>2, <1>3, NotStarting

LEMMA ServingFits ==
    ASSUME ServerInv,
           \/ Server!Handle \/ Server!HandleDone
           \/ Server!Request \/ Server!RequestDone \/ Server!Relay
    PROVE  StartingInv' /\ ListeningInv'
<1> USE DEF Server!kafkaVars, Server!relayVars, Server!workVars, Server!externals
<1>1. CASE Server!Handle \/ Server!HandleDone
  BY <1>1, QuietServer DEF Server!Handle, Server!HandleDone
<1>2. CASE Server!Request \/ Server!RequestDone
  BY <1>2, QuietServer DEF Server!Request, Server!RequestDone
<1>3. CASE Server!Relay
  BY <1>3, QuietServer
     DEF Server!Relay, Server!Tick, Server!PollThrows, Server!Claim,
         Server!Published, Server!Settled, Server!PollEnds
<1> QED BY <1>1, <1>2, <1>3

-----------------------------------------------------------------------------
\* The steps of a shutdown.  While the startup is undisturbed there is none.
LEMMA ShutdownAfterStartup ==
    ASSUME ServerInv, NEW k \in Signals, Server!Shutdown(k), start' = start,
           early' = early
    PROVE  /\ StartingInv'
           /\ ~ (start = "listening" /\ ~ early) => ListeningInv'
<1>1. closing[k] # "idle"
  BY DEF Server!Shutdown, Server!Close, Server!ConsumerStopped,
         Server!ConsumerDisconnected, Server!ProducerDisconnected,
         Server!SocketsClosed, Server!EndPool, Server!PoolEnded,
         Server!ShutdownFails
<1>2. ~ (start \in Starting /\ ~ early)
  BY <1>1 DEF ServerInv, StartingInv
<1> QED BY <1>2 DEF StartingInv, ListeningInv

LEMMA SignalFits ==
    ASSUME ServerInv, NEW k \in Signals, Server!Signal(k)
    PROVE  StartingInv' /\ ListeningInv'
<1> USE DEF Server!kafkaVars, Server!relayVars, Server!workVars, Server!externals
<1>1. /\ ServerTypeOK /\ closing[k] = "idle"
      /\ closing' = [closing EXCEPT ![k] = "stopping"]
      /\ consuming' = (consuming /\ ~ subscribed)
      /\ early' = (early \/ start \notin Server!Returned)
      /\ start' = start /\ exit' = exit /\ flags' = flags /\ links' = links
      /\ subscribed' = subscribed /\ handler' = handler /\ request' = request
      /\ http' = http /\ pool' = pool
  BY DEF Server!Signal, Server!BeginClose, ServerInv
<1>2. CASE ~ (start = "listening" /\ ~ early)
  <2>1. start \in {"catch", "degraded"} \/ early'
    BY <1>1, <1>2 DEF ServerTypeOK, Starting, Server!Returned
  <2> QED BY <1>1, <2>1, NotStarting
<1>3. CASE start = "listening" /\ ~ early
  <2>1. /\ closing'[k] = "stopping"
        /\ \A j \in (Signals \cup {"init"}) \ {k} : closing'[j] = closing[j]
    BY <1>1, OneShutdown DEF Positions
  <2>2. ListeningInv /\ ~ consuming'
    BY <1>1, <1>3 DEF ServerInv, ListeningInv
  <2>3. k # "init" /\ closing'["init"] = closing["init"]
    BY <2>1, DeploymentAssumption
  <2>4. /\ \A j \in Signals : closing'[j] \in {"idle", "stopping"} <=>
                               closing[j] \in {"idle", "stopping"}
        /\ \A j \in Signals : closing'[j] \in KafkaClosed <=> closing[j] \in KafkaClosed
        /\ \A j \in Signals : closing'[j] \in Drained <=> closing[j] \in Drained
        /\ \A j \in Signals, p \in {"ending", "done", "producer", "subscriber"} :
              closing'[j] = p <=> closing[j] = p
    BY <1>1, <2>1 DEF KafkaClosed, Drained
  <2>5. ListeningInv'
    BY <1>1, <1>3, <2>2, <2>3, <2>4 DEF ListeningInv
  <2> QED BY <1>1, <1>3, <2>5 DEF StartingInv, Starting
<1> QED BY <1>2, <1>3

\* stop() has waited for the record that was being handled.
LEMMA ConsumerStoppedFits ==
    ASSUME ServerInv, NEW k \in Signals, Server!ConsumerStopped(k)
    PROVE  StartingInv' /\ ListeningInv'
<1> USE DEF Server!kafkaVars, Server!relayVars, Server!workVars, Server!externals
<1> DEFINE p == Server!AfterStop
<1>1. /\ ServerTypeOK /\ closing[k] = "stopping"
      /\ Server!Proceed(k, p)
      /\ subscribed => consuming \/ handler = "idle"
      /\ subscribed' = FALSE
      /\ consuming' = (consuming /\ p # "consumer")
      /\ early' = early /\ exit' = exit /\ links' = links /\ handler' = handler
      /\ request' = request /\ pool' = pool
  BY DEF Server!ConsumerStopped, ServerInv
<1>2. k # "init" /\ start' = start /\ flags' = IF p = "sockets" THEN {} ELSE flags
  BY <1>1, DeploymentAssumption DEF Server!Proceed
<1>3. SUFFICES ASSUME start = "listening", ~ early PROVE ListeningInv'
  BY <1>1, <1>2, ShutdownAfterStartup DEF Server!Shutdown, Server!Close
<1>4. ListeningInv /\ ~ consuming /\ handler # "working"
  BY <1>1, <1>3 DEF ServerInv, ListeningInv
<1>5. /\ flags = Server!Clients => p = "consumer"
      /\ flags = {} => p = "sockets"
      /\ flags' = flags
  BY <1>2, <1>3, <1>4 DEF ListeningInv, Server!AfterStop, Server!AfterConsumer,
                          Server!Clients
<1>6. /\ closing' = [closing EXCEPT ![k] = p] /\ p \in {"consumer", "sockets"}
      /\ flags = Server!Clients => http' = http
      /\ flags = {} => http' = http
  BY <1>1, <1>2, <1>3, <1>4, <1>5 DEF Server!Proceed, ListeningInv
<1> HIDE DEF p
<1>7. /\ closing'[k] = p
      /\ \A j \in (Signals \cup {"init"}) \ {k} : closing'[j] = closing[j]
  BY <1>1, <1>6, OneShutdown DEF Positions, KafkaClosed
<1>8. flags = Server!Clients <=> \A j \in Signals : closing'[j] \notin KafkaClosed
  BY <1>1, <1>3, <1>4, <1>5, <1>6, <1>7
     DEF ListeningInv, KafkaClosed, Drained, Server!Clients
<1>9. http' # "closed" <=> \A j \in Signals : closing'[j] \notin Drained
  BY <1>1, <1>3, <1>4, <1>5, <1>6, <1>7 DEF ListeningInv, Drained
<1>10. closing'["init"] = closing["init"]
  BY <1>2, <1>7
<1> QED BY <1>1, <1>2, <1>3, <1>4, <1>5, <1>6, <1>7, <1>8, <1>9, <1>10
        DEF ListeningInv, Drained

\* disconnect() of the consumer has returned.
LEMMA ConsumerDisconnectedFits ==
    ASSUME ServerInv, NEW k \in Signals, Server!ConsumerDisconnected(k)
    PROVE  StartingInv' /\ ListeningInv'
<1> USE DEF Server!kafkaVars, Server!relayVars, Server!workVars, Server!externals
<1> DEFINE p == Server!AfterConsumer
<1>1. /\ ServerTypeOK /\ closing[k] = "consumer"
      /\ Server!Proceed(k, p)
      /\ links' = links \ {"consumer"}
      /\ early' = early /\ exit' = exit /\ handler' = handler
      /\ request' = request /\ pool' = pool
      /\ subscribed' = subscribed /\ consuming' = consuming
  BY DEF Server!ConsumerDisconnected, ServerInv
<1>2. k # "init" /\ start' = start /\ flags' = IF p = "sockets" THEN {} ELSE flags
  BY <1>1, DeploymentAssumption DEF Server!Proceed
<1>3. SUFFICES ASSUME start = "listening", ~ early PROVE ListeningInv'
  BY <1>1, <1>2, ShutdownAfterStartup DEF Server!Shutdown, Server!Close
<1>4. ListeningInv /\ ~ subscribed
  BY <1>1, <1>3 DEF ServerInv, ListeningInv
<1>5. /\ flags = Server!Clients => p = "producer"
      /\ flags = {} => p = "sockets"
      /\ flags' = flags
  BY <1>2, <1>3, <1>4 DEF ListeningInv, Server!AfterConsumer, Server!Clients
<1>6. /\ closing' = [closing EXCEPT ![k] = p] /\ p \in {"producer", "sockets"}
      /\ http' = http
  BY <1>1, <1>2, <1>3, <1>4, <1>5 DEF Server!Proceed, ListeningInv
<1> HIDE DEF p
<1>7. /\ closing'[k] = p
      /\ \A j \in (Signals \cup {"init"}) \ {k} : closing'[j] = closing[j]
  BY <1>1, <1>6, OneShutdown DEF Positions, KafkaClosed
<1>8. flags = Server!Clients <=> \A j \in Signals : closing'[j] \notin KafkaClosed
  BY <1>1, <1>3, <1>4, <1>5, <1>6, <1>7
     DEF ListeningInv, KafkaClosed, Drained, Server!Clients
<1>9. http' # "closed" <=> \A j \in Signals : closing'[j] \notin Drained
  BY <1>1, <1>3, <1>4, <1>5, <1>6, <1>7 DEF ListeningInv, Drained
<1>10. closing'["init"] = closing["init"]
  BY <1>2, <1>7
<1> QED BY <1>1, <1>2, <1>3, <1>4, <1>5, <1>6, <1>7, <1>8, <1>9, <1>10
        DEF ListeningInv, Drained, Server!Clients

\* disconnect() of the producer has returned: no request is let in any more.
LEMMA ProducerDisconnectedFits ==
    ASSUME ServerInv, NEW k \in Signals, Server!ProducerDisconnected(k)
    PROVE  StartingInv' /\ ListeningInv'
<1> USE DEF Server!kafkaVars, Server!relayVars, Server!workVars, Server!externals
<1>1. /\ ServerTypeOK /\ closing[k] = "producer"
      /\ Server!Proceed(k, "sockets")
      /\ links' = links \ {"producer"}
      /\ early' = early /\ exit' = exit /\ handler' = handler
      /\ request' = request /\ pool' = pool
      /\ subscribed' = subscribed /\ consuming' = consuming
  BY DEF Server!ProducerDisconnected, ServerInv
<1>2. /\ k # "init" /\ start' = start /\ flags' = {}
      /\ closing' = [closing EXCEPT ![k] = "sockets"]
      /\ http' = IF http = "listening" THEN "closing" ELSE http
  BY <1>1, DeploymentAssumption DEF Server!Proceed
<1>3. SUFFICES ASSUME start = "listening", ~ early PROVE ListeningInv'
  BY <1>1, <1>2, ShutdownAfterStartup DEF Server!Shutdown, Server!Close
<1>4. ListeningInv /\ ~ subscribed /\ "consumer" \notin links
  BY <1>1, <1>3 DEF ServerInv, ListeningInv
<1>5. /\ closing'[k] = "sockets"
      /\ \A j \in (Signals \cup {"init"}) \ {k} : closing'[j] = closing[j]
  BY <1>1, <1>2, OneShutdown DEF Positions, KafkaClosed
<1>6. /\ ~ \A j \in Signals : closing'[j] \notin KafkaClosed
      /\ {} # Server!Clients
  BY <1>5 DEF KafkaClosed, Server!Clients
<1>7. http' # "closed" <=> \A j \in Signals : closing'[j] \notin Drained
  BY <1>1, <1>2, <1>3, <1>4, <1>5 DEF ListeningInv, Drained
<1>8. closing'["init"] = closing["init"]
  BY <1>2, <1>5
<1>9. links' \cap Server!Clients = {} /\ http' # "listening"
  BY <1>1, <1>2, <1>4 DEF Server!Clients
<1> QED BY <1>1, <1>2, <1>3, <1>4, <1>5, <1>6, <1>7, <1>8, <1>9
        DEF ListeningInv, Drained

\* io.close has waited for the requests, or Redis has confirmed a quit.
LEMMA SocketsClosedFits ==
    ASSUME ServerInv, NEW k \in Signals, Server!SocketsClosed(k)
    PROVE  StartingInv' /\ ListeningInv'
<1> USE DEF Server!kafkaVars, Server!relayVars, Server!workVars, Server!externals
<1>1. /\ ServerTypeOK /\ closing[k] \in {"sockets", "subscriber", "client"}
      /\ closing[k] = "sockets" /\ http = "closing" => request = "idle"
      /\ Server!Quit(k, closing[k])
      /\ http' = IF http = "closing" THEN "closed" ELSE http
      /\ start' = start /\ early' = early /\ exit' = exit /\ handler' = handler
      /\ request' = request /\ pool' = pool /\ flags' = flags
      /\ subscribed' = subscribed /\ consuming' = consuming
  BY DEF Server!SocketsClosed, ServerInv
<1>2. PICK c \in {"subscriber", "client", "pool"} :
        /\ closing' = [closing EXCEPT ![k] = c] /\ links' = links \ {c}
        /\ c # "subscriber" /\ closing[k] = "sockets" => "subscriber" \notin links
        /\ c = "subscriber" => closing[k] = "sockets"
        /\ c = "pool" /\ closing[k] # "client" => "client" \notin links
  BY <1>1 DEF Server!Quit
<1>3. SUFFICES ASSUME start = "listening", ~ early PROVE ListeningInv'
  BY <1>1, ShutdownAfterStartup DEF Server!Shutdown
<1>4. /\ ListeningInv /\ flags = {} /\ ~ subscribed /\ http # "listening"
      /\ closing[k] # "sockets" => "subscriber" \notin links
      /\ closing[k] = "client" => "client" \notin links
  BY <1>1, <1>3 DEF ServerInv, ListeningInv, KafkaClosed, Drained, Server!Clients
<1>5. /\ closing'[k] = c
      /\ \A j \in (Signals \cup {"init"}) \ {k} : closing'[j] = closing[j]
  BY <1>1, <1>2, OneShutdown DEF Positions, KafkaClosed, Drained
<1>6. closing'["init"] = closing["init"]
  BY <1>5, DeploymentAssumption
<1>7. http' = "closed" /\ closing'[k] \in Drained /\ request # "working"
  BY <1>1, <1>3, <1>4, <1>5 DEF ListeningInv, ServerTypeOK, Drained
<1>8. /\ ~ \A j \in Signals : closing'[j] \notin KafkaClosed
      /\ {} # Server!Clients
      /\ ~ \A j \in Signals : closing'[j] \in {"idle", "stopping"}
  BY <1>7 DEF KafkaClosed, Server!Clients, Drained
<1>9. ASSUME NEW j \in Signals
      PROVE  /\ closing'[j] # "done"
             /\ closing'[j] = "producer" => "consumer" \notin links'
             /\ closing'[j] \in Drained => "subscriber" \notin links'
             /\ closing'[j] \in Drained \ {"subscriber"} => "client" \notin links'
  <2>1. CASE j = k
    BY <1>2, <1>4, <1>5, <2>1 DEF Drained
  <2>2. CASE j # k
    BY <1>2, <1>3, <1>4, <1>5, <2>2 DEF ListeningInv
  <2> QED BY <2>1, <2>2
<1>10. /\ links' \cap Server!Clients = {}
       /\ ~ consuming /\ handler # "working" /\ closing'["init"] = "idle"
  BY <1>2, <1>3, <1>4, <1>6 DEF ListeningInv
<1>11. pool \notin {"open"} \/ exit = "clean" => \E j \in Signals : closing'[j] = "ending"
  BY <1>1, <1>3, <1>4, <1>5 DEF ListeningInv
<1> QED BY <1>1, <1>4, <1>7, <1>8, <1>9, <1>10, <1>11 DEF ListeningInv

\* pool.end, process.exit, and a shutdown that fails.
LEMMA EndFits ==
    ASSUME ServerInv, NEW k \in Signals,
           Server!EndPool(k) \/ Server!PoolEnded(k) \/ Server!ShutdownFails(k)
    PROVE  StartingInv' /\ ListeningInv'
<1> USE DEF Server!kafkaVars, Server!relayVars, Server!workVars, Server!externals
<1>1. ServerTypeOK
  BY DEF ServerInv
<1>2. CASE Server!ShutdownFails(k)
  BY <1>2, QuietServer DEF Server!ShutdownFails
<1>3. CASE Server!PoolEnded(k)
  <2>1. start' = start /\ early' = early
    BY <1>3 DEF Server!PoolEnded
  <2>2. SUFFICES ASSUME start = "listening", ~ early PROVE ListeningInv'
    BY <1>3, <2>1, ShutdownAfterStartup DEF Server!Shutdown
  <2> QED BY <1>3, <2>2 DEF Server!PoolEnded, ServerInv, ListeningInv
<1>4. CASE Server!EndPool(k)
  <2>1. start' = start /\ early' = early
    BY <1>4 DEF Server!EndPool
  <2>2. SUFFICES ASSUME start = "listening", ~ early PROVE ListeningInv'
    BY <1>4, <2>1, ShutdownAfterStartup DEF Server!Shutdown
  <2>3. /\ closing[k] = "pool" /\ closing'[k] = "ending"
        /\ \A j \in (Signals \cup {"init"}) \ {k} : closing'[j] = closing[j]
    BY <1>1, <1>4, OneShutdown DEF Server!EndPool, Positions, KafkaClosed, Drained
  <2>4. closing'["init"] = closing["init"]
    BY <2>3, DeploymentAssumption
  <2>5. /\ flags' = flags /\ links' = links /\ http' = http /\ request' = request
        /\ handler' = handler /\ consuming' = consuming /\ subscribed' = subscribed
    BY <1>4 DEF Server!EndPool
  <2>6. /\ \A j \in Signals : closing'[j] \in {"idle", "stopping"} <=>
                               closing[j] \in {"idle", "stopping"}
        /\ \A j \in Signals : closing'[j] \in KafkaClosed <=> closing[j] \in KafkaClosed
        /\ \A j \in Signals : closing'[j] \in Drained <=> closing[j] \in Drained
        /\ \A j \in Signals, p \in {"idle", "done", "producer", "subscriber"} :
              closing'[j] = p <=> closing[j] = p
    BY <2>3 DEF KafkaClosed, Drained
  <2>7. ListeningInv
    BY DEF ServerInv
  <2> QED BY <2>1, <2>2, <2>3, <2>4, <2>5, <2>6, <2>7 DEF ListeningInv
<1> QED BY <1>2, <1>3, <1>4

-----------------------------------------------------------------------------
LEMMA StepOfServer ==
    ASSUME ServerInv, Server!ServerNext
    PROVE  ServerInv'
<1>1. CASE Server!Startup \/ Server!JoinTimeout \/ Server!GroupJoin
  <2>1. CASE Server!Close("init")
    BY <2>1, CloseOfStartup, TypesOfClose DEF ServerInv
  <2>2. CASE ~ Server!Close("init")
    BY <1>1, <2>2, StartupFits, TypesOfStartup DEF ServerInv
  <2> QED BY <2>1, <2>2
<1>2. ASSUME NEW k \in Signals, Server!Signal(k) \/ Server!Shutdown(k)
      PROVE  ServerInv'
  <2>1. ServerTypeOK'
    BY <1>2, TypesOfShutdown DEF ServerInv
  <2>2. StartingInv' /\ ListeningInv'
    BY <1>2, SignalFits, ConsumerStoppedFits, ConsumerDisconnectedFits,
       ProducerDisconnectedFits, SocketsClosedFits, EndFits
       DEF Server!Shutdown, Server!Close
  <2> QED BY <2>1, <2>2 DEF ServerInv
<1>3. CASE \/ Server!Handle \/ Server!HandleDone
           \/ Server!Request \/ Server!RequestDone \/ Server!Relay
  BY <1>3, ServingFits, TypesOfServing DEF ServerInv
<1> QED BY <1>1, <1>2, <1>3 DEF Server!ServerNext

LEMMA ServerInvariant == DeploymentSpec => []ServerInv
<1>1. ServerInv /\ UNCHANGED serverOnly => ServerInv'
  BY DEF serverOnly, ServerInv, ServerTypeOK, StartingInv, ListeningInv
<1>2. ServerInv /\ [DeploymentNext]_all => ServerInv'
  BY <1>1, StepOfServer DEF DeploymentNext, RunnerStep, ServerStep, all
<1> QED BY <1>2, ServerInitFits, PTL DEF DeploymentSpec, DeploymentInit

\* Every variable of the server keeps its type.
THEOREM ServerTypeCorrect == DeploymentSpec => []ServerTypeOK
<1>1. ServerInv => ServerTypeOK
  BY DEF ServerInv
<1> QED BY <1>1, ServerInvariant, PTL

\* Once the startup has returned with Kafka, records and requests keep the pool,
\* the producer and Redis until they are done, and an exit with code 0 leaves no
\* connection open, however many signals come and whatever they interleave with.
THEOREM ShutdownIsOrderly == DeploymentSpec => []OrderlyShutdown
<1>1. ServerInv => OrderlyShutdown
  <2> SUFFICES ASSUME ServerInv, start = "listening", ~ early
               PROVE  /\ consuming \/ handler = "working" =>
                           pool = "open" /\ Server!KafkaConnected
                      /\ request = "working" => Server!Ready
                      /\ exit = "clean" => links = {}
    BY DEF OrderlyShutdown
  <2>1. ListeningInv /\ ServerTypeOK
    BY DEF ServerInv
  <2>2. ASSUME consuming \/ handler = "working"
        PROVE  pool = "open" /\ Server!KafkaConnected
    <3>1. \A k \in Signals : closing[k] \in {"idle", "stopping"}
      BY <2>1, <2>2 DEF ListeningInv
    <3>2. flags = Server!Clients
      BY <2>1, <3>1 DEF ListeningInv, KafkaClosed, Drained
    <3>3. pool = "open"
      BY <2>1, <3>1 DEF ListeningInv
    <3> QED BY <3>2, <3>3 DEF Server!KafkaConnected
  <2>3. ASSUME request = "working" PROVE Server!Ready
    <3>1. http # "closed" /\ \A k \in Signals : closing[k] \notin Drained
      BY <2>1, <2>3 DEF ListeningInv
    <3>2. pool = "open" /\ "client" \in links
      BY <2>1, <3>1 DEF ListeningInv, Drained
    <3> QED BY <3>2 DEF Server!Ready
  <2>4. ASSUME exit = "clean" PROVE links = {}
    <3>1. PICK k \in Signals : closing[k] = "ending"
      BY <2>1, <2>4 DEF ListeningInv
    <3>2. links \cap Server!Clients = {}
      BY <2>1, <3>1 DEF ListeningInv, KafkaClosed, Drained
    <3>3. "subscriber" \notin links /\ "client" \notin links
      BY <2>1, <3>1 DEF ListeningInv, Drained
    <3> QED BY <2>1, <3>2, <3>3 DEF ServerTypeOK
  <2> QED BY <2>2, <2>3, <2>4
<1> QED BY <1>1, ServerInvariant, PTL
=============================================================================
