----------------------------- MODULE Migrations -----------------------------
(***************************************************************************)
(* db/migrate.ts: any number of migration runners, perhaps of releases     *)
(* that ship different numbers of files, against one database.  A runner   *)
(* takes a session-level advisory lock, creates schema_migrations, and     *)
(* applies the missing files in the order of their names, each with its    *)
(* record in a transaction of its own.                                     *)
(*                                                                         *)
(* Version v is the v-th file name; a file builds on the files before it   *)
(* and fails if its tables are already there.                              *)
(***************************************************************************)
EXTENDS Integers, Sequences

CONSTANTS
    Migrators,     \* processes that run npm run db:migrate
    Files,         \* Files[m]: number of .sql files in the release of m
    NoMigrator,    \* nobody holds the advisory lock
    MaxFaults      \* bound: lost connections and crashes

ASSUME MigrationsAssumption ==
    /\ Files \in [Migrators -> Nat]
    /\ NoMigrator \notin Migrators
    /\ MaxFaults \in Nat

VARIABLES
    hasTable,  \* schema_migrations exists
    recorded,  \* versions in schema_migrations
    history,   \* versions whose SQL took effect, in order
    lock,      \* the session that holds the advisory lock
    step,      \* where a runner is
    file,      \* the file it is working on
    faults

dbVars == <<hasTable, recorded, history>>
vars   == <<dbVars, lock, step, file, faults>>

Steps == {"idle", "waiting", "table", "select", "sql", "insert", "commit",
          "rollback", "unlock"}

InForce == {history[i] : i \in DOMAIN history}

\* The open transaction of m has run the SQL of its file: the names it creates
\* are reserved until it ends.
Creating(m) == step[m] \in {"insert", "commit"}

Goto(m, s) == step' = [step EXCEPT ![m] = s]

Init ==
    /\ hasTable = FALSE
    /\ recorded = {}
    /\ history = <<>>
    /\ lock = NoMigrator
    /\ step = [m \in Migrators |-> "idle"]
    /\ file = [m \in Migrators |-> 1]
    /\ faults = 0

-----------------------------------------------------------------------------
(* runMigrations *)

\* pool.connect; when it has ended the command may be run again.
Start(m) ==
    /\ step[m] = "idle"
    /\ Goto(m, "waiting")
    /\ UNCHANGED <<dbVars, lock, file, faults>>

\* Mutant: the runner does not wait for the advisory lock.
LockNot(m) ==
    /\ step[m] = "waiting"
    /\ Goto(m, "table")
    /\ UNCHANGED <<dbVars, lock, file, faults>>

\* SELECT pg_advisory_lock
Lock(m) ==
    /\ step[m] = "waiting"
    /\ lock = NoMigrator
    /\ lock' = m
    /\ Goto(m, "table")
    /\ UNCHANGED <<dbVars, file, faults>>

\* The next file of the loop, or the end of the loop.
ToFile(m, f) ==
    IF f <= Files[m]
    THEN Goto(m, "select") /\ file' = [file EXCEPT ![m] = f]
    ELSE Goto(m, "unlock") /\ file' = [file EXCEPT ![m] = 1]

\* The catch block of applyMigration: ROLLBACK, and out of the loop.
Abandon(m) == Goto(m, "rollback") /\ file' = [file EXCEPT ![m] = 1]

\* CREATE TABLE IF NOT EXISTS schema_migrations; then the files are listed.
EnsureMigrationsTable(m) ==
    /\ step[m] = "table"
    /\ hasTable' = TRUE
    /\ ToFile(m, 1)
    /\ UNCHANGED <<recorded, history, lock, faults>>

\* BEGIN, SELECT; a version that is recorded is skipped with COMMIT.
SelectVersion(m) ==
    /\ step[m] = "select"
    /\ IF file[m] \in recorded
         THEN ToFile(m, file[m] + 1)
         ELSE Goto(m, "sql") /\ UNCHANGED file
    /\ UNCHANGED <<dbVars, lock, faults>>

\* The SQL of the file can only run on the schema it was written for.
Runs(m) == InForce = 1 .. file[m] - 1

\* Mutant: the SQL is run outside the transaction that records it.
RunSqlAutocommitted(m) ==
    /\ step[m] = "sql"
    /\ Runs(m)
    /\ Goto(m, "insert")
    /\ history' = Append(history, file[m])
    /\ UNCHANGED <<hasTable, recorded, lock, file, faults>>

\* The file's SQL: it waits for a transaction that creates the same names, and
\* fails on a schema it was not written for.
RunSql(m) ==
    /\ step[m] = "sql"
    /\ \A o \in Migrators \ {m} : Creating(o) => file[o] # file[m]
    /\ IF Runs(m) THEN Goto(m, "insert") /\ UNCHANGED file ELSE Abandon(m)
    /\ UNCHANGED <<dbVars, lock, faults>>

\* INSERT INTO schema_migrations; its primary key refuses a second record.
InsertVersion(m) ==
    /\ step[m] = "insert"
    /\ IF file[m] \in recorded THEN Abandon(m)
                               ELSE Goto(m, "commit") /\ UNCHANGED file
    /\ UNCHANGED <<dbVars, lock, faults>>

\* What COMMIT makes of the transaction of m.
Applied(m) ==
    /\ history' = Append(history, file[m])
    /\ recorded' = recorded \cup {file[m]}

CommitVersion(m) ==
    /\ step[m] = "commit"
    /\ Applied(m)
    /\ ToFile(m, file[m] + 1)
    /\ UNCHANGED <<hasTable, lock, faults>>

\* ROLLBACK
Rollback(m) ==
    /\ step[m] = "rollback"
    /\ Goto(m, "unlock")
    /\ UNCHANGED <<dbVars, lock, file, faults>>

\* SELECT pg_advisory_unlock, client.release, and the end of the pool.
Unlock(m) ==
    /\ step[m] = "unlock"
    /\ lock' = IF lock = m THEN NoMigrator ELSE lock
    /\ Goto(m, "idle")
    /\ UNCHANGED <<dbVars, file, faults>>

-----------------------------------------------------------------------------
(* Faults *)

\* A statement fails, the connection still works.
StatementFails(m) ==
    /\ faults < MaxFaults
    /\ faults' = faults + 1
    /\ \/ step[m] = "table" /\ Goto(m, "unlock") /\ UNCHANGED file
       \/ step[m] \in {"select", "sql", "insert"} /\ Abandon(m)
    /\ UNCHANGED <<dbVars, lock>>

\* The process dies, or its connection: the server ends the session, which
\* rolls back its transaction and frees its lock.  A connection lost during
\* COMMIT leaves it open whether the transaction was committed.
SessionLost(m) ==
    /\ step[m] # "idle"
    /\ faults < MaxFaults
    /\ faults' = faults + 1
    /\ \/ UNCHANGED <<history, recorded>>
       \/ step[m] = "commit" /\ Applied(m)
    /\ lock' = IF lock = m THEN NoMigrator ELSE lock
    /\ Goto(m, "idle")
    /\ file' = [file EXCEPT ![m] = 1]
    /\ UNCHANGED hasTable

-----------------------------------------------------------------------------
Work(m) ==
    \/ Lock(m) \/ EnsureMigrationsTable(m) \/ SelectVersion(m) \/ RunSql(m)
    \/ InsertVersion(m) \/ CommitVersion(m) \/ Rollback(m) \/ Unlock(m)

Next ==
    \E m \in Migrators : Start(m) \/ Work(m) \/ StatementFails(m) \/ SessionLost(m)

\* A runner that was started keeps going; PostgreSQL hands the advisory lock
\* out in the order of the requests.
Fairness == \A m \in Migrators : WF_vars(Work(m)) /\ SF_vars(Lock(m))

Spec == Init /\ [][Next]_vars /\ Fairness

-----------------------------------------------------------------------------
TypeOK ==
    /\ hasTable \in BOOLEAN
    /\ recorded \subseteq Nat
    /\ history \in Seq(Nat)
    /\ lock \in Migrators \cup {NoMigrator}
    /\ step \in [Migrators -> Steps]
    /\ file \in [Migrators -> Nat]
    /\ faults \in Nat

\* Migrations that run side by side never make each other fail: whoever is
\* about to run a file finds exactly the schema the file was written for, and
\* no record of it (pg_advisory_lock in runMigrations).
NoCollision ==
    \A m \in Migrators :
        /\ step[m] = "sql" => Runs(m) /\ file[m] \notin recorded
        /\ step[m] = "insert" => file[m] \notin recorded

H == INSTANCE SchemaHistory

\* Versions take effect in order, once, together with their record.
ImplementsSchemaHistory == H!Spec
=============================================================================
