CONSTANTS
    m1 = m1
    m2 = m2
    Migrators = {m1, m2}
    NoMigrator = none
    Files <- MCFiles
    MaxFaults = 1
    Signals = {"SIGTERM"}
    OutboxVersion = 2
SPECIFICATION DeploymentSpec
INVARIANTS NoCollision OrderlyShutdown
PROPERTIES ImplementsSchemaHistory ShutdownEnds StartupSettles EventuallyRelays
CHECK_DEADLOCK FALSE
