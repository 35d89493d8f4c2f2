CONSTANTS
    Consumers = {a1, a2}
    NoConsumer = none
    Partitions = {p1}
    Valid = {e1, e2}
    Malformed = {bad}
    Empty = {empty}
    FromBeginning = TRUE
    MaxLog = 3
    MaxFaults = 3
SPECIFICATION FairSpec
INVARIANTS CommittedHandled MarkerWithEffect
PROPERTIES EventuallyHandled
CHECK_DEADLOCK FALSE
