CONSTANTS
    Ids = {1, 2, 3}
    PerSecond = 2
    Limits = {1}
    MaxTime = 3
    MaxPages = 4
SPECIFICATION HistorySpec
INVARIANTS HistoryComplete
CHECK_DEADLOCK FALSE
