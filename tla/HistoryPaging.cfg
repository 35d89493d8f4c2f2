CONSTANTS
    Ids = {1, 2, 3, 4}
    PerSecond = 2
    Limits = {1, 2}
    MaxTime = 3
    MaxPages = 4
SPECIFICATION HistorySpec
INVARIANTS PagesInOrder LostOnlyWithinSecond
CHECK_DEADLOCK FALSE
