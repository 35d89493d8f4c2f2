CONSTANTS
    Instances = {a, b}
    Users = {u1, u2}
    Sockets = {s1, s2}
    NoOne = none
    Beat = 1
    Lease = 2
    KeyTTL = 4
    Skew = 0
    MaxTime = 4
    MaxFaults = 1
SPECIFICATION FairSpec
INVARIANTS ConnectedIsOnline NoLeaseAfterLeave
PROPERTIES EventuallyConsistent
CHECK_DEADLOCK FALSE
