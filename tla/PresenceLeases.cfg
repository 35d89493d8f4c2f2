CONSTANTS
    Users = {u1}
    Sockets = {s1, s2, s3}
    Lease = 2
    KeyTTL = 4
    Skew = 1
    MaxTime = 7
SPECIFICATION Spec
SYMMETRY Symmetry
INVARIANTS ShownHasLease LeaseIsShown
CHECK_DEADLOCK FALSE
