CONSTANTS
    a1 = a1
    A1 = A1
    Requests = {r1, r2}
    Spellings = {a1, A1}
    Normal <- MCNormal
    Passwords = {p1, p2}
    Limit = 2
SPECIFICATION Spec
INVARIANTS LimitPerWindow
PROPERTIES NobodyLockedOut ImplementsRegistry
CHECK_DEADLOCK FALSE
