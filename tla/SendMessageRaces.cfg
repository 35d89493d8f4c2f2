CONSTANTS
    Users = {1, 2, 3}
    Registered = {1, 2}
    Requests = {r1, r2, r3}
    NoId = none
SPECIFICATION FairSpec
INVARIANTS OneConversation MessageAmongMembers ConflictResolves
PROPERTIES EventuallyAnswered
CHECK_DEADLOCK FALSE
