CONSTANTS
    Peers = {p1, p2}
    NoPeer = none
    PageSize = 2
    InSecond = 2
    MaxMessages = 3
SPECIFICATION FairSpec
INVARIANTS CacheOfConversation NothingMissed
PROPERTIES NothingForgotten EventuallyShown
CHECK_DEADLOCK FALSE
