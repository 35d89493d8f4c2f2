CONSTANTS
    Tabs = {t1, t2}
    MaxLogins = 1
    MaxCalls = 2
SPECIFICATION FairSpec
INVARIANTS NoOrphanWaiter OnlyEndedSessionsLogOut LogoutIsFinal
PROPERTIES EventuallySettled
CHECK_DEADLOCK FALSE
