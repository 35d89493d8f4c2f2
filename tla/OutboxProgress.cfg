CONSTANTS
    Conversations = {c1, c2}
    NoConversation = none
    Senders = {s1}
    Workers = {w1, w2}
    MaxEvents = 2
    BatchSize = 2
    MaxAttempts = 2
    MaxFaults = 2
    MaxSlow = 0
SPECIFICATION FairSpec
PROPERTIES EventuallySettled ImplementsAnnouncement
CHECK_DEADLOCK FALSE
