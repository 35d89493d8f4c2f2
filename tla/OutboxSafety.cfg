CONSTANTS
    Conversations = {c1}
    NoConversation = none
    Senders = {s1, s2}
    Workers = {w1, w2}
    MaxEvents = 3
    BatchSize = 2
    MaxAttempts = 2
    MaxFaults = 1
    MaxSlow = 1
SPECIFICATION Spec
SYMMETRY Symmetry
INVARIANTS TypeOK NoGhostEvent OrderedPublication NoPhantomPublish BoundedDuplicates ExclusiveClaim
PROPERTIES FinalStatus
CHECK_DEADLOCK FALSE
