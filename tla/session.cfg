SPECIFICATION FairSpec
CONSTANTS
    t1 = t1
    t2 = t2
    None = None
    Topics <- TwoTopics
    WildcardTopics = {}
    MaxTime = 4
    MaxConnections = 2
    MaxMessageId = 3
    Allowed = {}
INVARIANTS
    TypeOK
    UnacknowledgedIsKept
    QueuedOnce
PROPERTIES
    PromiseKept
