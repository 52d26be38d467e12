CONSTANTS
    p1 = p1
    p2 = p2
    c1 = c1
    c2 = c2
    Producers <- MCProducers
    Consumers <- MCConsumers
    NoThread = NoThread
    BufSize = 2
    Limit = 3
    CallsFail = TRUE
SPECIFICATION FairSpec
INVARIANTS
    TypeOK
    MutualExclusion
    NoItemTwice
    OvershootBound
    WakeupPending
PROPERTIES
    ImplementsStack
    WorkCompletes
CHECK_DEADLOCK FALSE
