CONSTANTS
    p1 = p1
    p2 = p2
    c1 = c1
    c2 = c2
    Producers <- MCProducers
    Consumers <- MCConsumers
    NoThread = NoThread
    BufSize = 1
    Limit = 2
    CallsFail = FALSE
SPECIFICATION FairSpec
PROPERTY
    ProgramExits
CHECK_DEADLOCK FALSE
