CONSTANTS
    n1 = n1
    n2 = n2
    n3 = n3
    n4 = n4
    low = low
    mid1 = mid1
    mid2 = mid2
    high = high
    NULL = NULL
    Nodes <- MCNodes
    Processes <- MCProcesses
    Priority <- MCPriority
SPECIFICATION FairSpec
INVARIANTS
    TypeOK
    ListWellFormed
    NoDangling
PROPERTIES
    ImplementsQueue
    CallReturns
CHECK_DEADLOCK FALSE
