CONSTANTS
    TABLE_SIZE = 2
    Alphabet = 2
    Requests <- MCRequests
    MinWords = 2
    BatchSize = 2
    MaxLength = 3
    PipeCap = 2
    Pids <- MCPids
    CallsFail = TRUE
    Seeds <- MCSeeds
    A = 5
    C = 3
    M = 16
    UIntRange = 32
SPECIFICATION FairSpec
INVARIANTS
    TypeOK
    OneFileEach
    EachWordOnce
    AllEncrypted
    NobodyStuck
PROPERTY
    Finishes
CHECK_DEADLOCK FALSE
