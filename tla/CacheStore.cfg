CONSTANTS
    CacheSize = 3
    TotalMessages = 8
    TotalAccesses = 2
    Junk <- MCJunk
    LastWord <- AnyLastWord
    IntMin <- MCIntMin
    AllocFails = TRUE
SPECIFICATION Spec
INVARIANTS
    TypeOK
    IndexMatchesData
    OneHole
    FlagBeforeHole
PROPERTY
    NewestIsCached
CHECK_DEADLOCK FALSE
