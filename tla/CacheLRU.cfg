CONSTANTS
    CacheSize = 4
    TotalMessages = 13
    TotalAccesses = 1
    Junk <- MCJunk
    LastWord <- ZeroLastWord
    IntMin <- MCIntMin
    AllocFails = TRUE
SPECIFICATION Spec
PROPERTY
    ReplacesOldest
CHECK_DEADLOCK FALSE
