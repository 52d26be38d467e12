CONSTANTS
    a = a
    b = b
    c = c
    f = f
    g = g
    Nobody = Nobody
    Clients <- Two
    Names <- OneName
    Spaced = TRUE
    CreateFails = FALSE
    MaxFd = 6
    RecvMax = 2
    FileLen = 2
    Octal <- NoOctal
    Jobs <- CalmJobs
    InitModes <- OnlyRW
    InitNames <- AllPresent
SPECIFICATION FairSpec
INVARIANT
    OwnThread
PROPERTY
    EveryoneFinishes
CHECK_DEADLOCK FALSE
