CONSTANTS
    a = a
    b = b
    c = c
    f = f
    g = g
    Nobody = Nobody
    Clients <- Two
    Names <- OneName
    Spaced = FALSE
    CreateFails = FALSE
    MaxFd = 6
    RecvMax = 1
    FileLen = 1
    Octal <- NoOctal
    Jobs <- CalmJobs
    InitModes <- OnlyRW
    InitNames <- AllPresent
SPECIFICATION Spec
INVARIANT
    OwnThread
CHECK_DEADLOCK FALSE
