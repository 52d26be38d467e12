CONSTANTS
    a = a
    b = b
    c = c
    f = f
    g = g
    Nobody = Nobody
    Clients <- Two
    Names <- OneName
    Spaced = TRUE
    CreateFails = FALSE
    MaxFd = 6
    RecvMax = 2
    FileLen = 2
    Octal <- NoOctal
    Jobs <- WritesRW
    InitModes <- OnlyRW
    InitNames <- AllPresent
SPECIFICATION Spec
INVARIANT
    WholeFile
CHECK_DEADLOCK FALSE
