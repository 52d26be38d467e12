CONSTANTS
    a = a
    b = b
    c = c
    f = f
    g = g
    Nobody = Nobody
    Clients <- Two
    Names <- OneName
    Spaced = TRUE
    CreateFails = TRUE
    MaxFd = 4
    RecvMax = 2
    FileLen = 2
    Octal <- Two
    Jobs <- AllJobs
    InitModes <- BothModes
    InitNames <- AnyPresent
SPECIFICATION Spec
INVARIANTS
    TypeOK
    OneSourceIfAllOpen
    EndsForAReason
    NoCircleOfWaits
PROPERTY
    ReadOnlyUnchanged
SYMMETRY ClientSymmetry
CHECK_DEADLOCK FALSE
