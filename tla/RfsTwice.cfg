CONSTANTS
    a = a
    b = b
    c = c
    f = f
    g = g
    Nobody = Nobody
    Clients <- Three
    Names <- TwoNames
    Spaced = TRUE
    CreateFails = FALSE
    MaxFd = 6
    RecvMax = 1
    FileLen = 2
    Octal <- NoOctal
    Jobs <- PatientJobs
    InitModes <- OnlyRW
    InitNames <- OnlyG
SPECIFICATION Spec
INVARIANT
    OnlyStopEnds
SYMMETRY ClientSymmetry
CHECK_DEADLOCK FALSE
