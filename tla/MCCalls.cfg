SPECIFICATION Spec
CONSTANTS
    a = a
    b = b
    c = c
    User = {a, b, c}
    Device = {a, b, c}
    Present = {a, b, c}
    Owner <- Self
    NoUser = NoUser
    NoDevice = NoDevice
    NoFrame = NoFrame
    MaxCalls = 2
    MaxDrops = 1
CONSTRAINT DropsBetweenTwo
SYMMETRY Symmetry
INVARIANTS
    TypeOK
    CallerIsConnected
    EndedIsForgotten
    NeverStuckDialling
    TalkToWhomYouSee
    LoggedOnce
CHECK_DEADLOCK FALSE
