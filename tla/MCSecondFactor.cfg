SPECIFICATION Spec
CONSTANTS
    p1 = p1  p2 = p2
    Procs = {p1, p2}
    MaxTime = 2
    MaxRequests = 3
    MaxRestarts = 1
    MaxFaults = 1
    Loads <- TwoLoads
    Attempts = 1
    StepSeconds = 1
SYMMETRY Symmetry
INVARIANTS
    TypeOK
    SignedOutStaysOut
    NoSocketOfRevoked
    OwnTokenWorks
    CodeOnce
    EnabledIsConfirmed
CHECK_DEADLOCK FALSE
