SPECIFICATION LiveSpec
CONSTANTS
    c1 = c1  c2 = c2
    Incoming = {1, 2}
    Direct = {1, 2}
    Conns = {c1, c2}
    OutCap = 1
    PendingCap = 2
    MaxCrashes = 1
SYMMETRY Symmetry
INVARIANTS
    FlaggedWasHanded
    
CHECK_DEADLOCK FALSE
