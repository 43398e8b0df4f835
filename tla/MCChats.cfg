SPECIFICATION Spec
CONSTANTS
    a = a  b1 = b1  b2 = b2  p1 = p1  p2 = p2
    NoDevice = NoDevice
    Authors = {a}
    Peers = {b1, b2}
    Procs = {p1, p2}
    MaxChanges = 2
    MaxDrops = 1
    MaxRefusals = 1
    MaxLoads = 1
    Loads <- NineLoads
SYMMETRY Symmetry
INVARIANTS
    
    MutedAgrees
    
PROPERTY BoundaryNeverFalls
CHECK_DEADLOCK FALSE
