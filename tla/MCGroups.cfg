SPECIFICATION Spec
CONSTANTS
    u1 = u1  u2 = u2  u3 = u3  p1 = p1  p2 = p2  p3 = p3
    Users = {u1, u2, u3}
    Procs = {p1, p2}
    MaxMembers = 2
    MaxRequests = 3
    MaxFaults = 1
CONSTRAINT FaultsWithTwo
SYMMETRY Symmetry
INVARIANTS
    CacheIsFresh
    
CHECK_DEADLOCK FALSE
