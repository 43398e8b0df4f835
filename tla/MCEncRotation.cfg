SPECIFICATION FairSpec
CONSTANTS
    k1 = k1  k2 = k2  k3 = k3  r1 = r1  r2 = r2  f1 = f1  f2 = f2
    Keys = {k1, k2}
    Rows = {r1}
    Files = {f1, f2}
    MaxFaults = 1
    MaxStops = 2
INVARIANTS
    NoFileRuined
    FinishedIsReadable
PROPERTY RotationFinishes
CHECK_DEADLOCK FALSE
