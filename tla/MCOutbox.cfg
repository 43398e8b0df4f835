SPECIFICATION OutboxFairSpec
CONSTANTS
    m1 = m1  m2 = m2  m3 = m3  c1 = c1  c2 = c2  c3 = c3
    Ids = {m1, m2}
    Refused = {m2}
    Sockets = {c1, c2}
    MaxFails = 1
    MaxRestarts = 1
INVARIANTS
    NoSilentLoss
    AcksAreTrue
PROPERTY QueueDrains
CHECK_DEADLOCK FALSE
