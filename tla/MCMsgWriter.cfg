SPECIFICATION FairSpec
CONSTANTS
    d1 = d1
    m1 = m1
    m2 = m2
    m3 = m3
    Conns = {d1}
    Ids = {m1, m2, m3}
    Sends <- OneSends
    Bad = {m3}
    Writers = {w1, w2}
    MaxRows = 2
    QueueCap = 2
    MaxSaves = 3
CHECK_DEADLOCK FALSE
INVARIANTS TypeOK AckedIsStored SenderOrder OnlyBadRowsFail
PROPERTIES StoreSpec EveryRequestAnswered
