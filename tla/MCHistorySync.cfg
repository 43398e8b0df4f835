SPECIFICATION FairSpec
CONSTANTS
    MaxSeq = 4
    Chat <- TwoChats
    Inserts = 2
    PageSize = 2
    MaxTries = 1
    MaxConns = 2
    MaxTabs = 2
INVARIANTS
    TypeOK
    
PROPERTIES
    
    SyncEnds
CHECK_DEADLOCK FALSE
