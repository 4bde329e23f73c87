CONSTANTS
    Computes = {0, 2}
    MemNodes = {1, 3, 5}
    Pages = {"p", "q"}
    SegSize = 5
    RecSize <- MCRecSize
    Threshold = 3
    WriteOne = FALSE
    Order <- MCOrder
    Asked <- MCAsked
    Recycling = 4
    Sharing = 2
SPECIFICATION Spec
CHECK_DEADLOCK FALSE
INVARIANTS
    LogIntact
    ReplayFollowsLog
    
    OwnLogReplayed
