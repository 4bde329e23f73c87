CONSTANTS
    a1 = a1
    a2 = a2
    b1 = b1
    c1 = c1
    NoOne = NoOne
    NoMsg = NoMsg
    NoOp = NoOp
    N = 2
    Shift = 5
    Thread = {a1, b1}
    Home <- Two
    Ops <- Tries
    Threshold = 1
    Parallel = 2
    MaxLevel = 1
    Impatient = {b1}
    Late = {"handover", "release"}
    InOrder = TRUE
    Evicting = {1}
    ShortLRU = FALSE
SPECIFICATION Spec
INVARIANTS
    AccessesCoherent
    BufferedServable
    LatchLedger
PROPERTIES
    ImplementsPageLatch
