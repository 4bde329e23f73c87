CONSTANTS
    a1 = a1
    a2 = a2
    b1 = b1
    c1 = c1
    NoOne = NoOne
    NoMsg = NoMsg
    NoOp = NoOp
    N = 3
    Shift = 5
    Thread = {a1, b1, c1}
    Home <- Three
    Ops <- Mixed
    Threshold = 0
    Parallel = 1
    MaxLevel = 1
    Impatient = {c1}
    Late = {}
    InOrder = TRUE
    Evicting = {}
    ShortLRU = FALSE
SPECIFICATION Spec
INVARIANTS AcquiresSafe PendingRemembered
