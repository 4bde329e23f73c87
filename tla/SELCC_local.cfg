CONSTANTS
    a1 = a1
    a2 = a2
    b1 = b1
    c1 = c1
    NoOne = NoOne
    NoMsg = NoMsg
    NoOp = NoOp
    N = 2
    Shift = 5
    Thread = {a1, a2, b1}
    Home <- TwoPlusOne
    Ops <- LocalOps
    Threshold = 0
    Parallel = 1
    MaxLevel = 1
    Impatient = {a1, a2, b1}
    Late = {}
    InOrder = TRUE
    Evicting = {}
    ShortLRU = FALSE
SPECIFICATION LiveSpec
INVARIANTS LatchesSafe
PROPERTIES RequestsAnswered
