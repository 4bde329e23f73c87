\* LOCK, OCC, TO and MVOCC transactions, and a delta ring.
SPECIFICATION Spec
CONSTANTS
  Scenarios = {"store", "threads", "collectors", "ring"}
  Txns = {1, 2, 3}
  Tuples = {1, 2, 3, 4}
  PageOf <- MCPageOf
  Programs <- MCPrograms
  MaxTries <- MCMaxTries
  Nodes = {0, 2}
  Threads = {1, 2, 3}
  NodeOf <- MCNodeOf
  FirstTs <- MCFirstTs
  MaxRounds = 2
  MvTuples = {1, 2, 3}
  NewTuples = {3}
  MvPrograms <- MCMvPrograms
  Capacity = 7
  Sizes = {2}
  Writers = {1, 2}
  MaxRecords = 5
  MaxPulls = 2
INVARIANTS
    Serializable
    
    Unblocked
    IsolationKept
    CollectionSafe
    
    PullComplete
PROPERTIES
    StampsGrow
CHECK_DEADLOCK FALSE
