CONSTANTS
  Loader = Loader
  a1 = a1
  a2 = a2
  b1 = b1
  Threads = {Loader, a1, a2, b1}
  Nodes = {"A", "B"}
  NodeOf <- MCNodeOf
  WaitsFor <- MCWaitsFor
  Scripts <- MCScripts
  LeafCardinality = 2
  InternalCardinality = 3
  Highest = 9
  RetryLimit = 0
  MaxLevel = 3
SPECIFICATION MCSpec
INVARIANTS
    BLinkSound
    NothingMissed
    
CHECK_DEADLOCK FALSE
