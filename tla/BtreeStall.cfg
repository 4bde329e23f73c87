CONSTANTS
  Loader = Loader
  a1 = a1
  a2 = a2
  b1 = b1
  Threads = {Loader, a1, a2, b1}
  Nodes = {"A", "B"}
  NodeOf <- MCNodeOf
  WaitsFor <- MCWaitsFor
  Scripts <- YoungScripts
  LeafCardinality = 2
  InternalCardinality = 3
  Highest = 9
  RetryLimit = 4
  MaxLevel = 3
SPECIFICATION MCSpec
INVARIANT InsertGoesOn
CHECK_DEADLOCK FALSE
