\* The local latch, and a shard of the page cache.
CONSTANTS
  t1 = t1
  t2 = t2
  t3 = t3
  k1 = k1
  k2 = k2
  k3 = k3
  NoLine = NoLine
  NoKey = NoKey
  Thread <- MCThread
  Calls <- MCCalls
  Client <- MCClient
  Key = {k1, k2, k3}
  Line = {e1, e2, e3, e4}
  Access <- MCAccess
  MaxHeld = 1
  Trigger = 2

SPECIFICATION MCSpec

INVARIANTS
    LatchSound
    HeldMapped
    ShardSound
    
PROPERTIES
    ImplementsRWLock
    WritersServed
