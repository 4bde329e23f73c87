\* Start-up, remote and local memory pools, queue pairs.
CONSTANTS
  Scenarios = {"pool", "local", "boot", "writer", "cross"}
  Granu = 4
  Needs <- cNeeds
  Connects <- cConnects
  Deployed <- cDeployed
  SlotSize <- cSlotSize
  MaxSlots <- cMaxSlots
  Users <- cUsers
  ChunkSize <- cChunkSize
  RegionSlots <- cRegionSlots
  Addresses = {0, 2, 4}
  MaxHeld <- cMaxHeld
  Coordinator = 1
  Primary = 1
  Backups <- cBackups
  TaskSize = 5
  Modes = {"primary", "all"}
  MaxVersion = 1
  Callers <- cCallers
  Pushers <- cPushers
  Ends = {0, 2}
  SendDepth = 2
  RingSize = 2
  MaxCalls <- cMaxCalls
  MaxChanges = 1

SPECIFICATION MCSpec

INVARIANTS
    PoolsSound
    SetUpComplete
    WritesBackTruly
    MessagesIntact
    FabricGoesOn
CHECK_DEADLOCK FALSE
