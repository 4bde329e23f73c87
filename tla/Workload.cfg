SPECIFICATION MCSpec
CHECK_DEADLOCK FALSE
SYMMETRY Symmetric
CONSTANTS
    Workers = {w1, w2}
    w1 = w1
    w2 = w2
    Missing = Missing
    Needs <- MCNeeds
    Leaves <- MCLeaves
    GivesUp <- MCGivesUp
    Warehouses = 2
    Partitions = 2
    Districts = 2
    Customers = 2
    NewOrders = 1
    Items = 2
    MaxLines = 3
    Depth = 2
    WarehouseBits = 8
    DistrictLowBits = 6
    OrderIdLowBits = 2
    Accounts = 3
    BankPartitions = 2
    Subscribers = 2
    TatpPartitions = 2
    FacilityTypes = 2
    MaxFacilityType = 3
    AccessTypes = 2
    Starts = 1
    TpccWidth = 1
    UserWidth = 2
    Units = 3
    FirstUnit = 1
    ScanDistricts = 2
    ScanItems = 2
    ScanCustomers = 2
    ScanTypes = 2
    ComputeNum = 3
    MemoryNum = 2
    XallOffset = 100
    StorageKey = 99
INVARIANTS
    TablesConsistent
    
    ExecutorSound
    
    SyncGoesOn
PROPERTIES
    MoneyMoves
