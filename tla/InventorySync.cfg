SPECIFICATION Spec
CONSTANTS
    Deals <- MCDeals
    MaxTrades = 2
    Page = 2
    Overlap = 1
    Window = 1
    InitialMint = 2
    InitialCash = 6
    PairCost = 2
    Threshold = 1
    Pendings = {0}
    Faults = {"lost", "down", "reconcile", "crash"}
    NoKey = NoKey
INVARIANTS
    TypeOK
    
    RedisLagsByTheUnpolled
    BurnsAllPairs
PROPERTIES
    
    ReserveIsKept
CHECK_DEADLOCK FALSE
