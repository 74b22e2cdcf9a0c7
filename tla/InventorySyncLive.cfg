SPECIFICATION FairSpec
CONSTANTS
    Deals <- MCSales
    MaxTrades = 2
    Page = 2
    Overlap = 1
    Window = 2
    InitialMint = 2
    InitialCash = 6
    PairCost = 2
    Threshold = 0
    Pendings = {0}
    Faults = {}
    NoKey = NoKey
PROPERTIES
    
    ResolvedMarketEnds
CHECK_DEADLOCK FALSE
