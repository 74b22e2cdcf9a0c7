SPECIFICATION Spec
CONSTANTS
    Deals <- MCSales
    MaxTrades = 1
    Page = 2
    Overlap = 1
    Window = 2
    InitialMint = 2
    InitialCash = 4
    PairCost = 2
    Threshold = 9
    Pendings = {0}
    Faults = {"crash"}
    NoKey = NoKey
INVARIANTS
    PolledUpIsTrue
CHECK_DEADLOCK FALSE
