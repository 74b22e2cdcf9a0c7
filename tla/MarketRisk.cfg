SPECIFICATION Spec
CONSTANTS
    Prices <- MCPrices
    Mids <- MCMids
    Deviation = 20
    Lag = 2
    Interval = 1
    FetchTime = 1
    TTL = 2
    StatusTime = 1
    MaxCycle = 2
    NoPrice = NoPrice

    
PROPERTIES
    BothSidesNeedTheOracle
    HaltIsNoticed
