SPECIFICATION Spec
CONSTANTS
    MaxPrice = 5
    SpreadMin = 2
    SpreadMax = 3
    WidenTenths = 15
    Step = 1
    Sizes <- MCSizes
    LastMid = 6
    LastHalf = 2
    Mids <- MCMids
    Halves <- MCHalves
    MaxVolume = 2
INVARIANTS
    TypeOK
    QuotesStand
    
    OneIntentPerPrice

    
    
