SPECIFICATION Spec
CONSTANTS
    Skews <- MCSkews
    Pnls <- MCPnls
    SkewWiden = 30
    SkewOneSide = 60
    SkewKill = 80
    MaxLoss = 5000
    CooldownCycles = 3
INVARIANTS
    TypeOK
    NeverUnderreacts
    WorseInputsNeverCalm
PROPERTIES
    CooldownRespected
    
