SPECIFICATION FairSpec
CONSTANTS
    m1 = m1
    m2 = m2
    Markets <- MCMarkets
    OracleMarkets <- MCOracleMarkets
    MaxFailures = 2
    InOrder = TRUE
    Events = {"signal", "failure", "hard", "reconcile", "cancel", "final"}
INVARIANTS
    TypeOK
    NoOrdersLeft
    HealthCountsTheTasks
PROPERTIES
    MarketsFailAlone
    EndsWhenTold
CHECK_DEADLOCK FALSE
