SPECIFICATION Spec
CONSTANTS
    m1 = m1
    m2 = m2
    Markets <- MCMarkets
    OracleMarkets <- MCOracleMarkets
    MaxFailures = 2
    InOrder = TRUE
    Events = {"hard"}
INVARIANTS
    QuotingIsReconciled
CHECK_DEADLOCK FALSE
