SPECIFICATION Spec
CONSTANTS
    c1 = c1
    c2 = c2
    Calls <- MCCalls
    MaxAttempts = 2
    MaxTicks = 2
    MaxSessions = 2
    MaxLate = 1
SYMMETRY MCSymmetry
INVARIANTS
    TypeOK
    ExecutedOnce
    SurvivesExpiry
PROPERTIES
    CallsGetOn
CHECK_DEADLOCK FALSE
