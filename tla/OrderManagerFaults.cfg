SPECIFICATION Spec
CONSTANTS
    Keys <- MCKeys
    Quantities <- MCQuantities
    IntentLists <- MCIntentLists
    MaxOrders = 2
    Faults = {"api", "redis", "expire", "exit", "crash"}
INVARIANTS
    TypeOK
    NoDuplicateSubmission
    CopiesAgree
PROPERTIES
    ForgetsOnlyDeadOrders
    ImplementsRegistry
