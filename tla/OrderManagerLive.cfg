SPECIFICATION FairSpec
CONSTANTS
    Keys <- MCKeys
    Quantities <- MCQuantities
    IntentLists <- MCIntentLists
    MaxOrders = 3
    Faults = {"expire", "api"}
INVARIANTS
    KnowsItsBook
    PendingCoversTheBook
    OneOrderPerKey
PROPERTIES
    CyclesEnd
