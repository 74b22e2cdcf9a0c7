SPECIFICATION AnsweringSpec
CONSTANTS
    Keys <- MCKeys
    Quantities <- MCQuantities
    IntentLists <- MCShortLists
    MaxOrders = 2
    Faults = {}
PROPERTIES
    DeadOrdersLeaveTheCache
