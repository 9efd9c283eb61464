SPECIFICATION Spec
CONSTANTS
    LastEdit = 2
    Creates <- MCCreates
    Policies = {"hold", "drop"}
    MaxLost = 1
    MaxEvents = 1
    NoEntry = NoEntry
INVARIANTS
    TypeOK
    InOrder
    AppliedOnce
PROPERTIES
    Contract
