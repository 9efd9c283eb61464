SPECIFICATION Spec
CONSTANTS
    LastEdit = 2
    Creates = {}
    Policies = {"skip"}
    MaxLost = 2
    MaxEvents = 0
    NoEntry = NoEntry
INVARIANTS
    NothingLost
    NeverStranded
    InOrder
    AppliedOnce
