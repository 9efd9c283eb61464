SPECIFICATION Spec
CONSTANTS
    LastEdit = 2
    Creates = {}
    Policies = {"skip"}
    MaxLost = 1
    MaxEvents = 0
    NoEntry = NoEntry
INVARIANTS
    DroppedIsGone
