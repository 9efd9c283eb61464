SPECIFICATION FairSpec
CONSTANTS
    LastMessage = 2
    KitEvents <- MCKitEvents
    KitTarget = TRUE
    Caps = {1, 2}
    HandOff = 1
    MaxEdits = 0
    MaxFaults = 0
    Refusals <- MCDeadTargets
    NoMessage = NoMessage
PROPERTIES
    DeadTargetStallsNobody
