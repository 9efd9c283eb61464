SPECIFICATION FairSpec
CONSTANTS
    LastMessage = 2
    KitEvents <- MCKitEvents
    KitTarget = TRUE
    Caps = {1, 2}
    HandOff = 1
    MaxEdits = 1
    MaxFaults = 2
    Refusals <- MCRefusals
    NoMessage = NoMessage
INVARIANTS
    TypeOK
    NothingLost
    TakenTwiceOnlyByFault
    NoMissedWake
PROPERTIES
    DeliveredAtLast
