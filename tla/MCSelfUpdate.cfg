SPECIFICATION FairSpec
CONSTANTS
    LastVersion = 5
    Bad <- MCBad
    MaxAttempts = 3
    MaxFaults = 4
    NoteMayFail = FALSE
    NoVersion = NoVersion
    NoUpdate = NoUpdate
INVARIANTS
    TypeOK
    RollbackTargetKept
PROPERTIES
    SkippedStaysOut
    BadVersionLeaves
CHECK_DEADLOCK FALSE
