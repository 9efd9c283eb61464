SPECIFICATION FairSpec
CONSTANTS
    LastVersion = 5
    Bad <- MCBad
    MaxAttempts = 3
    MaxFaults = 4
    NoteMayFail = TRUE
    NoVersion = NoVersion
    NoUpdate = NoUpdate
INVARIANT RollbackTargetKept
CHECK_DEADLOCK FALSE
