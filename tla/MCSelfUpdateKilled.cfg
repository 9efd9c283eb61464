SPECIFICATION FairSpec
CONSTANTS
    LastVersion = 5
    Bad <- MCBad
    MaxAttempts = 3
    MaxFaults = 4
    NoteMayFail = FALSE
    NoVersion = NoVersion
    NoUpdate = NoUpdate
INVARIANT BadRunsOnProbation
CHECK_DEADLOCK FALSE
