SPECIFICATION FairSpec
CONSTANTS
    Calls = {p1, p2, p3}
    Lengths <- MCLengths
    MaxWriters = 1
    MaxResumes = 1
    LastTick = 2
INVARIANTS
    TypeOK
    HoldIsStill
    RefusalLetsGo
PROPERTIES
    PauseEnds
    Contract
