SPECIFICATION LocalSpec
CONSTANTS
    open = open
    mine = mine
    dishes = dishes
    myself = myself
    everyone = everyone
    g1 = g1
    g2 = g2
    g3 = g3
    g4 = g4
    g5 = g5
    c1 = c1
    c2 = c2
    Items <- MCOneItem
    Collections <- MCCollections
    Scopes <- MCScopes
    Shared = everyone
    collectionOf <- MCCollectionOne
    scopeOf <- MCScopeOne
    Limit = 2
    feed = dishes
    me = myself
    Gens <- MCGens
    MaxSeq = 1
    MaxEpoch = 1
    MayLose = TRUE
    MayClose = FALSE
    MayFill = TRUE
    NoRow = NoRow
    NoCursor = NoCursor
    NoRec = NoRec
    NoGen = NoGen
    NoAnswer = NoAnswer
    Pages <- MCPages
    Calls = {c1, c2}
    NoRead = NoRead
INVARIANTS
    LocalTypeOK
    OnlyRacesLeaveStrays
SYMMETRY MCSymmetry
