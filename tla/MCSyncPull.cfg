SPECIFICATION Spec
CONSTANTS
    open = open
    mine = mine
    dishes = dishes
    myself = myself
    everyone = everyone
    g1 = g1
    g2 = g2
    g3 = g3
    g4 = g4
    g5 = g5
    Items <- MCItems
    Collections <- MCCollections
    Scopes <- MCScopes
    Shared = everyone
    collectionOf <- MCCollectionOf
    scopeOf <- MCScopeOf
    Limit = 1
    feed = dishes
    me = myself
    Gens <- MCGens
    MaxSeq = 3
    MaxEpoch = 2
    MayLose = TRUE
    MayClose = TRUE
    MayFill = TRUE
    NoRow = NoRow
    NoCursor = NoCursor
    NoRec = NoRec
    NoGen = NoGen
    NoAnswer = NoAnswer
INVARIANTS
    TypeOK
    ListedIsStored
PROPERTIES
    CurrentRecordsStay
    NeverGoesBack
