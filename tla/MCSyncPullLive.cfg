SPECIFICATION FairSpec
CONSTANTS
    open = open
    mine = mine
    dishes = dishes
    myself = myself
    everyone = everyone
    g1 = g1
    g2 = g2
    g3 = g3
    g4 = g4
    g5 = g5
    Items <- MCItems
    Collections <- MCCollections
    Scopes <- MCScopes
    Shared = everyone
    collectionOf <- MCCollectionOf
    scopeOf <- MCScopeOf
    Limit = 2
    feed = dishes
    me = myself
    Gens <- MCGens
    MaxSeq = 2
    MaxEpoch = 2
    MayLose = TRUE
    MayClose = TRUE
    MayFill = TRUE
    NoRow = NoRow
    NoCursor = NoCursor
    NoRec = NoRec
    NoGen = NoGen
    NoAnswer = NoAnswer
INVARIANTS
    StoreMirrorsLog
PROPERTIES
    Converges
