SPECIFICATION FairSpec
CONSTANTS
    open = open
    mine = mine
    theirs = theirs
    dishes = dishes
    me = me
    you = you
    all = all
    phone = phone
    Items <- MCFewItems
    Collections <- MCCollections
    Scopes <- MCScopes
    Shared = all
    collectionOf <- MCCollectionOf
    scopeOf <- MCScopeOf
    Followers <- MCFollowers
    follows <- MCFollows
    login <- MCLogin
    Revs <- MCRevs
    Limit = 2
    MaxSeq = 3
    MaxEpoch = 3
    MaxRestores = 1
    NoRow = NoRow
    NoTx = NoTx
    NoFile = NoFile
    NoCursor = NoCursor
INVARIANTS
    TypeOK
    NothingMissed
    EpochNamesOneHistory
PROPERTIES
    CommitsLandAhead
    CatchesUp
