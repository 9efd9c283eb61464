SPECIFICATION Spec
CONSTANTS
    open = open
    mine = mine
    theirs = theirs
    dishes = dishes
    me = me
    you = you
    all = all
    phone = phone
    Items <- MCItems
    Collections <- MCCollections
    Scopes <- MCScopes
    Shared = all
    collectionOf <- MCCollectionOf
    scopeOf <- MCScopeOf
    Followers <- MCFollowers
    follows <- MCFollows
    login <- MCLogin
    Revs <- MCRevs
    Limit = 2
    MaxSeq = 3
    MaxEpoch = 4
    MaxRestores = 2
    NoRow = NoRow
    NoTx = NoTx
    NoFile = NoFile
    NoCursor = NoCursor
INVARIANTS
    EpochNamesOneHistory
