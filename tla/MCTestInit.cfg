SPECIFICATION FairSpec
CONSTANTS
    lang = lang
    db = db
    extra = extra
    sure = sure
    a = a
    b = b
    x = x
    y = y
    None = None
    End = End
    Question <- MCQuestion
    Value <- MCValue
    First = lang
    Follow <- MCFollow
    Offer <- MCOffer
    Kind <- MCKind
    Typed <- MCTyped
    PieceOf <- MCPieceOf
    MaxPieces = 3
    Caps = {5}
    Models = {"first", "sequence", "stuck"}
    MaxDepth = 6
    MaxRuns = 2
    MaxWalks = 1
INVARIANTS
    NothingIsLost
    EveryCombinationIsTested
    OneSnapshotPerTest
    WarmupIsCleaned
PROPERTIES
    InitEnds
