SPECIFICATION Spec
CONSTANTS
    lang = lang
    db = db
    extra = extra
    sure = sure
    a = a
    b = b
    x = x
    y = y
    None = None
    End = End
    Question <- MCQuestion
    Value <- MCValue
    First = lang
    Follow <- MCFollow
    Offer <- MCOffer
    Kind <- MCKind
    Typed <- MCTyped
    PieceOf <- MCPieceWithNumber
    MaxPieces = 4
    Caps = {5}
    Models = {"first"}
    MaxDepth = 6
    MaxRuns = 1
    MaxWalks = 1
INVARIANTS
    EveryQuestionIsShown
    OneSnapshotPerTest
