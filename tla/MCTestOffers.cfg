SPECIFICATION Spec
CONSTANTS
    lang = lang
    db = db
    extra = extra
    sure = sure
    a = a
    b = b
    x = x
    y = y
    None = None
    End = End
    Question <- MCQuestion
    Value <- MCValue
    First = lang
    Follow <- MCFollow
    Offer <- MCOfferByLanguage
    Kind <- MCKind
    Typed <- MCTyped
    PieceOf <- MCPieceOf
    MaxPieces = 3
    Caps = {5}
    Models = {"first"}
    MaxDepth = 6
    MaxRuns = 1
    MaxWalks = 1
INVARIANTS
    EveryCombinationIsTested
    ShortenedNamesDiffer
