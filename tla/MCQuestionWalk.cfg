SPECIFICATION FairWalk
CONSTANTS
    name = name
    token = token
    region = region
    sure = sure
    a = a
    b = b
    NoAnswer = NoAnswer
    End = End
    Question <- MCQuestion
    Answer <- MCAnswer
    First = name
    Follow <- MCFollow
    Kind <- MCKind
    Clash <- MCClash
    Wrong <- MCWrong
    Model = {"first", "sequence", "stuck"}
    Faults = TRUE
    MaxIter = 5
INVARIANTS
    DoneIsOnePath
    MessagesHideAnswers
PROPERTIES
    SessionSpec
    CallerGetsOutcome
