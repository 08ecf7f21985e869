SPECIFICATION FairSpec
CONSTANTS
    Id = {1, 2, 3, 4}
    Template = {1, 2, 3, 4}
    Resolver = {x, y}
    None = None
    Batches <- MCBatches
INVARIANTS
    ExecutedOnce
    PresetsArrive
    ConsensusIsUnanimous
    DependentsWin
PROPERTIES
    BatchEnds
