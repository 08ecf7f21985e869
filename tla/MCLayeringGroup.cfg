SPECIFICATION Spec
CONSTANTS
    Id = {1, 2, 3, 4}
    Template = {1, 2, 3, 4}
    Resolver = {x, y}
    None = None
    Batches <- MCInnerGroup
INVARIANTS ConsensusIsUnanimous
