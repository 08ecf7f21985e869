SPECIFICATION FairSpec
CONSTANTS
    NumTests = 3
    Permits = 2
    MaxAttempts = 2
    MaxPanics = 1
    SnapshotOf <- MCSnapshotOf
    MayHang <- MCMayHang
INVARIANTS
    ContainerServesTests
    OkMeansAllPassed
PROPERTIES
    RunEnds
