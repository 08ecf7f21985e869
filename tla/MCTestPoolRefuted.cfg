SPECIFICATION FairSpec
CONSTANTS
    NumTests = 2
    Permits = 2
    MaxAttempts = 1
    MaxPanics = 0
    SnapshotOf <- MCSnapshotOf
    MayHang <- MCMayHang
INVARIANTS
    SessionsAreClosed
    EverySnapshotHasOneWriter
PROPERTIES
    CleanupAlways
    EveryRunEnds
