SPECIFICATION StoreSpec
CONSTANTS
    Process = {p1, p2, p3}
    Key = {k1, k2}
    Foreign = {f}
    MaxCrashes = 1
SYMMETRY Symmetric
INVARIANTS ClearRemovesAll
PROPERTIES CacheSpec
