SPECIFICATION FairSpec
CONSTANTS
    a = a
    b = b
    root = root
    k = k
    j = j
    v1 = v1
    v2 = v2
    None = None
    Global = Global
    Node <- MCNode
    Raw = {k, j}
    Value = {v1, v2}
    Order <- MCOrder
    Asks <- MCAsks
    Presets <- MCPresets
    Executables <- MCExecutables
    Modes = {"interactive", "headless"}
    MaxVersion = 1
    MaxRuns = 2
INVARIANTS ReplayIsFaithful CallerWins CacheHitEqualsFreshRun
PROPERTIES CallerReachesDone
