CONSTANTS
    a = a
    b = b
    d = d
    Proc = {a, b, d}
    Earlier = Earlier
    MaxFaults = 1
    Port = {1, 2}
    MaxTries = 3
    v = v
    Tag = {v, v2}
    Mixes <- MCMixes
SPECIFICATION FairSpec
INVARIANTS
    RacesEndWell
    NotEveryoneStarves
    VersionsAreWhole
PROPERTIES
    StartNeverKills
    CommandsEnd
