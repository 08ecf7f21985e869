SPECIFICATION FairSpec
CONSTANTS
    NumNodes = 4
    SpecOf <- MCSpecOf
    Group = {3}
INVARIANTS
    NoReleaseWhileOwned
    NoLeak
    ExactlyOnceOnSuccess
    SecondReleaseOnlyAtFailure
PROPERTIES
    LeaseSpec
    HeadlessRunEnds
