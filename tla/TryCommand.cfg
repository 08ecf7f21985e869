SPECIFICATION Spec
CONSTANTS
    MaxAttempts = 3
    GroupSessions = {1, 2}
    Lengths = {0, 2}
INVARIANTS
    EverythingIsOwned
    DoneIsDelivered
