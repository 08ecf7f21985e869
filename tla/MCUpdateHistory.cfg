SPECIFICATION Spec
CONSTANTS
    app = app
    lib = lib
    x = x
    Template <- MCTemplate
    MaxVersion = 2
    Answer = {x}
    NoAnswer = NoAnswer
    Absent = Absent
    Edited = Edited
    Conflict = Conflict
    Torn = Torn
    Shared = Shared
    Dropped <- MCDropped
    Ignored = {}
    Kinds = {"new", "update"}
    Faults = {}
    Scenes <- OneScene
    MaxRuns = 2
INVARIANTS
    DoneIsRecorded
