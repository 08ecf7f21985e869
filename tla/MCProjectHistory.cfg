SPECIFICATION Spec
CONSTANTS
    app = app
    lib = lib
    x = x
    Template <- MCTemplate
    MaxVersion = 2
    Answer = {x, y}
    NoAnswer = NoAnswer
    Absent = Absent
    Edited = Edited
    Conflict = Conflict
    Torn = Torn
    Shared = Shared
    Dropped <- MCDropped
    Ignored = {}
    Kinds = {}
    Faults = {}
    Scenes <- MCScenes
    MaxRuns = 3
INVARIANTS
    StoppedRunLeavesProject
    BaseIsWhatWasGenerated
    DoneIsRecorded
PROPERTIES
    EditsSurvive
