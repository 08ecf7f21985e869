SPECIFICATION Spec
CONSTANTS
    app = app
    lib = lib
    x = x
    Template <- MCTemplate
    MaxVersion = 2
    Answer = {x, y}
    NoAnswer = NoAnswer
    Absent = Absent
    Edited = Edited
    Conflict = Conflict
    Torn = Torn
    Shared = Shared
    Dropped <- MCDropped
    Ignored = {app}
    Kinds = {}
    Faults = {}
    Scenes <- RefutedScenes
    MaxRuns = 4
INVARIANTS
    LayeredInInstallOrder
    PendingQuestionIsAnswerable
    BaseIsWhatWasGenerated
    HeadlessStopRestores
PROPERTIES
    EditsAreNeverTorn
    IgnoredEditsSurvive
