SPECIFICATION SuiteSpec
CONSTANTS
    Parts = {"calls"}
    Hosted = FALSE
    Graphs <- Wirings
    Sources = {"stream", "copied", "mapped"}
    ImageLengths = {0, 1, 2, 3}
    ImageKinds = {"good", "ungranted", "refused", "unlinked"}
    ImageCapacity = 2
    EmptyWait = 0
    BuildStages = 0
    SeedWords = 0
    ModuleCount = 1
    PendingCount = 2
    JobCount = 1
    WireFrames = 1
    CallWait = 1
    Budgeted = FALSE
    OutputCells = 1
    MaxCalls = 0
    MaxAnswers = 0
PROPERTIES StopEnds
CHECK_DEADLOCK FALSE
