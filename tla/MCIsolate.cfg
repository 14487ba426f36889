SPECIFICATION SuiteSpec
CONSTANTS
    Parts = {"calls", "image"}
    Hosted = TRUE
    Graphs <- Wirings
    Sources = {"stream", "copied", "mapped"}
    ImageLengths = {0, 1, 2, 3}
    ImageKinds = {"good", "ungranted", "refused", "unlinked"}
    ImageCapacity = 2
    EmptyWait = 1
    BuildStages = 2
    SeedWords = 2
    ModuleCount = 2
    PendingCount = 2
    JobCount = 1
    WireFrames = 1
    CallWait = 1
    Budgeted = TRUE
    OutputCells = 2
    MaxCalls = 2
    MaxAnswers = 2
INVARIANTS
    SettledOnce ExitIsLast WholeImageRuns
PROPERTIES
    SilentCallsEnd PhasesEnd
