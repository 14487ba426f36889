SPECIFICATION Spec
CONSTANTS
    Parts = {"shell", "linker", "pipeline", "evaluator", "router"}
    None = None
    Adapters = {"clock", "entropy", "http"}
    SeedWords = 2
    CallWait = 1
    ArgvWait = 2
    OutCells = 4
    WireCells = 2
    MaxBindings = 16
    MaxUnits = 3
    MaxNow = 1
    Names = {1, 2, 3}
    StackSizes = {1, 3}
    Exports = {"a"}
    Streams <- SomeStreams
    MaxImports = 2
    Graphs = {"compile", "link"}
    Early = {TRUE, FALSE}
    CompileWait = 4
    IsolateWait = 12
    SourceCells = 2
    MaxDelay = 3
    Sources <- SomeSources
    Digits = {"1", "6"}
    MaxInt = 15
    Fuel = 4
    TextCells = 5
    MaxText = 4
    TableSize = 1
    PayloadBytes = 1
    StageFrames = 1
    Bindings = {0, 1, 2}
    Methods = {0}
    MethodOf <- Served
    Wired = {0, 1}
    CallFrame = 2
    CompletionFrame = 1
    Trace = t1
    Traces = {t1, t2}
    PayloadLengths = {0, 1}
    Capacity = 1
    MaxCalls = 2
    MaxStray = 1
INVARIANTS
    SessionInOrder LinkedInOrder EdgeTellsTheOutcome EvaluatesTheSum OneAnswer
PROPERTIES
    CommandsEnd TakenIsTold
CHECK_DEADLOCK FALSE
