SPECIFICATION Spec
CONSTANTS
    Adapters = {"time", "entropy", "store", "fs", "net", "http", "ws"}
    MaxCalls = 3
    MaxQueue = 1
    StageCells = 3
    PayloadCells = 1
    Quotas = {0, 1}
    Sleepers = 2
    Delays = {0, 1, 2}
    WaitCeiling = 2
    MaxClock = 3
    Entries = 1
    MaxNotYet = 1
    StorageStage = 4
    StoragePayload = 2
    OpenFiles = 1
    MaxAttach = 2
    Connections = 2
    Pending = 2
    BufferCells = 1
    CommandCells = 2
    MaxEvents = 2
    HttpPending = 2
    BodyCells = 1
    MaxBody = 2
    Authorities = {"a"}
    Links = 2
    WsPending = 2
    FrameRoom = 1
    MaxMessages = 2
INVARIANTS
    AnsweredOnceEach OwnBytes HandlesKept HeldAsAsked
CHECK_DEADLOCK FALSE
