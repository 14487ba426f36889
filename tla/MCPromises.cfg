SPECIFICATION SuiteSpec
CONSTANTS
    Parts = {"ring", "promises"}
    Jobs = {j1, j2, j3}
    Capacity = 3
    EmptyJob = EmptyJob
    Promise = {p1, p2, p3}
    JobCount = 2
    MaxReactions = 2
    MaxAttempts = 2
    NoPromise = NoPromise
SYMMETRY Interchangeable
INVARIANTS
    ReactionsRun
PROPERTIES
    IsFifo SettlesOnce
CHECK_DEADLOCK FALSE
