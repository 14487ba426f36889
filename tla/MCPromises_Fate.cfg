SPECIFICATION SuiteSpec
CONSTANTS
    Parts = {"promises"}
    Jobs = {j1}
    Capacity = 1
    EmptyJob = EmptyJob
    Promise = {p1, p2}
    JobCount = 2
    MaxReactions = 0
    MaxAttempts = 2
    NoPromise = NoPromise
SYMMETRY Interchangeable
INVARIANT FollowsFate
CHECK_DEADLOCK FALSE
