SPECIFICATION SuiteSpec
CONSTANTS
    Parts = {"table", "staging"}
    BindingCount = 2
    PendingCount = 2
    ResourceCount = 1
    RequestMax = 4
    GenerationCount = 2
    Names = {n1}
    Scopes = {c1, c2}
    Limits = {1, 2}
    Traces = {t1}
    Promises = {p1}
    Tokens = {k1}
    Undefined = Undefined
    MaxReleases = 1
    OutboxCount = 2
    PayloadBytes = 3
    WireBuffer = 5
    PayloadLengths = {0, 1, 2}
    MaxCalls = 4
INVARIANTS
    CountsAgree HandleNamesItsResource CarriedWithArguments
PROPERTIES
    AnsweredOnce
CHECK_DEADLOCK FALSE
