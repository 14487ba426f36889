SPECIFICATION Spec
CONSTANTS
    Parts = {"frame"}
    None = None
    MaxFinalisers = 4
    MaxOutcomes = 5
    MaxThrows = 1
    Handler = TRUE
    MaxImports = 2
    Shapes = {"chain", "cycle", "ring", "defers", "shares", "turns", "behind", "gated", "refused", "broken"}
    MaxRequests = 3
INVARIANT RunsAsWritten
CHECK_DEADLOCK FALSE
