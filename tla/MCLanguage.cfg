SPECIFICATION Spec
CONSTANTS
    Parts = {"frame", "modules", "generator"}
    None = None
    MaxFinalisers = 4
    MaxOutcomes = 5
    MaxThrows = 1
    Handler = FALSE
    MaxImports = 2
    Shapes = {"chain", "cycle", "ring", "defers", "shares", "turns", "behind", "gated", "refused", "broken"}
    MaxRequests = 3
INVARIANTS
    LoweredAsWritten EvaluatedInOrder AnsweredInTurn
PROPERTIES
    NobodyWaits
CHECK_DEADLOCK FALSE
