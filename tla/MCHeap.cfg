SPECIFICATION Spec
CONSTANTS
    SlotCount = 3
    ArenaSize = 8
    CellHeader = 2
    Lengths = {0, 1}
    WorklistSize = 1
    MaxGeneration = 3
    MaxRefs = 1
    MaxCells = 3
    MaxRetires = 1
INVARIANTS CellsKept
PROPERTIES GarbageReclaimed CollectionEnds
CHECK_DEADLOCK FALSE
