SPECIFICATION Spec
CONSTANTS
    Parts = {"collections", "objects", "regexp", "scripts", "names", "buffers", "classes", "privates", "evals", "numbers"}
    None = None
    Keys = {k1, k2, k3}
    Holdable = {k1, k2}
    Values = {v1, v2}
    Unit = unit
    Walkers = {w1, w2}
    MaxPrototypes = 4
    ObjectWorlds = {"pair", "parents", "keyed", "array", "args", "proxied", "trapped"}
    MaxProgram = 40
    MaxGroups = 2
    MaxCopies = 3
    MaxDepth = 4
    MatchFuel = 60
    TaskFuel = 200
    MaxScripts = 4
    HeadRoom = 1
    FreshRoom = 1
    MaxScope = 8
    MaxContexts = 4
    Scenes = {"nested", "sloppy", "strict", "withEval", "deleting"}
    Numbers = {258}
    Sizes = {1, 2}
    MaxBytes = 2
    MaxBuffers = 2
    MaxViews = 3
    MaxNested = 2
    MaxBegun = 4
    Families = {"fields", "three", "arrows", "native"}
    MaxFrames = 4
    MaxActs = 4
    MaxClasses = 3
    MaxObjects = 1
    MaxScopes = 4
    Realms = {1, 2}
    MaxStack = 3
    MaxActive = 2
    MaxSources = 2
    FractionBits = 4
    ExponentBits = 4
    HalfWord = 4
    SingleFraction = 2
    SingleExponent = 3
    IntegerBits = 4
    RootTurns = 24
    LimbBits = 4
    MaxLimbs = 2
    Topics = {"sums", "products", "bits", "converted", "wholes", "read", "written"}
    MaxDigits = 14
    MaxShift = 8
    InfinitePoint = 8
    ZeroPoint = 8
    ParseRoom = 12
    TextDigits = 6
    RadixRoom = 8
    ShortestDigits = 24
    PlainUpTo = 2
    MostDigits = 3
    PlainDownTo = 2
INVARIANTS
    NeverTwice ObjectsSound FoundAsMeant NamesAsScoped ConstructedOnce AnswersItsCall
PROPERTIES
    ImplementsKeyedStore FixedStaysFixed NamesKept BytesKept
CHECK_DEADLOCK FALSE
