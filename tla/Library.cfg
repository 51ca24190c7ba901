SPECIFICATION Spec
CONSTANTS
    Paths = {"p", "q"}
    Absent = Absent
    FileTexts <- MCFileTexts
    OldTexts <- MCOldTexts
    MaxFile = 3
    TextModes <- MCTextModes
    OpenModes <- MCOpenModes
    Names = {"a", "b"}
    MaxDepth = 2
    Elements = {0, 1, 2, 3, 4}
    MaxList = 3
    PoolSizes = {0, 2}
    RefillSizes = {0, 1, 2}
    MaxObjects = 5
    IdRange = 8
    Steps = {1, 3}
    Starts = {0, 5}
    Boot = 2
    MaxClock = 6
    UNITS <- MCUNITS
    Missing = Missing
    Radix = 2
    Size = 3
    Wrap = 6
    LogUnits = {"u", "v"}
    MaxMessages = 3
    Bytes = {x, y}
    Zero = Zero
    MaxSpan = 2
    MaxSize = 4
    DiskFaults = TRUE
SYMMETRY Symmetry
CHECK_DEADLOCK FALSE
INVARIANTS
    FilesExact
    TreeExact
    FactoryExact
    IdsUnique
    WatchExact
    LogComplete
    ObjectsExact
    OperationsExact
    ListExact
    BufferExact
