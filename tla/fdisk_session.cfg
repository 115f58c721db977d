SPECIFICATION Spec
CONSTANTS
    MbrMax = 2
    EntrySectors = 2
    PerSector = 1
    Align = 4
    Capacity = 13
    Verbs = {"o", "g", "n", "d", "t"}
    Nums = {1, 2}
    FirstArgs = {8}
    EndArgs <- MCEndArgs
    TypeArgs = {"zero"}
    IntMod = 8
    InitDisks <- MCInitDisks
    Modes = {"tty"}
    MaxFaults = 1
INVARIANTS
    NoOverlap
    PartsInBounds
    WrittenIsReloadedUnlessStale
PROPERTIES
    UsableDataSafe
