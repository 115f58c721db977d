SPECIFICATION Spec
CONSTANTS
    MbrMax = 2
    EntrySectors = 2
    PerSector = 1
    Align = 4
    Capacity = 13
    Verbs = {"o"}
    Nums = {1, 2}
    FirstArgs = {8}
    EndArgs <- MCEndArgs
    TypeArgs = {"zero", "linux"}
    IntMod = 8
    InitDisks <- GptOnly
    Modes = {"tty"}
    MaxFaults = 0
INVARIANTS
    WrittenIsReloaded
