SPECIFICATION Spec
CONSTANTS
    MbrMax = 2
    EntrySectors = 2
    PerSector = 1
    Align = 4
    Capacity = 13
    Verbs = {"o", "g", "n", "d", "b"}
    Nums = {1, 8, 9}
    FirstArgs = {}
    EndArgs <- MCEndArgs
    TypeArgs = {}
    IntMod = 8
    InitDisks <- MCGptDisks
    Modes = {"script"}
    MaxFaults = 1
PROPERTIES
    AtomicWrite
