SPECIFICATION AlgSpec
CONSTANTS
    Missing = Missing
    Jobs <- MCJobs
    Ctx = 1
    FollowBuf = 2
    MaxGrown = 5
    MaxTruncs = 1
    Sector = 4
    MaxLba = 8000
    BytesPerInode = 128
    DescSize = 1
    EntryLen = 1
    MinBlocks = 64
    Devices <- MCDevices
    E4Options <- MCE4Options
    Reserved = 8
    Fats = 2
    PerSector = 8
    MinClusters = 40
    MaxClusters = 70
    MaxSpc = 4
    MinSectors = 16
    Word = 65536
    F32Devices <- MCF32Devices
    Labels = {"", "DISK"}
    FwBlock = 2
    CopyBuf = 2
    FwArchives <- MCFwArchives
    FwPatterns <- MCFwPatterns
    FullNames <- MCFullNames
    LongNames <- MCLongNames
    MaxFwFaults = 1
INVARIANTS
    FiltersAgree
    FollowShows
    DiffApplies
    LayoutsFit
    MembersAreWhole
CHECK_DEADLOCK FALSE
