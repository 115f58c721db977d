SPECIFICATION HSpec
CONSTANTS
    Char = {"a"}
    Keys = {"type", "backspace", "undo", "save", "exit", "eof"}
    Needles <- LetterNeedles
    InsertTexts <- MCInsertTexts
    PageSize = 2
    UndoMax = 2
    UndoBudget = 5
    AllocFails = TRUE
    InitFiles <- MCInitFiles
    Unnamed = TRUE
    MaxFaults = 2
    MaxLines = 2
    MaxChars = 2
INVARIANTS
    OneBadSaveRecoverable
    CleanMeansSaved
    UndoReachesTheStart
