SPECIFICATION FairSpec
CONSTANTS
    Char = {"a"}
    Keys = {"type", "undo", "exit", "save", "eof"}
    Needles <- LetterNeedles
    InsertTexts <- MCInsertTexts
    PageSize = 2
    UndoMax = 2
    UndoBudget = 20
    AllocFails = FALSE
    InitFiles <- MCInitFiles
    Unnamed = TRUE
    MaxFaults = 2
    MaxLines = 2
    MaxChars = 2
PROPERTIES
    LeavesUnlessAsking
