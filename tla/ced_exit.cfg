SPECIFICATION Spec
CONSTANTS
    Char = {"a"}
    Keys = {"type", "undo", "save", "exit"}
    Needles <- LetterNeedles
    InsertTexts <- MCInsertTexts
    PageSize = 2
    UndoMax = 2
    UndoBudget = 20
    AllocFails = FALSE
    InitFiles <- MCInitFiles
    Unnamed = TRUE
    MaxFaults = 0
    MaxLines = 2
    MaxChars = 2
PROPERTIES
    ExitKeepsText
