SPECIFICATION Spec
CONSTANTS
    Char = {"a", "b"}
    Keys = {"type", "enter", "backspace", "delete", "cut", "insert", "move", "jump", "ins", "undo"}
    Needles <- MCNeedles
    InsertTexts <- MCInsertTexts
    PageSize = 2
    UndoMax = 1
    UndoBudget = 7
    AllocFails = FALSE
    InitFiles <- OneFile
    Unnamed = FALSE
    MaxFaults = 0
    MaxLines = 3
    MaxChars = 2
INVARIANTS
    CursorInside
    RunStaysOnItsLine
    SearchFindsTheNext
    CutThenPasteRestoresButLast
