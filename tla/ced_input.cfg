SPECIFICATION FairSpec
CONSTANTS
    Strokes <- MCStrokes
    IdleMax = 2
    SeqMax = 8
    MaxStrokes = 3
    MaxSignals = 3
INVARIANTS
    KeysAreStrokes
    FewSignalsNeverEnd
PROPERTIES
    CtrlCReportedWithNextKey
    HangupEnds
CHECK_DEADLOCK FALSE
