SPECIFICATION FairFlowSpec
CONSTANTS
    BufferLength = 3
    LongestSequence = 3
    MaxBytes = 4
    InCap = 1
    OutCap = 2
    MaxHandlers = 3
    PasteLength = 2
    Children = {"patient", "selecting"}
INVARIANTS
    ScreenThenCarry
    
    InputInOrder
PROPERTIES
    WriteEnds
    OutputIsShown
CHECK_DEADLOCK FALSE
