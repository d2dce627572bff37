SPECIFICATION WordSpec
CONSTANTS
    Cols = 2
    ScreenRows = 2
    RowTop = 1
    Kinds = {"letter", "wide", "tail", "combined", "space", "mark"}
    LastWraps = FALSE
PROPERTIES
    DoubleClick
CHECK_DEADLOCK FALSE
