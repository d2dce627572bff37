SPECIFICATION RedrawSpec
CONSTANTS
    Rate = 3
    BellLength = 2
    MaxTime = 16
    MaxSet = 2
INVARIANTS
    FreshScreen
PROPERTIES
    DrawsApart
CHECK_DEADLOCK FALSE
