SPECIFICATION Spec
CONSTANTS
    Rows = 2
    Cols = 1
    MaxRows = 3
    Buttons = {1, 4}
    ScrollLines = 1
    Modes = {"off", "press", "normal", "button", "any"}
    Switches = TRUE
    Shifts = {FALSE, TRUE}
    Shrinks = FALSE
INVARIANTS
    OneFate
    FollowsHeldButton
PROPERTIES
    SelectsWhatIsShown
    
CHECK_DEADLOCK FALSE
