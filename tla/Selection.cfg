SPECIFICATION MCFairSpec
CONSTANTS
    t1 = t1
    t2 = t2
    Terms = {t1, t2}
    Other = Other
    None = None
    OthersSelect = TRUE
    Cells = 2
    Pointers = {0, 3}
    Rewritten = {1, 2}
    MaxTime = 4
INVARIANTS
    
    ShownIsContents
PROPERTIES
    OutputSparesSelection
    
CHECK_DEADLOCK FALSE
