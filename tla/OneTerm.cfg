SPECIFICATION Spec
CONSTANTS
    t1 = t1
    t2 = t2
    Terms = {t1}
    Daemon = FALSE
    Throttled = TRUE
    AudibleBell = FALSE
    ChildRequests <- AllRequests
    MaxClicks = 2
INVARIANTS
    RefcntExact
    NoUseAfterFree
    TimersMatchFlags
    
    DoneMeansFreed
PROPERTIES
    ImplementsHolders
CHECK_DEADLOCK FALSE
