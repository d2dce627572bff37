SPECIFICATION FairSpec
CONSTANTS
    t1 = t1
    t2 = t2
    Terms = {t1, t2}
    Daemon = TRUE
    Throttled = FALSE
    AudibleBell = TRUE
    ChildRequests <- NoRequests
    MaxClicks = 0
INVARIANTS
    LivesWhileRegistered
    NoOrphan

    
CHECK_DEADLOCK FALSE
