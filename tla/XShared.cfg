SPECIFICATION MCFairSpec
CONSTANTS
    t1 = t1
    t2 = t2
    Terms = {t1, t2}
    MaxEvents = 2
    FewEvents = 2
    RoundTripBells = FALSE
    FlushReads = FALSE
PROPERTIES
    KeysAreReceived
CHECK_DEADLOCK FALSE
