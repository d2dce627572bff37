SPECIFICATION MCFairSpec
CONSTANTS
    t1 = t1
    t2 = t2
    Terms = {t1, t2}
    MaxEvents = 3
    FewEvents = 2
    RoundTripBells = TRUE
    FlushReads = FALSE
INVARIANTS
    EventsKept
    SizeFollowsServer
PROPERTIES
    KeysAreReceivedUnlessBuried
    ExitCloses
    NextEventWakesAll
CHECK_DEADLOCK FALSE
