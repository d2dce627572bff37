SPECIFICATION FairSpec
CONSTANTS
    d1 = d1
    d2 = d2
    c1 = c1
    c2 = c2
    Daemons = {d1, d2}
    Clients = {c1, c2}
    NoSocket = NoSocket
    NoClient = NoClient
    Backlog = 1
    Crashes = TRUE
INVARIANTS
    PrivateWhenReachable
    SomeoneListens
    ServedIsWhole

    
CHECK_DEADLOCK FALSE
