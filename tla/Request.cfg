SPECIFICATION Spec
CONSTANTS
    MaxPacket = 60
    LineLength = 5
    Requests <- MCRequests
    Letters <- MCLetters
    FileSystems <- MCFileSystems
    Chunks = {3, 60}
    Limit = 6
    MaxMade = 3
INVARIANTS
    RequestsArrive
PROPERTIES
    TerminalsAreWhole
    ReadEnds
CHECK_DEADLOCK FALSE
