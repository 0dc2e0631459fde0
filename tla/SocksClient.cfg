CONSTANTS
    LIMIT = 1
    ROOM = 4
    DATA = 2
    Options <- MCOptions
    Servers <- MCServers
SPECIFICATION FairSpec
INVARIANTS
    WakesUp
    StreamsExact
    ClosedOnce
PROPERTIES
    HandshakeEnds
    EndIsHeard
CHECK_DEADLOCK FALSE
