CONSTANTS
    TCP_WND = 6
    TCP_SND_BUF = 4
    RECV_BUF_SIZE = 5
SPECIFICATION FairSpec
INVARIANTS
    WindowIsBuffer
    NeverStalls
    CallbacksAreLive
    ReturnIsTrue
PROPERTIES
    FreedIsFinal
    
CHECK_DEADLOCK FALSE
