CONSTANTS
    TCP_WND = 3
    TCP_SND_BUF = 2
    RECV_BUF_SIZE = 3
SPECIFICATION Spec
INVARIANT PbufFreed
CHECK_DEADLOCK FALSE
