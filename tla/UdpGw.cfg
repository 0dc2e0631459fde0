SPECIFICATION Spec
CONSTANTS
    Ids = {i1}
    Apps = {a1, a2}
    NoApp = NoApp
    MaxAsks = 2
    MaxRepeats = 1
    Locals = {a1, a2}
    Remotes = {r1, r2}
    Resolver = r2
    max_connections = 2
    send_buffer_size = 1
    MaxQueue = 1
    KEEPALIVE_TIME = 2
    RECONNECT_TIME = 1
    max_connections_for_client = 1
    CLIENT_BUFFER_SIZE = 1
    MaxClientQueue = 1
    CLIENT_DISCONNECT_TIMEOUT = 4
    MaxPackets = 4
    MaxReplies = 1
    MaxInFlight = 1
SYMMETRY Symmetric
INVARIANTS
    
    SocketsAreNotShared
    ClosingIsBusy
    ReconnectsAlways
    KeptAlive
    AnswersWereAskedFor
