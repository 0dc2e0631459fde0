SPECIFICATION Spec
CONSTANTS
    Conns = {c1}
    LIMIT = 1
    BSYSTEM_MAX_RESULTS = 3
    Ids = {i1}
    Apps = {a1}
    NoApp = NoApp
    NoFd = NoFd
    MaxAsks = 1
    MaxRepeats = 0
INVARIANT ReactorFreedUnused
