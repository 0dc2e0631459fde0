CONSTANTS
    Tunnels = {s1, s2}
    Services = {s1, s2}
    Fds = {f1, f2, f3}
    Runs = {r1, r2, r3}
    NoTunnel = NoTunnel
    NoFd = NoFd
    NoService = NoService
    NoRun = NoRun
    Addresses = {a1, a2}
    MaxStarts = 2
    MaxStops = 0
    MaxDialogs = 1
SPECIFICATION RaceSpec
INVARIANT OneNativeThread
PROPERTY TunnelSteps
SYMMETRY Interchangeable
CHECK_DEADLOCK FALSE
