CONSTANTS
    Tunnels = {s1, s2}
    Services = {s1, s2}
    Fds = {f1, f2}
    Runs = {r1, r2}
    NoTunnel = NoTunnel
    NoFd = NoFd
    NoService = NoService
    NoRun = NoRun
    Addresses = {a1, a2}
    MaxStarts = 3
    MaxStops = 1
    MaxDialogs = 0
SPECIFICATION Spec
INVARIANTS
    ThreadHearsSignal
    DestroyedIsQuiet
    
    DeviceOpenWhileUsed
PROPERTY TunnelSpec
SYMMETRY Interchangeable
CHECK_DEADLOCK FALSE
