CONSTANTS
    Tunnels = {s1}
    Services = {s1}
    Fds = {f1}
    Runs = {r1}
    NoTunnel = NoTunnel
    NoFd = NoFd
    NoService = NoService
    NoRun = NoRun
    Addresses = {a1, a2}
    MaxStarts = 2
    MaxStops = 1
    MaxDialogs = 0
SPECIFICATION FairSpec
PROPERTIES
    MainThreadReturns
    
    FirstStartAnswered
    RevokeReported
CHECK_DEADLOCK FALSE
