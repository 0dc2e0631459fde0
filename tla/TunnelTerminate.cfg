CONSTANTS
    Tunnels = {t1, t2}
    Fds = {f1, f2}
    NoTunnel = NoTunnel
    NoFd = NoFd
SPECIFICATION TunnelFairSpec
PROPERTY TerminateIsHeard
CHECK_DEADLOCK FALSE
