---------------------------- MODULE MCTun2Socks ----------------------------
EXTENDS Tun2Socks, TLC

Interchangeable ==
    Permutations(Services) \cup Permutations(Fds) \cup Permutations(Runs)
      \cup Permutations(Addresses)

(* A state that the race for consent leads to.  The consent result          *)
(* on the main thread and a start() on the WebCore thread both found no     *)
(* service and both called startService, and service i handled both start   *)
(* commands: descriptor f and thread r were replaced by g and q.  Thread q  *)
(* started tun2socks and was then told to reconnect by a third start();     *)
(* thread r has not run yet.  The start() calls are numbered anew from the  *)
(* third one, whose callback is the only one that can still be answered.    *)
TwoThreads(i, a, f, g, r, q) ==
    /\ mainQ = <<>> /\ pending = <<>>
    /\ service = i /\ launched = {i}
    /\ created = {i} /\ mTunnel = i
    /\ mTunFd = [j \in Tunnels |-> IF j = i THEN g ELSE NoFd]
    /\ mRoutingThroughTunnel = [j \in Tunnels |-> j = i]
    /\ mTun2SocksThread = [j \in Tunnels |-> IF j = i THEN "running" ELSE "null"]
    /\ nativeFd = [j \in Tunnels |-> IF j = i THEN g ELSE NoFd]
    /\ fdState = [h \in Fds |-> IF h \in {f, g} THEN "open" ELSE "unused"]
    /\ joining = [j \in Tunnels |-> "none"]
    /\ g_terminate = 0
    /\ tunnelManager = i /\ startingTunnelManager = FALSE
    /\ mainPc = "idle"
    /\ m_socksServerAddress = [j \in Services |-> IF j = i THEN a ELSE "null"]
    /\ m_tunnelThread = [j \in Services |-> IF j = i THEN q ELSE NoRun]
    /\ m_isReconnecting = [j \in Services |-> j = i]
    /\ run = [s \in Runs |-> CASE s = r -> "begin" [] s = q -> "waiting" [] OTHER -> "unused"]
    /\ owner = [s \in Runs |-> IF s \in {r, q} THEN i ELSE NoTunnel]
    /\ awaits = [s \in Runs |-> IF s = q THEN q ELSE NoRun]
    /\ counted = [s \in Runs |-> s = q]
    /\ revoked = {}
    /\ address = a /\ starts = 1
    /\ callback = [c \in 1..MaxStarts |-> IF c = 1 THEN "waiting" ELSE "unused"]

AfterRace ==
    /\ \E i \in Services, a \in Addresses, f, g \in Fds, r, q \in Runs :
        f # g /\ r # q /\ TwoThreads(i, a, f, g, r, q)
    /\ pluginPc = [t \in PluginThreads |-> "idle"]
    /\ found = [t \in PluginThreads |-> NoTunnel]
    /\ stops = 0 /\ dialogs = 0 /\ shown = MaxDialogs /\ disconnects = 0

RaceSpec == (Init \/ AfterRace) /\ [][Next]_vars
=============================================================================
