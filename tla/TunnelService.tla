--------------------------- MODULE TunnelService ---------------------------
(***************************************************************************)
(* TunnelVpnService.java and TunnelManager.java: the service callbacks,    *)
(* which run one at a time on the main thread, and the runTunnel threads   *)
(* they start.  Service i owns TunnelManager i, which owns Tunnel i.       *)
(***************************************************************************)
EXTENDS AndroidMain, Tunnel

CONSTANTS
    Runs,   \* runTunnel threads, and the CountDownLatch made with each
    NoRun   \* m_tunnelThread and m_tunnelThreadStopSignal are null

ASSUME OneTunnelPerService == Services = Tunnels
ASSUME NoRunIsNone == NoRun \notin Runs

VARIABLES
    tunnelManager,          \* TunnelState.m_tunnelManager
    startingTunnelManager,  \* TunnelState.m_startingTunnelManager
    mainPc,                 \* what the main thread is in the middle of
    m_socksServerAddress,   \* per manager
    m_tunnelThread,         \* per manager: latest thread and its latch
    m_isReconnecting,       \* per manager
    run,                    \* per runTunnel thread: where it is
    owner,                  \* per runTunnel thread: its manager
    awaits,                 \* per runTunnel thread: the latch it waits for
    counted,                \* per latch: counted down
    revoked                 \* services that had onRevoke

stateVars   == <<tunnelManager, startingTunnelManager>>
managerVars == <<m_socksServerAddress, m_tunnelThread, m_isReconnecting>>
runVars     == <<run, owner, awaits, counted>>
serviceVars == <<androidVars, tunnelVars, stateVars, mainPc, managerVars, runVars, revoked>>

RunSteps == {"unused", "begin", "started", "refused", "await", "waiting", "finally",
             "stopTunneling", "stop", "joinTunneling", "joinStop", "stopSelf",
             "clear", "done"}
MainSteps == {"idle", "plugin", "newTunnel", "startRouting", "join"}

ServiceTypeOK ==
    /\ AndroidTypeOK
    /\ TunnelTypeOK
    /\ tunnelManager \in Services \cup {NoTunnel}
    /\ startingTunnelManager \in BOOLEAN
    /\ mainPc \in MainSteps
    /\ m_socksServerAddress \in [Services -> Addresses \cup {"null"}]
    /\ m_tunnelThread \in [Services -> Runs \cup {NoRun}]
    /\ m_isReconnecting \in [Services -> BOOLEAN]
    /\ run \in [Runs -> RunSteps]
    /\ owner \in [Runs -> Services \cup {NoTunnel}]
    /\ awaits \in [Runs -> Runs \cup {NoRun}]
    /\ counted \in [Runs -> BOOLEAN]
    /\ revoked \subseteq Services

ServiceInit ==
    /\ AndroidInit
    /\ TunnelInit
    /\ tunnelManager = NoTunnel
    /\ startingTunnelManager = FALSE
    /\ mainPc = "idle"
    /\ m_socksServerAddress = [i \in Services |-> "null"]
    /\ m_tunnelThread = [i \in Services |-> NoRun]
    /\ m_isReconnecting = [i \in Services |-> FALSE]
    /\ run = [r \in Runs |-> "unused"]
    /\ owner = [r \in Runs |-> NoTunnel]
    /\ awaits = [r \in Runs |-> NoRun]
    /\ counted = [r \in Runs |-> FALSE]
    /\ revoked = {}

(* The main thread is about to handle message m.                            *)
atHead(m) == mainPc = "idle" /\ mainQ # <<>> /\ Head(mainQ) = m

(* signalStopService(): counts down the latch of the latest thread, if any. *)
signalStopService(i) ==
    counted' = [r \in Runs |-> counted[r] \/ r = m_tunnelThread[i]]
-----------------------------------------------------------------------------
(* Service creation: the field initialiser constructs a TunnelManager, which*)
(* calls Tunnel.newTunnel and may wait there for the previous Tunnel's      *)
(* thread; then onCreate registers the manager and clears the starting flag.*)
setTunnelManager(m) == tunnelManager' = m /\ startingTunnelManager' = FALSE

onCreate(i) ==
    /\ setTunnelManager(i)
    /\ mainQ' = Tail(mainQ)
    /\ UNCHANGED <<pending, service, launched, managerVars, runVars, revoked>>

(* Mutant: the previous Tunnel is left as it is.                            *)
createServiceForgets(i) ==
    /\ atHead(create(i))
    /\ construct(i)
    /\ onCreate(i)
    /\ UNCHANGED <<mTunFd, mRoutingThroughTunnel, mTun2SocksThread, nativeFd,
                   fdState, joining, g_terminate, mainPc>>

createService(i) ==
    /\ atHead(create(i))
    /\ newTunnelFirst(i) \/ newTunnelIdle(i)
    /\ onCreate(i)
    /\ UNCHANGED mainPc

createServiceStops(i) ==
    /\ atHead(create(i))
    /\ newTunnelStops
    /\ mainPc' = "newTunnel"
    /\ UNCHANGED <<androidVars, stateVars, managerVars, runVars, revoked>>

createServiceReturns(i) ==
    /\ mainPc = "newTunnel"
    /\ Head(mainQ) = create(i)
    /\ newTunnelReturns(i)
    /\ onCreate(i)
    /\ mainPc' = "idle"

(* onStartCommand: the address is stored, then startRouting.  When that     *)
(* succeeds, onVpnEstablished calls startTunnel, which replaces latch and   *)
(* thread; a failure is only broadcast.                                     *)
onStartCommand(i, a) ==
    /\ atHead(startCmd(i, a))
    /\ m_socksServerAddress' = [m_socksServerAddress EXCEPT ![i] = a]
    /\ mainPc' = "startRouting"
    /\ UNCHANGED <<androidVars, tunnelVars, stateVars, m_tunnelThread,
                   m_isReconnecting, runVars, revoked>>

startTunnel(i) ==
    \E r \in Runs :
        /\ run[r] = "unused"
        /\ run' = [run EXCEPT ![r] = "begin"]
        /\ owner' = [owner EXCEPT ![r] = i]
        /\ m_tunnelThread' = [m_tunnelThread EXCEPT ![i] = r]

onStartCommandEstablished(i, a) ==
    /\ mainPc = "startRouting"
    /\ Head(mainQ) = startCmd(i, a)
    /\ startRouting(i)
    /\ startTunnel(i)
    /\ mainQ' = Tail(mainQ)
    /\ mainPc' = "idle"
    /\ UNCHANGED <<pending, service, launched, stateVars, m_socksServerAddress,
                   m_isReconnecting, awaits, counted, revoked>>

(* Mutant: a failure is not broadcast.                                      *)
onStartCommandFailedSilently(i, a) ==
    /\ mainPc = "startRouting"
    /\ Head(mainQ) = startCmd(i, a)
    /\ startRoutingFails(i)
    /\ mainQ' = Tail(mainQ)
    /\ mainPc' = "idle"
    /\ UNCHANGED <<pending, service, launched, stateVars, managerVars, runVars, revoked>>

onStartCommandFailed(i, a) ==
    /\ mainPc = "startRouting"
    /\ Head(mainQ) = startCmd(i, a)
    /\ startRoutingFails(i)
    /\ pending' = Append(pending, "failed")
    /\ mainQ' = withExec(Tail(mainQ))
    /\ mainPc' = "idle"
    /\ UNCHANGED <<service, launched, stateVars, managerVars, runVars, revoked>>

(* Mutants: no join, no unregistering, no signal.                           *)
onDestroyUnjoined(i) ==
    /\ atHead(destroy(i))
    /\ setTunnelManager(NoTunnel)
    /\ signalStopService(i)
    /\ mainQ' = Tail(mainQ)
    /\ UNCHANGED <<pending, service, launched, tunnelVars, managerVars, mainPc,
                   run, owner, awaits, revoked>>

onDestroyRegistered(i) ==
    /\ atHead(destroy(i))
    /\ signalStopService(i)
    /\ IF m_tunnelThread[i] = NoRun
       THEN mainQ' = Tail(mainQ) /\ UNCHANGED mainPc
       ELSE mainPc' = "join" /\ UNCHANGED mainQ
    /\ UNCHANGED <<pending, service, launched, tunnelVars, stateVars, managerVars,
                   run, owner, awaits, revoked>>

onDestroyUnsignalled(i) ==
    /\ atHead(destroy(i))
    /\ setTunnelManager(NoTunnel)
    /\ IF m_tunnelThread[i] = NoRun
       THEN mainQ' = Tail(mainQ) /\ UNCHANGED mainPc
       ELSE mainPc' = "join" /\ UNCHANGED mainQ
    /\ UNCHANGED <<pending, service, launched, tunnelVars, managerVars,
                   runVars, revoked>>

(* onDestroy: the manager is unregistered; if there is a tunnel thread it   *)
(* is signalled and joined.                                                 *)
onDestroy(i) ==
    /\ atHead(destroy(i))
    /\ setTunnelManager(NoTunnel)
    /\ signalStopService(i)
    /\ IF m_tunnelThread[i] = NoRun
       THEN mainQ' = Tail(mainQ) /\ UNCHANGED mainPc
       ELSE mainPc' = "join" /\ UNCHANGED mainQ
    /\ UNCHANGED <<pending, service, launched, tunnelVars, managerVars,
                   run, owner, awaits, revoked>>

onDestroyJoined(i) ==
    /\ mainPc = "join"
    /\ Head(mainQ) = destroy(i)
    /\ run[m_tunnelThread[i]] = "done"
    /\ m_tunnelThread' = [m_tunnelThread EXCEPT ![i] = NoRun]
    /\ mainQ' = Tail(mainQ)
    /\ mainPc' = "idle"
    /\ UNCHANGED <<pending, service, launched, tunnelVars, stateVars,
                   m_socksServerAddress, m_isReconnecting, runVars, revoked>>

(* Mutant: the revocation is not broadcast.                                 *)
onRevokeSilently(i) ==
    /\ service = i
    /\ mTunFd[i] # NoFd
    /\ i \notin revoked
    /\ revoked' = revoked \cup {i}
    /\ stopSelf(i, mainQ)
    /\ UNCHANGED <<pending, tunnelVars, stateVars, mainPc, managerVars, runVars>>

(* onRevoke, on a binder thread: another VPN took over.                     *)
onRevoke(i) ==
    /\ service = i
    /\ mTunFd[i] # NoFd
    /\ i \notin revoked
    /\ revoked' = revoked \cup {i}
    /\ pending' = Append(pending, "disconnect")
    /\ stopSelf(i, withExec(mainQ))
    /\ UNCHANGED <<tunnelVars, stateVars, mainPc, managerVars, runVars>>
-----------------------------------------------------------------------------
(* The runTunnel thread r of manager owner[r].                              *)
goto(r, step) == run' = [run EXCEPT ![r] = step]

(* startTunneling.                                                          *)
runTunnel(r) ==
    /\ run[r] = "begin"
    /\ startTunneling(owner[r])
    /\ goto(r, IF tunnelingStarts(owner[r]) THEN "started" ELSE "refused")
    /\ UNCHANGED <<androidVars, stateVars, mainPc, managerVars, owner, awaits,
                   counted, revoked>>

(* The outcome is broadcast.                                                *)
runTunnelBroadcast(r) ==
    /\ run[r] \in {"started", "refused"}
    /\ sendBroadcast(IF run[r] = "started" THEN "started" ELSE "failed")
    /\ goto(r, IF run[r] = "started" THEN "await" ELSE "finally")
    /\ UNCHANGED <<tunnelVars, stateVars, mainPc, managerVars, owner, awaits,
                   counted, revoked>>

(* m_tunnelThreadStopSignal is read when await() is called, not when the    *)
(* thread was made.  A null field throws and runs the finally block.        *)
runTunnelAwait(r) ==
    /\ run[r] = "await"
    /\ awaits' = [awaits EXCEPT ![r] = m_tunnelThread[owner[r]]]
    /\ goto(r, IF m_tunnelThread[owner[r]] = NoRun THEN "finally" ELSE "waiting")
    /\ UNCHANGED <<androidVars, tunnelVars, stateVars, mainPc, managerVars,
                   owner, counted, revoked>>

(* Mutant: a reconnect does not end the wait.                               *)
runTunnelWakeUnlessReconnecting(r) ==
    /\ run[r] = "waiting"
    /\ counted[awaits[r]]
    /\ ~m_isReconnecting[owner[r]]
    /\ goto(r, "finally")
    /\ UNCHANGED <<androidVars, tunnelVars, stateVars, mainPc, managerVars,
                   owner, awaits, counted, revoked>>

runTunnelWake(r) ==
    /\ run[r] = "waiting"
    /\ counted[awaits[r]]
    /\ goto(r, "finally")
    /\ UNCHANGED <<androidVars, tunnelVars, stateVars, mainPc, managerVars,
                   owner, awaits, counted, revoked>>

(* finally: the reconnect flag decides between stopTunneling and stop.      *)
runTunnelFinally(r) ==
    /\ run[r] = "finally"
    /\ goto(r, IF m_isReconnecting[owner[r]] THEN "stopTunneling" ELSE "stop")
    /\ UNCHANGED <<androidVars, tunnelVars, stateVars, mainPc, managerVars,
                   owner, awaits, counted, revoked>>

(* Mutant: the descriptor is closed without waiting for tun2socks.          *)
runTunnelStopsUnjoined(r) ==
    /\ run[r] = "stop"
    /\ MonitorFree(owner[r])
    /\ closeTunFd(owner[r])
    /\ goto(r, "stopSelf")
    /\ UNCHANGED <<created, mTunnel, mRoutingThroughTunnel, mTun2SocksThread,
                   nativeFd, joining, g_terminate>>
    /\ UNCHANGED <<androidVars, stateVars, mainPc, managerVars, owner, awaits,
                   counted, revoked>>

runTunnelStops(r) ==
    /\ LET i == owner[r] IN
        \/ run[r] = "stopTunneling" /\ stopTunnelingIdle(i) /\ goto(r, "clear")
        \/ run[r] = "stopTunneling" /\ stopTun2Socks(i, "stopTunneling") /\ goto(r, "joinTunneling")
        \/ run[r] = "joinTunneling" /\ stopTunnelingReturns(i) /\ goto(r, "clear")
        \/ run[r] = "stop" /\ stopIdle(i) /\ goto(r, "stopSelf")
        \/ run[r] = "stop" /\ stopTun2Socks(i, "stop") /\ goto(r, "joinStop")
        \/ run[r] = "joinStop" /\ stopReturns(i) /\ goto(r, "stopSelf")
    /\ UNCHANGED <<androidVars, stateVars, mainPc, managerVars, owner, awaits,
                   counted, revoked>>

runTunnelStopSelf(r) ==
    /\ run[r] = "stopSelf"
    /\ stopSelf(owner[r], mainQ)
    /\ goto(r, "clear")
    /\ UNCHANGED <<pending, tunnelVars, stateVars, mainPc, managerVars, owner,
                   awaits, counted, revoked>>

runTunnelClears(r) ==
    /\ run[r] = "clear"
    /\ m_isReconnecting' = [m_isReconnecting EXCEPT ![owner[r]] = FALSE]
    /\ goto(r, "done")
    /\ awaits' = [awaits EXCEPT ![r] = NoRun]
    /\ UNCHANGED <<androidVars, tunnelVars, stateVars, mainPc,
                   m_socksServerAddress, m_tunnelThread, owner, counted, revoked>>
=============================================================================
