----------------------------- MODULE Tun2Socks -----------------------------
(***************************************************************************)
(* Tun2Socks.java, the Cordova plugin, on top of the service: calls from   *)
(* JavaScript run execute() on the WebCore thread, consent results and     *)
(* broadcasts arrive on the main thread, and both threads run              *)
(* startTunnelService / stopTunnelService against the shared TunnelState.  *)
(***************************************************************************)
EXTENDS TunnelService

CONSTANTS
    MaxStarts,  \* bound: calls of start()
    MaxStops,   \* bound: calls of stop() and plugin destructions
    MaxDialogs  \* bound: consent dialogs shown

ASSUME PluginBounds == MaxStarts \in Nat /\ MaxStops \in Nat /\ MaxDialogs \in Nat

VARIABLES
    pluginPc,       \* per thread: where it is in start/stopTunnelService
    found,          \* per thread: the TunnelManager it read from TunnelState
    address,        \* Tun2Socks.m_socksServerAddress
    starts,         \* start() calls so far; the current callback is the last
    callback,       \* per start() call: its CallbackContext
    stops,          \* stop() calls and plugin destructions so far
    dialogs,        \* consent dialogs on screen
    shown,          \* consent dialogs ever shown
    disconnects     \* onDisconnect results delivered to JavaScript

pluginVars == <<pluginPc, found, address, starts, callback, stops, dialogs, shown, disconnects>>
vars == <<serviceVars, pluginVars>>

PluginThreads == {"js", "main"}
PluginSteps == {"idle", "getStarting", "getManager", "getRunning", "compare",
                "setReconnecting", "signal", "startService", "setStarting", "getStop"}

TypeOK ==
    /\ ServiceTypeOK
    /\ pluginPc \in [PluginThreads -> PluginSteps]
    /\ found \in [PluginThreads -> Services \cup {NoTunnel}]
    /\ address \in Addresses \cup {"null"}
    /\ starts \in 0..MaxStarts
    /\ callback \in [1..MaxStarts -> {"unused", "waiting", "success", "error"}]
    /\ stops \in 0..MaxStops
    /\ dialogs \in 0..MaxDialogs
    /\ shown \in 0..MaxDialogs
    /\ disconnects \in Nat

Init ==
    /\ ServiceInit
    /\ pluginPc = [t \in PluginThreads |-> "idle"]
    /\ found = [t \in PluginThreads |-> NoTunnel]
    /\ address = "null"
    /\ starts = 0
    /\ callback = [c \in 1..MaxStarts |-> "unused"]
    /\ stops = 0
    /\ dialogs = 0
    /\ shown = 0
    /\ disconnects = 0

at(t, step) == pluginPc[t] = step
step(t, s) == pluginPc' = [pluginPc EXCEPT ![t] = s]

(* The thread leaves the plugin's code: its local variable is gone, and the *)
(* main thread is free for messages.                                        *)
leavePlugin(t) ==
    /\ step(t, "idle")
    /\ found' = [found EXCEPT ![t] = NoTunnel]
    /\ mainPc' = IF t = "main" THEN "idle" ELSE mainPc

(* CallbackContext: a result is delivered once; later ones are ignored.     *)
answer(c, res) == callback' = [callback EXCEPT ![c] = IF @ = "waiting" THEN res ELSE @]
-----------------------------------------------------------------------------
(* execute("start", a): VpnService.prepare either asks for consent in an    *)
(* activity, or the service is started from here.                           *)
executeStart(a) ==
    /\ at("js", "idle")
    /\ starts < MaxStarts
    /\ address' = a
    /\ starts' = starts + 1
    /\ callback' = [callback EXCEPT ![starts + 1] = "waiting"]
    /\ \/ step("js", "getStarting") /\ UNCHANGED <<dialogs, shown>>
       \/ /\ shown < MaxDialogs
          /\ dialogs' = dialogs + 1
          /\ shown' = shown + 1
          /\ UNCHANGED pluginPc
    /\ UNCHANGED <<serviceVars, found, stops, disconnects>>

(* The user answers a consent dialog.                                       *)
userAnswers(ok) ==
    /\ dialogs > 0
    /\ dialogs' = dialogs - 1
    /\ mainQ' = Append(mainQ, result(ok))
    /\ UNCHANGED <<pending, service, launched, tunnelVars, stateVars, mainPc,
                   managerVars, runVars, revoked, pluginPc, found, address,
                   starts, callback, stops, shown, disconnects>>

onActivityResult(ok) ==
    /\ atHead(result(ok))
    /\ mainQ' = Tail(mainQ)
    /\ IF ok
       THEN /\ step("main", "getStarting")
            /\ mainPc' = "plugin"
            /\ UNCHANGED callback
       ELSE /\ answer(starts, "error")
            /\ UNCHANGED <<pluginPc, mainPc>>
    /\ UNCHANGED <<pending, service, launched, tunnelVars, stateVars, managerVars,
                   runVars, revoked, found, address, starts, stops, dialogs, shown, disconnects>>

(* Mutant: the starting flag is not looked at.                              *)
isServiceRunningOnly(t) ==
    /\ \/ at(t, "getStarting") /\ step(t, "getManager")
       \/ at(t, "getManager") /\ step(t, IF tunnelManager # NoTunnel THEN "getRunning" ELSE "startService")
    /\ UNCHANGED <<serviceVars, found, address, starts, callback, stops, dialogs, shown, disconnects>>

(* startTunnelService.  isServiceRunning makes two synchronized reads of    *)
(* TunnelState; if it says yes the manager is read again.                   *)
isServiceRunning(t) ==
    /\ \/ at(t, "getStarting") /\ step(t, IF startingTunnelManager THEN "getRunning" ELSE "getManager")
       \/ at(t, "getManager") /\ step(t, IF tunnelManager # NoTunnel THEN "getRunning" ELSE "startService")
    /\ UNCHANGED <<serviceVars, found, address, starts, callback, stops, dialogs, shown, disconnects>>

useManager(t, s) ==
    /\ found' = [found EXCEPT ![t] = tunnelManager]
    /\ step(t, s)
    /\ UNCHANGED mainPc

getTunnelManager(t) ==
    /\ at(t, "getRunning")
    /\ IF tunnelManager = NoTunnel THEN leavePlugin(t) ELSE useManager(t, "compare")
    /\ UNCHANGED <<androidVars, tunnelVars, stateVars, managerVars, runVars, revoked,
                   address, starts, callback, stops, dialogs, shown, disconnects>>

(* restartTunnel(address): an unchanged address is reported as started.     *)
restartTunnelSame(t) ==
    /\ at(t, "compare")
    /\ address = m_socksServerAddress[found[t]]
    /\ sendBroadcast("started")
    /\ leavePlugin(t)
    /\ UNCHANGED <<tunnelVars, stateVars, managerVars, runVars, revoked, address, starts, callback, stops, dialogs, shown, disconnects>>

restartTunnel(t) ==
    /\ at(t, "compare")
    /\ address # m_socksServerAddress[found[t]]
    /\ m_socksServerAddress' = [m_socksServerAddress EXCEPT ![found[t]] = address]
    /\ step(t, "setReconnecting")
    /\ UNCHANGED <<androidVars, tunnelVars, stateVars, mainPc, m_tunnelThread,
                   m_isReconnecting, runVars, revoked, found, address, starts,
                   callback, stops, dialogs, shown, disconnects>>

restartTunnelReconnects(t) ==
    /\ at(t, "setReconnecting")
    /\ m_isReconnecting' = [m_isReconnecting EXCEPT ![found[t]] = TRUE]
    /\ step(t, "signal")
    /\ UNCHANGED <<androidVars, tunnelVars, stateVars, mainPc, m_tunnelThread,
                   m_socksServerAddress, runVars, revoked, found, address, starts,
                   callback, stops, dialogs, shown, disconnects>>

(* signalStopService on the manager found, the last step of restartTunnel   *)
(* and of stopTunnelService.                                                *)
signalManager(t) ==
    /\ at(t, "signal")
    /\ signalStopService(found[t])
    /\ leavePlugin(t)
    /\ UNCHANGED <<androidVars, tunnelVars, stateVars, managerVars, run, owner,
                   awaits, revoked, address, starts, callback, stops,
                   dialogs, shown, disconnects>>

(* startService, then setStartingTunnelManager; a null component name is    *)
(* only logged.                                                             *)
startTunnelService(t) ==
    /\ at(t, "startService")
    /\ startService(address)
    /\ step(t, "setStarting")
    /\ UNCHANGED <<tunnelVars, stateVars, mainPc, managerVars, runVars, revoked,
                   found, address, starts, callback, stops, dialogs, shown, disconnects>>

startTunnelServiceNull(t) ==
    /\ at(t, "startService")
    /\ leavePlugin(t)
    /\ UNCHANGED <<androidVars, tunnelVars, stateVars, managerVars, runVars, revoked,
                   address, starts, callback, stops, dialogs, shown, disconnects>>

setStartingTunnelManager(t) ==
    /\ at(t, "setStarting")
    /\ startingTunnelManager' = TRUE
    /\ leavePlugin(t)
    /\ UNCHANGED <<androidVars, tunnelVars, tunnelManager, managerVars, runVars, revoked,
                   address, starts, callback, stops, dialogs, shown, disconnects>>

(* execute("stop") on the WebCore thread; onDestroy of the plugin on the    *)
(* main thread.  Both call stopTunnelService.                               *)
executeStop ==
    /\ at("js", "idle")
    /\ stops < MaxStops
    /\ stops' = stops + 1
    /\ step("js", "getStop")
    /\ UNCHANGED <<serviceVars, found, address, starts, callback, dialogs, shown, disconnects>>

pluginDestroyed ==
    /\ mainPc = "idle"
    /\ stops < MaxStops
    /\ stops' = stops + 1
    /\ step("main", "getStop")
    /\ mainPc' = "plugin"
    /\ UNCHANGED <<androidVars, tunnelVars, stateVars, managerVars, runVars, revoked,
                   found, address, starts, callback, dialogs, shown, disconnects>>

stopTunnelService(t) ==
    /\ at(t, "getStop")
    /\ IF tunnelManager = NoTunnel THEN leavePlugin(t) ELSE useManager(t, "signal")
    /\ UNCHANGED <<androidVars, tunnelVars, stateVars, managerVars, runVars, revoked,
                   address, starts, callback, stops, dialogs, shown, disconnects>>

(* The broadcast receiver: LocalBroadcastManager hands over every pending   *)
(* broadcast, also those that arrive meanwhile.                             *)
onReceive ==
    /\ atHead(execPending)
    /\ IF pending = <<>>
       THEN /\ mainQ' = Tail(mainQ)
            /\ UNCHANGED <<pending, callback, disconnects>>
       ELSE /\ pending' = Tail(pending)
            /\ UNCHANGED mainQ
            /\ IF Head(pending) = "disconnect"
               THEN disconnects' = disconnects + 1 /\ UNCHANGED callback
               ELSE /\ answer(starts, IF Head(pending) = "started" THEN "success" ELSE "error")
                    /\ UNCHANGED disconnects
    /\ UNCHANGED <<service, launched, tunnelVars, stateVars, mainPc, managerVars,
                   runVars, revoked, pluginPc, found, address, starts, stops, dialogs, shown>>
-----------------------------------------------------------------------------
Plugin(t) ==
    \/ isServiceRunning(t)
    \/ getTunnelManager(t)
    \/ restartTunnelSame(t)
    \/ restartTunnel(t)
    \/ restartTunnelReconnects(t)
    \/ signalManager(t)
    \/ startTunnelService(t)
    \/ startTunnelServiceNull(t)
    \/ setStartingTunnelManager(t)
    \/ stopTunnelService(t)

User ==
    \/ \E a \in Addresses : executeStart(a)
    \/ executeStop
    \/ pluginDestroyed
    \/ \E ok \in BOOLEAN : userAnswers(ok)

ServiceCallback(i) ==
    \/ createService(i) /\ UNCHANGED pluginVars
    \/ createServiceStops(i) /\ UNCHANGED pluginVars
    \/ createServiceReturns(i) /\ UNCHANGED pluginVars
    \/ onDestroy(i) /\ UNCHANGED pluginVars
    \/ onDestroyJoined(i) /\ UNCHANGED pluginVars
    \/ \E a \in Addresses :
        \/ onStartCommand(i, a) /\ UNCHANGED pluginVars
        \/ onStartCommandEstablished(i, a) /\ UNCHANGED pluginVars
        \/ onStartCommandFailed(i, a) /\ UNCHANGED pluginVars

MainLooper ==
    \/ \E i \in Services : ServiceCallback(i)
    \/ \E ok \in BOOLEAN : onActivityResult(ok)
    \/ onReceive

RunThread(r) ==
    \/ runTunnel(r) /\ UNCHANGED pluginVars
    \/ runTunnelBroadcast(r) /\ UNCHANGED pluginVars
    \/ runTunnelAwait(r) /\ UNCHANGED pluginVars
    \/ runTunnelWake(r) /\ UNCHANGED pluginVars
    \/ runTunnelFinally(r) /\ UNCHANGED pluginVars
    \/ runTunnelStops(r) /\ UNCHANGED pluginVars
    \/ runTunnelStopSelf(r) /\ UNCHANGED pluginVars
    \/ runTunnelClears(r) /\ UNCHANGED pluginVars

(* The tun2socks thread touches only what Tunnel describes.                 *)
aside == <<androidVars, stateVars, mainPc, managerVars, runVars, revoked, pluginVars>>

NativeThread(i) ==
    \/ runTun2Socks(i) /\ UNCHANGED aside
    \/ pollTerminate(i) /\ UNCHANGED aside
    \/ runReturns(i) /\ UNCHANGED aside

DeviceFails(i) == runFails(i) /\ UNCHANGED aside

Next ==
    \/ User
    \/ MainLooper
    \/ \E t \in PluginThreads : Plugin(t)
    \/ \E r \in Runs : RunThread(r)
    \/ \E i \in Services : NativeThread(i)
    \/ \E i \in Services : DeviceFails(i)
    \/ \E i \in Services : onRevoke(i) /\ UNCHANGED pluginVars

Spec == Init /\ [][Next]_vars

(* Every thread that can go on eventually does: the scheduler is fair to    *)
(* the main looper, to the WebCore thread inside execute(), and to every    *)
(* runTunnel and tun2socks thread (whose timer polls g_terminate forever).  *)
(* Nothing is assumed of the user, of revocation or of device errors.       *)
FairSpec ==
    /\ Spec
    /\ WF_vars(MainLooper)
    /\ \A t \in PluginThreads : WF_vars(Plugin(t))
    /\ \A r \in Runs : WF_vars(RunThread(r))
    /\ \A i \in Services : WF_vars(NativeThread(i))
-----------------------------------------------------------------------------
(* Service i has been destroyed and nothing of it is left in the queue.     *)
Gone(i) ==
    /\ i \in launched
    /\ service # i
    /\ mainQ = <<>> /\ mainPc = "idle"

(* The lost termination: a stopping call set g_terminate before the native  *)
(* thread cleared it, and now waits for a thread that was never told.       *)
TerminationLost ==
    /\ g_terminate = 0
    /\ \E i \in Services : joining[i] # "none" /\ mTun2SocksThread[i] = "running"

(* When the VPN consent is already given, only the WebCore thread starts    *)
(* the service, and then a manager never has two runTunnel threads: the     *)
(* latch that signalStopService counts down is the one its thread waits for *)
(* (TunnelManager.java:99-103, 124-148).                                    *)
ThreadHearsSignal ==
    \A r \in Runs :
        run[r] \in {"begin", "started", "await", "waiting"} =>
            /\ m_tunnelThread[owner[r]] = r
            /\ run[r] = "waiting" => awaits[r] = r

(* With the consent given, a destroyed service leaves no thread behind: its *)
(* runTunnel thread has ended and its Tunnel has no tun2socks thread, even  *)
(* if the thread ended by the reconnect path (TunnelManager.java:77-93).    *)
DestroyedIsQuiet ==
    \A i \in Services :
        Gone(i) =>
            /\ \A r \in Runs : owner[r] = i => run[r] = "done"
            /\ mTun2SocksThread[i] = "null"

(* TunnelState never points at the manager of a service that has been       *)
(* destroyed, so no start() or stop() is sent to a dead manager             *)
(* (TunnelVpnService.java:68-78).                                           *)
NoDeadManager == \A i \in Services : Gone(i) => tunnelManager # i

(* Even when the consent race has put two runTunnel threads on one manager, *)
(* every step of the plugin and its services is a legal use of the Tunnel   *)
(* class: a call it allows, in a state in which it may be made              *)
(* (TunnelManager.java:137-172, Tunnel.java:101-121).                       *)
TunnelSteps == [][TunnelNext]_tunnelVars

(* onDestroy returns: no callback of the main thread waits forever, except  *)
(* for a termination signal that was lost (TunnelManager.java:77-93,        *)
(* Tunnel.java:275-287).                                                    *)
MainThreadReturns ==
    (mainPc # "idle") ~> (mainPc = "idle" \/ TerminationLost)

(* A runTunnel thread that was told to stop ends, and unless it was         *)
(* reconnecting takes the service down with it (TunnelManager.java:95-98,   *)
(* 148-171), with the same exception.                                       *)
SignalEndsThread ==
    \A r \in Runs :
        (run[r] = "waiting" /\ counted[awaits[r]])
            ~> (run[r] = "done" \/ TerminationLost)

(* A first start() is answered.  The exceptions are a startService call     *)
(* that returns null, which is only logged (Tun2Socks.java:151-154), an     *)
(* unanswered consent dialog, and a main thread held up by a lost           *)
(* termination.                                                             *)
NothingLaunched ==
    launched = {} /\ mainQ = <<>> /\ \A t \in PluginThreads : at(t, "idle")

FirstStartAnswered ==
    (starts = 1 /\ callback[1] = "waiting")
        ~> (starts # 1 \/ callback[1] # "waiting" \/ NothingLaunched \/ TerminationLost)

(* A revocation of a running VPN reaches JavaScript.                        *)
RevokeReported ==
    (revoked # {}) ~> (disconnects > 0 \/ TerminationLost)
-----------------------------------------------------------------------------
(* What comments and documentation say that the code does not do.           *)

(* README.md:22, "Restarts tunneling while preserving the VPN connection if *)
(* called when the plugin is already running", and the comment in           *)
(* restartTunnel: after the reconnect flag is set with a tunnel up, the     *)
(* tunnel comes back or the service is stopped.                             *)
RestartRestarts ==
    \A i \in Services :
        (/\ service = i /\ m_isReconnecting[i]
         /\ mTun2SocksThread[i] = "running"
         /\ \E r \in Runs : owner[r] = i /\ run[r] = "waiting" /\ counted[awaits[r]])
            ~> (service # i \/ (~m_isReconnecting[i] /\ mTun2SocksThread[i] = "running"))

=============================================================================
