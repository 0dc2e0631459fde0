--------------------------- MODULE ConsentProofs ---------------------------
(***************************************************************************)
(* Plugin, service and manager when the VPN consent has been given: only   *)
(* the WebCore thread starts the service, one service at a time, and so a  *)
(* runTunnel thread always hears its signal and a destroyed service leaves *)
(* no thread behind, for any number of services, threads and calls.        *)
(***************************************************************************)
EXTENDS Tun2SocksProofs

(* The messages of a service.                                               *)
ServiceMessages == {"create", "startCommand", "destroy"}

(* No service is started, and after the first d messages none is concerned. *)
Quiet(q, d, s) == s = NoService /\ \A k \in (d + 1)..Len(q) : q[k].what \notin ServiceMessages

(* After a destruction that is still to be handled there is nothing for any *)
(* service, and none is started.                                            *)
DestroyLast(q, d, s) ==
    \A k \in (d + 1)..Len(q) :
        q[k].what = "destroy" =>
            /\ s = NoService
            /\ \A n \in (k + 1)..Len(q) : q[n].what \notin ServiceMessages

(* A start command for service i is in the queue.                           *)
Starts(q, i) == \E k \in 1..Len(q) : q[k].what = "startCommand" /\ q[k].who = i

(* There is one start command at most, and it comes before the destruction  *)
(* of its service.                                                          *)
StartOnce(q) ==
    \A k, m \in 1..Len(q) :
        q[k].what = "startCommand" =>
            /\ q[m].what = "startCommand" => m = k
            /\ q[m].what = "destroy" /\ q[m].who = q[k].who => k < m

(* Consent results and broadcasts leave these orders as they are.           *)
LEMMA ConsentPosts ==
    ASSUME NEW q \in Seq(Messages), NEW p, Posts(q, p), NEW d \in {0, 1}, NEW s
    PROVE  /\ Quiet(q, d, s) => Quiet(p, d, s)
           /\ DestroyLast(q, d, s) => DestroyLast(p, d, s)
           /\ StartOnce(q) => StartOnce(p)
           /\ \A i : Starts(p, i) <=> Starts(q, i)
<1>1. CASE p = q
    BY <1>1, Zenon
<1>2. ASSUME NEW m \in Messages, m.what \in {"activityResult", "broadcasts"}, p = Append(q, m)
      PROVE  /\ Quiet(q, d, s) => Quiet(p, d, s)
             /\ DestroyLast(q, d, s) => DestroyLast(p, d, s)
             /\ StartOnce(q) => StartOnce(p)
             /\ \A i : Starts(p, i) <=> Starts(q, i)
    <2>1. /\ p \in Seq(Messages) /\ Len(q) \in Nat /\ Len(p) = Len(q) + 1
          /\ \A k \in 1..Len(q) : p[k] = q[k]
          /\ p[Len(q) + 1] = m /\ m.what \notin ServiceMessages
        BY <1>2, Appended, Zenon DEF ServiceMessages
    <2>2. Quiet(q, d, s) => Quiet(p, d, s)
        BY <2>1 DEF Quiet
    <2>3. DestroyLast(q, d, s) => DestroyLast(p, d, s)
        BY <2>1 DEF DestroyLast, ServiceMessages
    <2>4. StartOnce(q) => StartOnce(p)
        BY <2>1 DEF StartOnce, ServiceMessages
    <2>5. \A i : Starts(p, i) <=> Starts(q, i)
        BY <2>1 DEF Starts, ServiceMessages
    <2> QED
        BY <2>2, <2>3, <2>4, <2>5, Zenon
<1> QED
    BY <1>1, <1>2, Zenon DEF Posts

(* So does the handling of a message; a start command that is gone was the  *)
(* one handled.                                                             *)
LEMMA ConsentDequeues ==
    ASSUME NEW q \in Seq(Messages), q # <<>>, NEW d \in {0, 1}, NEW s
    PROVE  /\ Quiet(q, d, s) => Quiet(Tail(q), 0, s)
           /\ DestroyLast(q, d, s) => DestroyLast(Tail(q), 0, s)
           /\ StartOnce(q) => StartOnce(Tail(q))
           /\ \A i : Starts(Tail(q), i) => Starts(q, i)
           /\ \A i : Starts(q, i) /\ ~Starts(Tail(q), i) => q[1].what = "startCommand" /\ q[1].who = i
<1> DEFINE p == Tail(q)
<1>1. /\ p \in Seq(Messages) /\ Len(q) \in Nat /\ Len(q) > 0 /\ Len(p) = Len(q) - 1
      /\ \A k \in 1..Len(p) : p[k] = q[k + 1]
    BY Dequeued, Zenon
<1> HIDE DEF p
<1>2. Quiet(q, d, s) => Quiet(p, 0, s)
    <2> SUFFICES ASSUME Quiet(q, d, s), NEW k \in 1..Len(p) PROVE p[k].what \notin ServiceMessages
        BY DEF Quiet
    <2> QED
        BY <1>1, k + 1 \in (d + 1)..Len(q), Zenon DEF Quiet
<1>3. DestroyLast(q, d, s) => DestroyLast(p, 0, s)
    <2> SUFFICES ASSUME DestroyLast(q, d, s), NEW k \in 1..Len(p), p[k].what = "destroy"
                 PROVE  s = NoService /\ \A n \in (k + 1)..Len(p) : p[n].what \notin ServiceMessages
        BY DEF DestroyLast
    <2>1. s = NoService /\ \A n \in ((k + 1) + 1)..Len(q) : q[n].what \notin ServiceMessages
        BY <1>1, k + 1 \in (d + 1)..Len(q), Zenon DEF DestroyLast
    <2> QED
        BY <1>1, <2>1, \A n \in (k + 1)..Len(p) : n + 1 \in ((k + 1) + 1)..Len(q)
<1>4. StartOnce(q) => StartOnce(p)
    <2> SUFFICES ASSUME StartOnce(q), NEW k \in 1..Len(p), NEW m \in 1..Len(p), p[k].what = "startCommand"
                 PROVE  /\ p[m].what = "startCommand" => m = k
                        /\ p[m].what = "destroy" /\ p[m].who = p[k].who => k < m
        BY Zenon DEF StartOnce
    <2>1. k + 1 \in 1..Len(q) /\ m + 1 \in 1..Len(q) /\ p[k] = q[k + 1] /\ p[m] = q[m + 1]
        BY <1>1
    <2>2. /\ q[m + 1].what = "startCommand" => m + 1 = k + 1
          /\ q[m + 1].what = "destroy" /\ q[m + 1].who = q[k + 1].who => k + 1 < m + 1
        BY <2>1, Zenon DEF StartOnce
    <2> QED
        BY <2>1, <2>2
<1>5. ASSUME NEW i, Starts(p, i) PROVE Starts(q, i)
    <2>1. PICK k \in 1..Len(p) : p[k].what = "startCommand" /\ p[k].who = i
        BY <1>5, Zenon DEF Starts
    <2> QED
        BY <1>1, <2>1, k + 1 \in 1..Len(q), Zenon DEF Starts
<1>6. ASSUME NEW i, Starts(q, i), ~Starts(p, i) PROVE q[1].what = "startCommand" /\ q[1].who = i
    <2>1. PICK k \in 1..Len(q) : q[k].what = "startCommand" /\ q[k].who = i
        BY <1>6, Zenon DEF Starts
    <2>2. k = 1
        <3> SUFFICES ASSUME k # 1 PROVE FALSE
            OBVIOUS
        <3>1. k - 1 \in 1..Len(p) /\ p[k - 1] = q[k]
            BY <1>1
        <3> QED
            BY <1>6, <2>1, <3>1, Zenon DEF Starts
    <2> QED
        BY <2>1, <2>2, Zenon
<1> QED
    BY <1>2, <1>3, <1>4, <1>5, <1>6, Zenon DEF p

(* When all is quiet startService leaves one start command, for the new     *)
(* service.                                                                 *)
LEMMA ConsentLaunches ==
    ASSUME NEW q, NEW t, NEW L, NEW C, L \subseteq Services, QueueInv(q, t, NoService, L, C),
           NEW i \in Services \ L, NEW a \in Addresses, NEW d \in {0, 1}, Quiet(q, d, NoService),
           d = 1 => q # <<>> /\ q[1].what = "destroy"
    PROVE  LET p == q \o <<create(i), startCmd(i, a)>> IN
           /\ DestroyLast(p, d, i)
           /\ StartOnce(p)
           /\ \A j : Starts(p, j) => j = i
<1> DEFINE p == q \o <<create(i), startCmd(i, a)>>
           n == Len(q)
<1>0. create(i) \in Messages /\ startCmd(i, a) \in Messages
    BY DEF Messages
<1>1. /\ q \in Seq(Messages) /\ p \in Seq(Messages) /\ n \in Nat /\ Len(p) = n + 2
      /\ \A k \in 1..n : p[k] = q[k]
      /\ p[n + 1] = create(i) /\ p[n + 2] = startCmd(i, a)
    BY <1>0 DEF QueueInv
<1>2. ASSUME NEW k \in 1..n PROVE p[k].what # "startCommand"
    BY <1>1 DEF Quiet, ServiceMessages
<1>3. ASSUME NEW k \in 1..n, p[k].what = "destroy" PROVE k <= d /\ p[k].who # i
    BY <1>1, <1>3 DEF Quiet, ServiceMessages, QueueInv
<1>4. /\ p[n + 1].what = "create" /\ p[n + 2].what = "startCommand" /\ p[n + 2].who = i
    BY <1>1 DEF create, startCmd
<1> HIDE DEF p, n
<1>5. DestroyLast(p, d, i)
    BY <1>1, <1>3, <1>4 DEF DestroyLast
<1>6. StartOnce(p)
    <2> SUFFICES ASSUME NEW k \in 1..Len(p), NEW m \in 1..Len(p), p[k].what = "startCommand"
                 PROVE  /\ p[m].what = "startCommand" => m = k
                        /\ p[m].what = "destroy" /\ p[m].who = p[k].who => k < m
        BY Zenon DEF StartOnce
    <2>1. k = n + 2
        BY <1>1, <1>2, <1>4
    <2> QED
        BY <1>1, <1>2, <1>3, <1>4, <2>1
<1>7. ASSUME NEW j, Starts(p, j) PROVE j = i
    BY <1>1, <1>2, <1>4, <1>7 DEF Starts
<1> QED
    BY <1>5, <1>6, <1>7, Zenon DEF p

(* stopSelf posts the last message of its service.                          *)
LEMMA ConsentDestroys ==
    ASSUME NEW q \in Seq(Messages), NEW d \in {0, 1}, NEW i \in Services, DestroyLast(q, d, i), StartOnce(q)
    PROVE  LET p == Append(q, destroy(i)) IN
           /\ DestroyLast(p, d, NoService)
           /\ StartOnce(p)
           /\ \A j : Starts(p, j) <=> Starts(q, j)
<1> DEFINE m == destroy(i)
           p == Append(q, m)
<1>0. m \in Messages /\ m.what = "destroy" /\ m.who = i
    BY DEF Messages, destroy
<1>1. /\ p \in Seq(Messages) /\ Len(q) \in Nat /\ Len(p) = Len(q) + 1
      /\ \A k \in 1..Len(q) : p[k] = q[k]
      /\ p[Len(q) + 1] = m
    BY <1>0, Appended, Zenon
<1> HIDE DEF p, m
<1>2. ASSUME NEW k \in (d + 1)..Len(q) PROVE p[k].what # "destroy"
    BY <1>1, NoServiceIsNone DEF DestroyLast
<1>3. DestroyLast(p, d, NoService)
    BY <1>1, <1>2 DEF DestroyLast
<1>4. StartOnce(p)
    BY <1>0, <1>1 DEF StartOnce
<1>5. \A j : Starts(p, j) <=> Starts(q, j)
    BY <1>0, <1>1 DEF Starts
<1> QED
    BY <1>3, <1>4, <1>5, Zenon DEF p, m

(* When a destruction is handled all is quiet.                              *)
LEMMA ConsentDestroyed ==
    ASSUME NEW q \in Seq(Messages), q # <<>>, NEW s, DestroyLast(q, 0, s), q[1].what = "destroy"
    PROVE  Quiet(q, 1, s) /\ Quiet(Tail(q), 0, s) /\ DestroyLast(q, 1, s)
<1>1. Len(q) \in Nat /\ Len(q) > 0
    BY Dequeued, Zenon
<1>2. Quiet(q, 1, s)
    BY <1>1, 1 \in (0 + 1)..Len(q), Zenon DEF DestroyLast, Quiet
<1>3. DestroyLast(q, 1, s)
    BY <1>1 DEF DestroyLast
<1> QED
    BY <1>2, <1>3, ConsentDequeues, Zenon
-----------------------------------------------------------------------------
(* onDestroy is past the unregistering: its message counts as done.         *)
Handled == IF mainPc = "join" THEN 1 ELSE 0

(* TunnelState shows neither a manager nor a manager being started, and the *)
(* WebCore thread is not about to set the flag.                             *)
Idle == ~startingTunnelManager /\ tunnelManager = NoTunnel /\ pluginPc["js"] # "setStarting"

(* The main thread runs plugin code only inside a call of the plugin.       *)
InPlugin == pluginPc["main"] # "idle" => mainPc = "plugin"

(* With the consent given only the WebCore thread starts the service, after *)
(* it has seen the flag down.                                               *)
Launching ==
    /\ NoResult(mainQ)
    /\ pluginPc["main"] \in NotStarting
    /\ pluginPc["js"] = "getManager" => ~startingTunnelManager
    /\ InPlugin

(* The WebCore thread may start the service now or after its next reads.    *)
MayStart == pluginPc["js"] = "startService" \/ Idle

(* When the WebCore thread may start the service all is quiet, and the      *)
(* messages of services are in order.                                       *)
Ordered ==
    /\ MayStart => Quiet(mainQ, Handled, service)
    /\ DestroyLast(mainQ, Handled, service)
    /\ StartOnce(mainQ)

(* Every step keeps the main thread inside a call of the plugin.            *)
LEMMA InPluginStep ==
    ASSUME PluginInv, InPlugin, Next
    PROVE  InPlugin'
<1>t. pluginPc \in [PluginThreads -> PluginSteps]
    BY Zenon DEF PluginInv, TypeOK
<1>j. "js" \in PluginThreads /\ "main" \in PluginThreads
    BY Zenon DEF PluginThreads
<1>1. CASE UNCHANGED <<pluginPc, mainPc>>
    BY <1>1, Zenon DEF InPlugin
<1>2. CASE Plugin("main")
    BY <1>t, <1>j, <1>2, Zenon DEF Plugin, isServiceRunning, getTunnelManager, restartTunnelSame, restartTunnel,
       restartTunnelReconnects, signalManager, startTunnelService, startTunnelServiceNull,
       setStartingTunnelManager, stopTunnelService, leavePlugin, useManager, step, at, serviceVars, InPlugin
<1>3. CASE Plugin("js")
    <2>1. UNCHANGED mainPc /\ \E s \in PluginSteps : pluginPc' = [pluginPc EXCEPT !["js"] = s]
        BY <1>3, Zenon DEF Plugin, isServiceRunning, getTunnelManager, restartTunnelSame, restartTunnel,
           restartTunnelReconnects, signalManager, startTunnelService, startTunnelServiceNull,
           setStartingTunnelManager, stopTunnelService, leavePlugin, useManager, step, PluginSteps, serviceVars
    <2> QED
        BY <1>t, <1>j, <2>1, Zenon DEF InPlugin
<1>4. CASE User
    BY <1>t, <1>j, <1>4, Zenon DEF User, executeStart, executeStop, pluginDestroyed, userAnswers, step, serviceVars, InPlugin
<1>5. ASSUME NEW ok \in BOOLEAN, onActivityResult(ok) PROVE InPlugin'
    <2>1. CASE ok
        BY <1>5, <2>1, Zenon DEF onActivityResult, InPlugin
    <2>2. CASE ~ok
        BY <1>5, <2>2, Zenon DEF onActivityResult, InPlugin
    <2> QED
        BY <2>1, <2>2, Zenon
<1>6. ASSUME NEW i \in Services, ServiceCallback(i) PROVE mainPc # "plugin" /\ UNCHANGED pluginPc
    BY <1>6, Zenon DEF ServiceCallback, createService, createServiceStops, createServiceReturns,
       onDestroy, onDestroyJoined, onStartCommand, onStartCommandEstablished,
       onStartCommandFailed, atHead, pluginVars
<1>7. ASSUME onReceive \/ (\E r \in Runs : RunThread(r))
              \/ \E i \in Services : NativeThread(i) \/ DeviceFails(i) \/ (onRevoke(i) /\ UNCHANGED pluginVars)
       PROVE  UNCHANGED <<pluginPc, mainPc>>
    BY <1>7, Zenon DEF onReceive, RunThread, runTunnel, runTunnelBroadcast, runTunnelAwait, runTunnelWake,
       runTunnelFinally, runTunnelStops, runTunnelStopSelf, runTunnelClears, NativeThread, DeviceFails,
       aside, onRevoke, pluginVars
<1>8. Plugin("js") \/ Plugin("main") \/ ~\E t \in PluginThreads : Plugin(t)
    BY Zenon DEF PluginThreads
<1> QED
    BY <1>1, <1>2, <1>3, <1>4, <1>5, <1>6, <1>7, <1>8, Zenon DEF Next, MainLooper, InPlugin

(* With no consent dialogs the main thread never starts the service, and    *)
(* the WebCore thread reads the manager only with the flag down             *)
(* (Tun2Socks.java:135-155).                                                *)
LEMMA OneStarter ==
    ASSUME MaxDialogs = 0, PluginInv, Launching, Next
    PROVE  Launching'
<1>t. dialogs = 0 /\ pluginPc \in [PluginThreads -> PluginSteps] /\ shown = 0
    BY PluginBounds DEF PluginInv, TypeOK
<1>b. startingTunnelManager \in BOOLEAN
    BY Zenon DEF PluginInv, TypeOK, ServiceTypeOK
<1>j. "js" \in PluginThreads /\ "main" \in PluginThreads
    BY Zenon DEF PluginThreads
<1>1. NoResult(mainQ')
    BY <1>t, NoResultStep, Zenon DEF Launching
<1>2. ASSUME NEW ok \in BOOLEAN, onActivityResult(ok) PROVE FALSE
    <2>1. mainQ # <<>> /\ mainQ[1] = result(ok) /\ 1 \in 1..Len(mainQ)
        BY <1>2, Dequeued DEF onActivityResult, atHead, PluginInv, Queue, QueueInv
    <2> QED
        BY <2>1 DEF Launching, NoResult, result
<1>3. ASSUME Plugin("main") PROVE signalManager("main") \/ stopTunnelService("main")
    BY <1>3, Zenon DEF Plugin, isServiceRunning, getTunnelManager, restartTunnelSame, restartTunnel,
       restartTunnelReconnects, startTunnelService, startTunnelServiceNull, setStartingTunnelManager,
       at, Launching, NotStarting
<1> DEFINE Done == /\ pluginPc'["main"] \in NotStarting
                   /\ pluginPc'["js"] = "getManager" => ~startingTunnelManager'
<1>4. ASSUME UNCHANGED <<pluginPc, startingTunnelManager>> PROVE Done
    BY <1>4, Zenon DEF Launching
<1>5. ASSUME pluginPc' = pluginPc, startingTunnelManager' = FALSE PROVE Done
    BY <1>5, Zenon DEF Launching
<1>6. ASSUME User PROVE Done
    <2>1. UNCHANGED startingTunnelManager
        BY <1>6, Zenon DEF User, executeStart, executeStop, pluginDestroyed, userAnswers, serviceVars, stateVars
    <2>2. \/ UNCHANGED pluginPc
          \/ \E s \in {"getStarting", "getStop"} : pluginPc' = [pluginPc EXCEPT !["js"] = s]
          \/ pluginPc' = [pluginPc EXCEPT !["main"] = "getStop"]
        BY <1>6, Zenon DEF User, executeStart, executeStop, pluginDestroyed, userAnswers, step
    <2>3. /\ pluginPc'["main"] \in NotStarting
          /\ pluginPc'["js"] = "getManager" => pluginPc["js"] = "getManager"
        BY <1>t, <1>j, <2>2, Zenon DEF Launching, NotStarting
    <2> QED
        BY <2>1, <2>3, Zenon DEF Launching
<1>7. ASSUME Plugin("main") PROVE Done
    <2>1. UNCHANGED startingTunnelManager
        BY <1>3, <1>7, Zenon DEF signalManager, stopTunnelService, stateVars
    <2>2. \E s \in NotStarting : pluginPc' = [pluginPc EXCEPT !["main"] = s]
        BY <1>3, <1>7, Zenon DEF signalManager, stopTunnelService, leavePlugin, useManager, step, NotStarting
    <2>3. pluginPc'["main"] \in NotStarting /\ pluginPc'["js"] = pluginPc["js"]
        BY <1>t, <1>j, <2>2, Zenon
    <2> QED
        BY <2>1, <2>3, Zenon DEF Launching
<1>8. ASSUME Plugin("js") PROVE Done
    <2>1. \E s \in PluginSteps : pluginPc' = [pluginPc EXCEPT !["js"] = s]
        BY <1>8, Zenon DEF Plugin, isServiceRunning, getTunnelManager, restartTunnelSame, restartTunnel,
           restartTunnelReconnects, signalManager, startTunnelService, startTunnelServiceNull,
           setStartingTunnelManager, stopTunnelService, leavePlugin, useManager, step, PluginSteps
    <2>2. pluginPc'["main"] \in NotStarting
        BY <1>t, <1>j, <2>1, Zenon DEF Launching
    <2>3. CASE isServiceRunning("js")
        <3>1. UNCHANGED startingTunnelManager
            BY <2>3, Zenon DEF isServiceRunning, serviceVars, stateVars
        <3>2. startingTunnelManager => pluginPc'["js"] # "getManager"
            BY <1>t, <1>j, <2>3, Zenon DEF isServiceRunning, at, step
        <3> QED
            BY <2>2, <3>1, <3>2, Zenon
    <2>4. CASE ~isServiceRunning("js")
        <3>1. pluginPc'["js"] # "getManager"
            BY <1>8, <1>t, <1>j, <2>4, Zenon DEF Plugin, getTunnelManager, restartTunnelSame, restartTunnel,
               restartTunnelReconnects, signalManager, startTunnelService, startTunnelServiceNull,
               setStartingTunnelManager, stopTunnelService, leavePlugin, useManager, step
        <3> QED
            BY <2>2, <3>1, Zenon
    <2> QED
        BY <2>3, <2>4, Zenon
<1>9. ASSUME NEW t \in PluginThreads, Plugin(t) PROVE Done
    BY <1>7, <1>8, <1>9, Zenon DEF PluginThreads
<1>10. ASSUME NEW i \in Services, ServiceCallback(i)
       PROVE  pluginPc' = pluginPc /\ (UNCHANGED startingTunnelManager \/ startingTunnelManager' = FALSE)
    BY <1>10, Zenon DEF ServiceCallback, createService, createServiceStops, createServiceReturns, onCreate,
       setTunnelManager, onDestroy, onDestroyJoined, onStartCommand, onStartCommandEstablished,
       onStartCommandFailed, stateVars, pluginVars
<1>11. ASSUME onReceive \/ (\E r \in Runs : RunThread(r))
              \/ \E i \in Services : NativeThread(i) \/ DeviceFails(i) \/ (onRevoke(i) /\ UNCHANGED pluginVars)
       PROVE  UNCHANGED <<pluginPc, startingTunnelManager>>
    BY <1>11, Zenon DEF onReceive, RunThread, runTunnel, runTunnelBroadcast, runTunnelAwait, runTunnelWake,
       runTunnelFinally, runTunnelStops, runTunnelStopSelf, runTunnelClears, NativeThread, DeviceFails,
       aside, onRevoke, pluginVars, stateVars
<1>12. Done
    BY <1>2, <1>4, <1>5, <1>6, <1>9, <1>10, <1>11, Zenon DEF Next, MainLooper
<1> QED
    BY <1>1, <1>12, InPluginStep, Zenon DEF Launching

(* onDestroy of service i returns.                                          *)
Ends(i) == (onDestroy(i) /\ m_tunnelThread[i] = NoRun) \/ onDestroyJoined(i)

(* What a step does to the messages of services: start commands are added   *)
(* for a fresh service only, stopSelf posts a destruction, and a            *)
(* destruction goes when onDestroy returns.                                 *)
Kept ==
    /\ \A i : Starts(mainQ', i) => Starts(mainQ, i) \/ (i \notin launched /\ service' = i)
    /\ \A i \in launched' : service = i \/ i \notin launched => service' = i \/ Has(mainQ', destroy(i))
    /\ \A i \in Services : Has(mainQ, destroy(i)) =>
            Has(mainQ', destroy(i)) \/ (Ends(i) /\ ~Starts(mainQ', i))

(* Only TunnelState lets the WebCore thread start the service.              *)
LEMMA MayStartKept ==
    ASSUME PluginInv, Launching, Next, UNCHANGED <<startingTunnelManager, tunnelManager>>, MayStart'
    PROVE  MayStart
<1>t. pluginPc \in [PluginThreads -> PluginSteps]
    BY Zenon DEF PluginInv, TypeOK
<1>j. "js" \in PluginThreads /\ "main" \in PluginThreads
    BY Zenon DEF PluginThreads
<1>b. startingTunnelManager \in BOOLEAN
    BY Zenon DEF PluginInv, TypeOK, ServiceTypeOK
<1>1. CASE pluginPc'["js"] = pluginPc["js"]
    BY <1>1, Zenon DEF MayStart, Idle
<1>2. CASE pluginPc'["js"] # pluginPc["js"]
    <2>1. pluginPc' # pluginPc
        BY <1>2, Zenon
    <2>2. ASSUME Plugin("main") \/ pluginDestroyed \/ \E ok \in BOOLEAN : onActivityResult(ok)
          PROVE  pluginPc'["js"] = pluginPc["js"]
        BY <1>t, <1>j, <2>2, Zenon DEF Plugin, isServiceRunning, getTunnelManager, restartTunnelSame, restartTunnel,
           restartTunnelReconnects, signalManager, startTunnelService, startTunnelServiceNull,
           setStartingTunnelManager, stopTunnelService, leavePlugin, useManager, step, pluginDestroyed,
           onActivityResult
    <2>3. Plugin("js") \/ executeStop \/ \E a \in Addresses : executeStart(a)
        BY <1>2, <2>1, <2>2, Zenon DEF Next, User, userAnswers, MainLooper, ServiceCallback, RunThread, onReceive,
           NativeThread, DeviceFails, aside, pluginVars, PluginThreads
    <2>4. CASE executeStop \/ \E a \in Addresses : executeStart(a)
        <3>1. pluginPc["js"] = "idle"
            BY <2>4, Zenon DEF executeStop, executeStart, at
        <3>2. pluginPc'["js"] # "startService"
            BY <1>t, <1>j, <2>4, <3>1, Zenon DEF executeStop, executeStart, step
        <3>3. pluginPc["js"] # "setStarting"
            BY <3>1, Zenon
        <3> QED
            BY <3>2, <3>3, Zenon DEF MayStart, Idle
    <2>5. CASE Plugin("js") /\ pluginPc["js"] = "setStarting"
        <3>1. startingTunnelManager' = TRUE /\ pluginPc'["js"] = "idle"
            BY <1>t, <1>j, <2>5, Zenon DEF Plugin, isServiceRunning, getTunnelManager, restartTunnelSame, restartTunnel,
               restartTunnelReconnects, signalManager, startTunnelService, startTunnelServiceNull,
               setStartingTunnelManager, stopTunnelService, leavePlugin, step, at
        <3>2. pluginPc'["js"] # "startService"
            BY <3>1, Zenon
        <3> QED
            BY <3>1, <3>2, Zenon DEF MayStart, Idle
    <2>6. CASE Plugin("js") /\ pluginPc["js"] # "setStarting"
        <3>1. CASE pluginPc'["js"] = "startService"
            <4>1. pluginPc["js"] = "getManager" /\ tunnelManager = NoTunnel
                BY <1>t, <1>j, <1>2, <2>6, <3>1, Zenon DEF Plugin, isServiceRunning, getTunnelManager, restartTunnelSame,
                   restartTunnel, restartTunnelReconnects, signalManager, startTunnelService,
                   startTunnelServiceNull, setStartingTunnelManager, stopTunnelService, leavePlugin, useManager,
                   step, at
            <4> QED
                BY <2>6, <4>1, Zenon DEF Launching, MayStart, Idle
        <3>2. CASE pluginPc'["js"] # "startService"
            BY <2>6, <3>2, Zenon DEF MayStart, Idle
        <3> QED
            BY <3>1, <3>2, Zenon
    <2> QED
        BY <2>3, <2>4, <2>5, <2>6, Zenon
<1> QED
    BY <1>1, <1>2, Zenon

(* A step that concerns no service keeps the order.                         *)
LEMMA OrderedFrame ==
    ASSUME PluginInv, Ordered, Posts(mainQ, mainQ'), UNCHANGED <<service, launched>>,
           mainPc' = "join" <=> mainPc = "join", MayStart' => MayStart
    PROVE  Ordered' /\ Kept
<1>1. mainQ \in Seq(Messages)
    BY Zenon DEF PluginInv, TypeOK, ServiceTypeOK, AndroidTypeOK
<1>2. Handled' = Handled /\ Handled \in {0, 1}
    BY Zenon DEF Handled
<1>3. /\ Quiet(mainQ, Handled, service) => Quiet(mainQ', Handled, service)
      /\ DestroyLast(mainQ, Handled, service) => DestroyLast(mainQ', Handled, service)
      /\ StartOnce(mainQ) => StartOnce(mainQ')
      /\ \A i : Starts(mainQ', i) <=> Starts(mainQ, i)
    BY <1>1, <1>2, ConsentPosts, Zenon
<1>4. Ordered'
    BY <1>2, <1>3, Zenon DEF Ordered
<1>5. \A i : Has(mainQ', destroy(i)) <=> Has(mainQ, destroy(i))
    BY PostKeeps, Zenon DEF PluginInv, Queue
<1> QED
    BY <1>3, <1>4, <1>5, Zenon DEF Kept

(* So does startService.                                                    *)
LEMMA OrderedLaunch ==
    ASSUME PluginInv, Ordered, pluginPc["js"] = "startService", address \in Addresses, startService(address),
           UNCHANGED mainPc, ~MayStart'
    PROVE  Ordered' /\ Kept
<1>t. mainQ \in Seq(Messages) /\ launched \subseteq Services
    BY Zenon DEF PluginInv, TypeOK, ServiceTypeOK, AndroidTypeOK
<1>1. Quiet(mainQ, Handled, service) /\ service = NoService
    BY Zenon DEF Ordered, MayStart, Quiet
<1>2. PICK i \in Services \ launched :
        /\ mainQ' = mainQ \o <<create(i), startCmd(i, address)>>
        /\ service' = i /\ launched' = launched \cup {i}
    BY <1>1, Zenon DEF startService
<1>3. Handled = 1 => mainQ # <<>> /\ mainQ[1].what = "destroy"
    BY DEF Handled, PluginInv, MainThread, InMessage
<1>4. Handled \in {0, 1} /\ Handled' = Handled
    BY Zenon DEF Handled
<1>5. QueueInv(mainQ, mTunnel, NoService, launched, created)
    BY <1>1, Zenon DEF PluginInv, Queue
<1>6. /\ DestroyLast(mainQ', Handled, i)
      /\ StartOnce(mainQ')
      /\ \A j : Starts(mainQ', j) => j = i
    <2> DEFINE p == mainQ \o <<create(i), startCmd(i, address)>>
    <2>1. Quiet(mainQ, Handled, NoService)
        BY <1>1, Zenon
    <2>2. /\ DestroyLast(p, Handled, i)
          /\ StartOnce(p)
          /\ \A j : Starts(p, j) => j = i
        BY <1>t, <1>3, <1>4, <1>5, <2>1, ConsentLaunches, Zenon
    <2> HIDE DEF p
    <2>3. mainQ' = p
        BY <1>2, Zenon DEF p
    <2> QED
        BY <2>2, <2>3, Zenon
<1>7. Ordered'
    BY <1>2, <1>4, <1>6, Zenon DEF Ordered
<1>8. \A x : Has(mainQ, x) => Has(mainQ', x)
    <2>1. /\ create(i) \in Messages /\ startCmd(i, address) \in Messages
          /\ mainQ' = Append(Append(mainQ, create(i)), startCmd(i, address))
        BY <1>t, <1>2 DEF Messages
    <2>2. Append(mainQ, create(i)) \in Seq(Messages)
        BY <1>t, <2>1, Appended, Zenon
    <2> QED
        BY <1>t, <2>1, <2>2, HasAppended, Zenon
<1>9. \A j \in launched : service # j
    BY <1>t, <1>1, NoServiceIsNone, Zenon
<1> QED
    BY <1>2, <1>6, <1>7, <1>8, <1>9, Zenon DEF Kept

(* So does stopSelf.                                                        *)
LEMMA OrderedStop ==
    ASSUME PluginInv, Ordered, NEW i \in Services, NEW q, Posts(mainQ, q), stopSelf(i, q),
           UNCHANGED mainPc, MayStart' => MayStart
    PROVE  Ordered' /\ Kept
<1>t. mainQ \in Seq(Messages) /\ launched \subseteq Services
    BY Zenon DEF PluginInv, TypeOK, ServiceTypeOK, AndroidTypeOK
<1>1. CASE service # i
    BY <1>1, OrderedFrame, Zenon DEF stopSelf
<1>2. CASE service = i
    <2>1. mainQ' = Append(q, destroy(i)) /\ service' = NoService /\ UNCHANGED launched
        BY <1>2, Zenon DEF stopSelf
    <2>2. Handled' = Handled /\ Handled \in {0, 1}
        BY Zenon DEF Handled
    <2>3. /\ DestroyLast(q, Handled, i) /\ StartOnce(q)
          /\ \A j : Starts(q, j) <=> Starts(mainQ, j)
        BY <1>t, <1>2, <2>2, ConsentPosts, Zenon DEF Ordered
    <2>4. ~MayStart'
        BY <1>2, NoServiceIsNone, Zenon DEF Ordered, Quiet
    <2>5. QueueInv(q, mTunnel, service, launched, created) /\ \A j : Has(q, destroy(j)) <=> Has(mainQ, destroy(j))
        BY PostKeeps, Zenon DEF PluginInv, Queue
    <2>6. q \in Seq(Messages)
        BY <2>5, Zenon DEF QueueInv
    <2>7. /\ DestroyLast(mainQ', Handled, NoService)
          /\ StartOnce(mainQ')
          /\ \A j : Starts(mainQ', j) <=> Starts(q, j)
        BY <2>1, <2>2, <2>3, <2>6, ConsentDestroys, Zenon
    <2>8. Ordered'
        BY <2>1, <2>2, <2>4, <2>7, Zenon DEF Ordered
    <2>9. destroy(i) \in Messages
        BY DEF Messages
    <2>10. \A x : Has(mainQ', x) <=> Has(q, x) \/ x = destroy(i)
        BY <2>1, <2>6, <2>9, HasAppended, Zenon
    <2> QED
        BY <1>2, <2>1, <2>3, <2>5, <2>7, <2>8, <2>10, Zenon DEF Kept
<1> QED
    BY <1>1, <1>2, Zenon

(* A consent result or a broadcast is not a destruction.                    *)
LEMMA PostHas ==
    ASSUME NEW q \in Seq(Messages), NEW p, Posts(q, p), NEW i
    PROVE  Has(p, destroy(i)) <=> Has(q, destroy(i))
<1>1. CASE p = q
    BY <1>1, Zenon
<1>2. ASSUME NEW m \in Messages, m.what \in {"activityResult", "broadcasts"}, p = Append(q, m)
      PROVE  Has(p, destroy(i)) <=> Has(q, destroy(i))
    <2>1. m # destroy(i)
        BY <1>2 DEF destroy
    <2> QED
        BY <1>2, <2>1, HasAppended, Zenon
<1> QED
    BY <1>1, <1>2, Zenon DEF Posts

(* So does the end of a message.                                            *)
LEMMA OrderedTail ==
    ASSUME PluginInv, Ordered, mainQ # <<>>, Posts(Tail(mainQ), mainQ'), mainPc' # "join",
           UNCHANGED <<service, launched>>, MayStart' => MayStart \/ Quiet(Tail(mainQ), 0, service),
           \A i \in Services : mainQ[1] = destroy(i) => Ends(i)
    PROVE  Ordered' /\ Kept
<1> DEFINE p == Tail(mainQ)
<1>t. mainQ \in Seq(Messages)
    BY Zenon DEF PluginInv, TypeOK, ServiceTypeOK, AndroidTypeOK
<1>1. p \in Seq(Messages)
    BY <1>t, Dequeued, Zenon
<1>2. Handled' = 0 /\ Handled \in {0, 1}
    BY Zenon DEF Handled
<1>3. /\ Quiet(mainQ, Handled, service) => Quiet(p, 0, service)
      /\ DestroyLast(mainQ, Handled, service) => DestroyLast(p, 0, service)
      /\ StartOnce(mainQ) => StartOnce(p)
      /\ \A i : Starts(p, i) => Starts(mainQ, i)
    BY <1>t, <1>2, ConsentDequeues, Zenon
<1>4. \A x : Has(mainQ, x) <=> mainQ[1] = x \/ Has(p, x)
    BY <1>t, HasDequeued, Zenon
<1>5. 0 \in {0, 1}
    OBVIOUS
<1> HIDE DEF p
<1>6. Posts(p, mainQ')
    BY Zenon DEF p
<1>7. /\ Quiet(p, 0, service) => Quiet(mainQ', 0, service)
      /\ DestroyLast(p, 0, service) => DestroyLast(mainQ', 0, service)
      /\ StartOnce(p) => StartOnce(mainQ')
      /\ \A i : Starts(mainQ', i) <=> Starts(p, i)
    BY <1>1, <1>5, <1>6, ConsentPosts, Zenon
<1>8. Ordered'
    BY <1>2, <1>3, <1>7, Zenon DEF Ordered, p
<1>9. \A i : Has(mainQ', destroy(i)) <=> Has(p, destroy(i))
    BY <1>1, <1>6, PostHas, Zenon
<1>10. ASSUME NEW i \in Services, mainQ[1] = destroy(i) PROVE ~Starts(mainQ, i)
    <2>1. mainQ[1].what = "destroy" /\ mainQ[1].who = i /\ 1 \in 1..Len(mainQ) /\ Len(mainQ) \in Nat
        BY <1>t, <1>10, Dequeued DEF destroy
    <2>2. \A k \in 1..Len(mainQ) : ~(k < 1)
        BY <2>1
    <2> QED
        BY <2>1, <2>2, Zenon DEF Ordered, StartOnce, Starts
<1> QED
    BY <1>3, <1>4, <1>7, <1>8, <1>9, <1>10, Zenon DEF Kept

(* So does onDestroy.                                                       *)
LEMMA OrderedDestroy ==
    ASSUME PluginInv, Ordered, NEW i \in Services, onDestroy(i)
    PROVE  Ordered' /\ Kept
<1>t. mainQ \in Seq(Messages)
    BY Zenon DEF PluginInv, TypeOK, ServiceTypeOK, AndroidTypeOK
<1>1. mainPc = "idle" /\ mainQ # <<>> /\ mainQ[1] = destroy(i) /\ mainQ[1].what = "destroy" /\ UNCHANGED <<service, launched>>
    BY <1>t, Dequeued DEF onDestroy, atHead, destroy
<1>2. Handled = 0
    BY <1>1, Zenon DEF Handled
<1>3. Quiet(mainQ, 1, service) /\ Quiet(Tail(mainQ), 0, service) /\ DestroyLast(mainQ, 1, service)
    BY <1>t, <1>1, <1>2, ConsentDestroyed, Zenon DEF Ordered
<1>4. CASE m_tunnelThread[i] = NoRun
    <2>1. mainQ' = Tail(mainQ) /\ mainPc' # "join"
        BY <1>1, <1>4, Zenon DEF onDestroy
    <2>2. \A j \in Services : mainQ[1] = destroy(j) => Ends(j)
        <3>1. \A j \in Services : destroy(i) = destroy(j) => j = i
            BY Zenon DEF destroy
        <3> QED
            BY <1>1, <1>4, <3>1, Zenon DEF Ends
    <2>3. Posts(Tail(mainQ), mainQ')
        BY <2>1, Zenon DEF Posts
    <2> QED
        BY <1>1, <1>3, <2>1, <2>2, <2>3, OrderedTail, Zenon
<1>5. CASE m_tunnelThread[i] # NoRun
    <2>1. mainPc' = "join" /\ UNCHANGED mainQ
        BY <1>5, Zenon DEF onDestroy
    <2>2. Handled' = 1
        BY <2>1, Zenon DEF Handled
    <2> QED
        BY <1>1, <1>3, <2>1, <2>2, Zenon DEF Ordered, Kept
<1> QED
    BY <1>4, <1>5, Zenon

(* Every step keeps the order of the messages of services.                  *)
LEMMA OrderedStep ==
    ASSUME MaxDialogs = 0, PluginInv, Launching, Ordered, Next
    PROVE  Ordered' /\ Kept
<1>t. mainQ \in Seq(Messages) /\ pluginPc \in [PluginThreads -> PluginSteps]
    BY Zenon DEF PluginInv, TypeOK, ServiceTypeOK, AndroidTypeOK
<1>j. "js" \in PluginThreads /\ "main" \in PluginThreads
    BY Zenon DEF PluginThreads
<1>h. mainQ # <<>> => Head(mainQ) = mainQ[1]
    BY <1>t, Dequeued, Zenon
<1>p. Posts(mainQ, mainQ) /\ Posts(mainQ, withExec(mainQ)) /\ Posts(Tail(mainQ), Tail(mainQ))
      /\ Posts(Tail(mainQ), withExec(Tail(mainQ)))
    BY ExecPosts, Zenon DEF Posts
<1>d. \A i, j : destroy(i) # create(j) /\ (\A a : destroy(i) # startCmd(j, a)) /\ destroy(i) # execPending
                /\ (destroy(i) = destroy(j) => i = j)
    BY Zenon DEF destroy, create, startCmd, execPending
<1>n. \A i \in Services : i # NoTunnel
    BY NullsAreNotObjects, OneTunnelPerService, Zenon
<1>f. ASSUME mainQ' = mainQ \/ mainQ' = withExec(mainQ), UNCHANGED <<service, launched, startingTunnelManager, tunnelManager>>,
             mainPc' = "join" <=> mainPc = "join"
      PROVE  Ordered' /\ Kept
    BY <1>f, <1>p, OrderedFrame, MayStartKept, Zenon
<1>1. CASE User
    <2>1. /\ mainQ' = mainQ /\ UNCHANGED <<service, launched, startingTunnelManager, tunnelManager>>
          /\ mainPc' = "join" <=> mainPc = "join"
        <3>1. CASE \E ok \in BOOLEAN : userAnswers(ok)
            BY <3>1, PluginBounds DEF userAnswers, PluginInv, TypeOK
        <3>2. CASE pluginDestroyed
            BY <3>2, Zenon DEF pluginDestroyed, androidVars, stateVars
        <3> QED
            BY <1>1, <3>1, <3>2, Zenon DEF User, executeStart, executeStop, serviceVars, androidVars, stateVars
    <2> QED
        BY <2>1, <1>f, Zenon
<1>2. ASSUME NEW t \in PluginThreads, Plugin(t) PROVE Ordered' /\ Kept
    <2>1. CASE startTunnelService(t)
        <3>1. t = "js" /\ pluginPc["js"] = "startService"
            BY <2>1, Zenon DEF startTunnelService, at, PluginThreads, Launching, NotStarting
        <3>2. pluginPc'["js"] = "setStarting"
            BY <1>t, <1>j, <2>1, <3>1, Zenon DEF startTunnelService, step
        <3>3. address \in Addresses
            BY <1>j, <3>1, Zenon DEF PluginInv, Addressed, NotStarting
        <3>4. pluginPc'["js"] # "startService"
            BY <3>2, Zenon
        <3>5. ~MayStart'
            BY <3>2, <3>4, Zenon DEF MayStart, Idle
        <3> QED
            BY <2>1, <3>1, <3>3, <3>5, OrderedLaunch, Zenon DEF startTunnelService
    <2>2. CASE setStartingTunnelManager(t)
        <3>1. t = "js"
            BY <2>2, Zenon DEF setStartingTunnelManager, at, PluginThreads, Launching, NotStarting
        <3>2. pluginPc'["js"] # "startService"
            BY <1>t, <1>j, <2>2, <3>1, Zenon DEF setStartingTunnelManager, leavePlugin, step
        <3>3. startingTunnelManager' = TRUE /\ UNCHANGED <<mainQ, service, launched, mainPc>>
            BY <2>2, <3>1, Zenon DEF setStartingTunnelManager, leavePlugin, androidVars
        <3>4. ~MayStart'
            BY <3>2, <3>3, Zenon DEF MayStart, Idle
        <3> QED
            BY <1>p, <3>3, <3>4, OrderedFrame, Zenon
    <2>3. CASE ~startTunnelService(t) /\ ~setStartingTunnelManager(t)
        <3>0. t = "main" => mainPc # "join"
            BY <1>2, Zenon DEF Plugin, isServiceRunning, getTunnelManager, restartTunnelSame, restartTunnel,
               restartTunnelReconnects, signalManager, startTunnelService, startTunnelServiceNull,
               setStartingTunnelManager, stopTunnelService, at, Launching, InPlugin
        <3>1. /\ mainQ' = mainQ \/ mainQ' = withExec(mainQ)
              /\ UNCHANGED <<service, launched, startingTunnelManager, tunnelManager>>
            BY <1>2, <2>3, Zenon DEF Plugin, isServiceRunning, getTunnelManager, restartTunnelSame, restartTunnel,
               restartTunnelReconnects, signalManager, startTunnelServiceNull, stopTunnelService, sendBroadcast,
               serviceVars, androidVars, stateVars
        <3>2. mainPc' = mainPc \/ (t = "main" /\ mainPc' = "idle")
            BY <1>2, <2>3, Zenon DEF Plugin, isServiceRunning, getTunnelManager, restartTunnelSame, restartTunnel,
               restartTunnelReconnects, signalManager, startTunnelServiceNull, stopTunnelService, leavePlugin,
               useManager, serviceVars
        <3> QED
            BY <1>f, <3>0, <3>1, <3>2, Zenon
    <2> QED
        BY <1>2, <2>1, <2>2, <2>3, Zenon
<1>3. ASSUME NEW i \in Services, createService(i) \/ createServiceReturns(i), UNCHANGED pluginVars PROVE Ordered' /\ Kept
    <2>1. mainQ # <<>> /\ mainQ[1] = create(i) /\ mainPc # "join" /\ mainPc' # "join" /\ onCreate(i)
        BY <1>3, <1>h, Zenon DEF createService, createServiceReturns, atHead, PluginInv, MainThread, InMessage
    <2>2. ~MayStart'
        <3>1. tunnelManager' = i /\ pluginPc' = pluginPc
            BY <1>3, <2>1, Zenon DEF onCreate, setTunnelManager, pluginVars
        <3>2. ~Quiet(mainQ, Handled, service)
            <4>1. 1 \in (Handled + 1)..Len(mainQ) /\ mainQ[1].what = "create"
                BY <1>t, <2>1, Dequeued DEF Handled, create
            <4> QED
                BY <4>1, Zenon DEF Quiet, ServiceMessages
        <3>3. ~MayStart
            BY <3>2, Zenon DEF Ordered
        <3> QED
            BY <1>n, <3>1, <3>3, Zenon DEF MayStart, Idle
    <2>3. mainQ' = Tail(mainQ) /\ UNCHANGED <<service, launched>>
        BY <2>1, Zenon DEF onCreate
    <2> QED
        BY <1>d, <1>p, <2>1, <2>2, <2>3, OrderedTail, Zenon
<1>4. ASSUME NEW i \in Services, createServiceStops(i) \/ \E a \in Addresses : onStartCommand(i, a)
      PROVE Ordered' /\ Kept
    <2>1. UNCHANGED <<mainQ, service, launched, startingTunnelManager, tunnelManager>> /\ mainPc # "join" /\ mainPc' # "join"
        BY <1>4, Zenon DEF createServiceStops, onStartCommand, atHead, androidVars, stateVars
    <2> QED
        BY <1>f, <2>1, Zenon
<1>5. ASSUME NEW i \in Services, onDestroyJoined(i), UNCHANGED pluginVars PROVE Ordered' /\ Kept
    <2>1. mainQ # <<>> /\ mainQ[1] = destroy(i) /\ mainPc' # "join"
        BY <1>5, <1>h, Zenon DEF onDestroyJoined, PluginInv, MainThread, InMessage
    <2>2. mainQ' = Tail(mainQ) /\ UNCHANGED <<service, launched, startingTunnelManager, tunnelManager>>
        BY <1>5, Zenon DEF onDestroyJoined, stateVars
    <2>3. \A j \in Services : mainQ[1] = destroy(j) => Ends(j)
        BY <1>5, <1>d, <2>1, Zenon DEF Ends
    <2> QED
        BY <1>p, <2>1, <2>2, <2>3, MayStartKept, OrderedTail, Zenon
<1>6. ASSUME NEW i \in Services, NEW a \in Addresses, onStartCommandEstablished(i, a) \/ onStartCommandFailed(i, a)
      PROVE Ordered' /\ Kept
    <2>1. mainQ # <<>> /\ mainQ[1] = startCmd(i, a) /\ mainPc' # "join"
        BY <1>6, <1>h, Zenon DEF onStartCommandEstablished, onStartCommandFailed, PluginInv, MainThread, InMessage
    <2>2. /\ mainQ' = Tail(mainQ) \/ mainQ' = withExec(Tail(mainQ))
          /\ UNCHANGED <<service, launched, startingTunnelManager, tunnelManager>>
        BY <1>6, Zenon DEF onStartCommandEstablished, onStartCommandFailed, stateVars
    <2> QED
        BY <1>d, <1>p, <2>1, <2>2, MayStartKept, OrderedTail, Zenon
<1>7. ASSUME onReceive PROVE Ordered' /\ Kept
    <2>1. mainQ # <<>> /\ mainQ[1] = execPending /\ mainPc' # "join" /\ mainPc # "join"
        BY <1>7, <1>h, Zenon DEF onReceive, atHead
    <2>2. /\ mainQ' = mainQ \/ mainQ' = Tail(mainQ)
          /\ UNCHANGED <<service, launched, startingTunnelManager, tunnelManager>>
        BY <1>7, Zenon DEF onReceive, stateVars
    <2>3. CASE mainQ' = mainQ
        BY <1>f, <2>1, <2>2, <2>3, Zenon
    <2>4. CASE mainQ' = Tail(mainQ)
        BY <1>d, <1>p, <2>1, <2>2, <2>4, MayStartKept, OrderedTail, Zenon
    <2> QED
        BY <2>2, <2>3, <2>4, Zenon
<1>8. ASSUME NEW r \in Runs, RunThread(r) PROVE Ordered' /\ Kept
    <2>1. CASE runTunnelStopSelf(r)
        <3>1. owner[r] \in Services
            BY <2>1, OneTunnelPerService, Zenon DEF runTunnelStopSelf, PluginInv, Owners, TunnelInv, TunnelTypeOK
        <3>2. stopSelf(owner[r], mainQ) /\ UNCHANGED <<mainPc, startingTunnelManager, tunnelManager>>
            BY <2>1, Zenon DEF runTunnelStopSelf, stateVars
        <3> QED
            BY <1>p, <3>1, <3>2, MayStartKept, OrderedStop, Zenon
    <2>2. CASE ~runTunnelStopSelf(r)
        <3>1. /\ mainQ' = mainQ \/ mainQ' = withExec(mainQ)
              /\ UNCHANGED <<service, launched, startingTunnelManager, tunnelManager, mainPc>>
            BY <1>8, <2>2, Zenon DEF RunThread, runTunnel, runTunnelBroadcast, runTunnelAwait, runTunnelWake,
               runTunnelFinally, runTunnelStops, runTunnelClears, sendBroadcast, androidVars, stateVars
        <3> QED
            BY <1>f, <3>1, Zenon
    <2> QED
        BY <2>1, <2>2, Zenon
<1>9. ASSUME NEW i \in Services, NativeThread(i) \/ DeviceFails(i) PROVE Ordered' /\ Kept
    <2>1. UNCHANGED <<mainQ, service, launched, startingTunnelManager, tunnelManager, mainPc>>
        BY <1>9, Zenon DEF NativeThread, DeviceFails, aside, androidVars, stateVars
    <2> QED
        BY <1>f, <2>1, Zenon
<1>10. ASSUME NEW i \in Services, onRevoke(i) PROVE Ordered' /\ Kept
    <2>1. stopSelf(i, withExec(mainQ)) /\ UNCHANGED <<mainPc, startingTunnelManager, tunnelManager>>
        BY <1>10, Zenon DEF onRevoke, stateVars
    <2> QED
        BY <1>p, <2>1, MayStartKept, OrderedStop, Zenon
<1>11. ASSUME NEW ok \in BOOLEAN, onActivityResult(ok) PROVE FALSE
    <2>1. mainQ # <<>> /\ mainQ[1] = result(ok) /\ 1 \in 1..Len(mainQ)
        BY <1>11, <1>t, <1>h, Dequeued DEF onActivityResult, atHead
    <2> QED
        BY <2>1 DEF Launching, NoResult, result
<1>12. ASSUME NEW i \in Services, ServiceCallback(i) PROVE Ordered' /\ Kept
    BY <1>12, <1>3, <1>4, <1>5, <1>6, OrderedDestroy, Zenon DEF ServiceCallback
<1> QED
    BY <1>1, <1>2, <1>7, <1>8, <1>9, <1>10, <1>11, <1>12, Zenon DEF Next, MainLooper
-----------------------------------------------------------------------------
(* A service whose start command is pending has no runTunnel thread.        *)
Unstarted == \A i \in Services : Starts(mainQ, i) => \A r \in Runs : owner[r] # i

(* A live runTunnel thread is the one its manager knows.                    *)
RunsKnown == \A r \in Runs : run[r] \notin {"unused", "done"} => m_tunnelThread[owner[r]] = r

(* A waiting runTunnel thread waits for its own latch.                      *)
OwnLatch == \A r \in Runs : run[r] = "waiting" => awaits[r] = r

(* Service i will run no thread any more.                                   *)
Over(i) == ~Starts(mainQ, i) /\ \A r \in Runs : owner[r] = i => run[r] = "done"

(* A service is started, or will be destroyed, or is over.                  *)
Finished == \A i \in launched : service = i \/ Has(mainQ, destroy(i)) \/ Over(i)

(* Where a runTunnel thread may have a tun2socks thread.                    *)
Tunneling == {"started", "await", "waiting", "finally", "stopTunneling", "stop", "joinTunneling", "joinStop"}

(* A tun2socks thread has a runTunnel thread that will stop it.             *)
NativeOwned ==
    \A i \in Services : mTun2SocksThread[i] # "null" => \E r \in Runs : owner[r] = i /\ run[r] \in Tunneling

(* The runTunnel threads when the consent is given.                         *)
Running == Unstarted /\ RunsKnown /\ OwnLatch /\ Finished /\ NativeOwned

(* onStartCommand makes the only runTunnel thread of its service            *)
(* (TunnelManager.java:124-135).                                            *)
LEMMA OnlyRun ==
    ASSUME PluginInv, Ordered, Running, NEW i \in Services, NEW a \in Addresses, onStartCommandEstablished(i, a)
    PROVE  /\ i \in launched
           /\ Starts(mainQ, i) /\ \A r \in Runs : owner[r] # i
           /\ \A j : ~Starts(mainQ', j)
<1>t. mainQ \in Seq(Messages)
    BY Zenon DEF PluginInv, TypeOK, ServiceTypeOK, AndroidTypeOK
<1>1. mainQ # <<>> /\ mainQ[1] = startCmd(i, a) /\ mainQ' = Tail(mainQ)
    BY <1>t, Dequeued, Zenon DEF onStartCommandEstablished, PluginInv, MainThread, InMessage
<1>2. /\ mainQ[1].what = "startCommand" /\ mainQ[1].who = i /\ 1 \in 1..Len(mainQ)
      /\ Len(mainQ') = Len(mainQ) - 1 /\ Len(mainQ) \in Nat
      /\ \A k \in 1..Len(mainQ') : mainQ'[k] = mainQ[k + 1] /\ k + 1 \in 1..Len(mainQ) /\ k + 1 # 1
    BY <1>t, <1>1, Dequeued DEF startCmd
<1>3. Starts(mainQ, i)
    BY <1>2, Zenon DEF Starts
<1>4. \A j : ~Starts(mainQ', j)
    BY <1>2, Zenon DEF Starts, Ordered, StartOnce
<1>5. i \in launched
    BY <1>2, Zenon DEF PluginInv, Queue, QueueInv
<1> QED
    BY <1>3, <1>4, <1>5, Zenon DEF Running, Unstarted

(* A manager whose onDestroy returns has no thread left.                    *)
LEMMA EndsQuietly ==
    ASSUME PluginInv, RunsKnown, NEW i \in Services, Ends(i)
    PROVE  /\ \A r \in Runs : owner[r] = i => run[r] = "done"
           /\ UNCHANGED <<run, owner>>
<1>1. UNCHANGED <<run, owner>>
    BY Zenon DEF Ends, onDestroy, onDestroyJoined, runVars
<1>2. ASSUME NEW r \in Runs, owner[r] = i, run[r] # "done" PROVE FALSE
    <2>1. run[r] # "unused"
        BY <1>2, NullsAreNotObjects, OneTunnelPerService, Zenon DEF PluginInv, Owners
    <2>2. m_tunnelThread[i] = r
        BY <1>2, <2>1, Zenon DEF RunsKnown
    <2> QED
        BY <1>2, <2>2, NoRunIsNone, Zenon DEF Ends, onDestroyJoined
<1> QED
    BY <1>1, <1>2, Zenon

(* What a step may do to the runTunnel threads.                             *)
LEMMA RunEffect ==
    ASSUME PluginInv, Next
    PROVE  \/ UNCHANGED <<run, owner, awaits, m_tunnelThread>>
           \/ \E i \in Services : onDestroyJoined(i) /\ UNCHANGED <<run, owner, awaits>>
           \/ \E i \in Services, a \in Addresses : onStartCommandEstablished(i, a) /\ UNCHANGED awaits
           \/ \E r \in Runs : RunThread(r) /\ UNCHANGED <<owner, m_tunnelThread>>
<1>1. ASSUME User \/ (\E t \in PluginThreads : Plugin(t)) \/ onReceive \/ (\E ok \in BOOLEAN : onActivityResult(ok))
      PROVE  UNCHANGED <<run, owner, awaits, m_tunnelThread>>
    BY <1>1, Zenon DEF User, Plugin, executeStart, executeStop, pluginDestroyed, userAnswers, isServiceRunning,
       getTunnelManager, restartTunnelSame, restartTunnel, restartTunnelReconnects, signalManager,
       startTunnelService, startTunnelServiceNull, setStartingTunnelManager, stopTunnelService, onReceive,
       onActivityResult, serviceVars, runVars, managerVars
<1>2. ASSUME NEW i \in Services,
             \/ createService(i) \/ createServiceStops(i) \/ createServiceReturns(i)
             \/ onDestroy(i) \/ onRevoke(i) \/ NativeThread(i) \/ DeviceFails(i)
             \/ \E a \in Addresses : onStartCommand(i, a) \/ onStartCommandFailed(i, a)
      PROVE  UNCHANGED <<run, owner, awaits, m_tunnelThread>>
    BY <1>2, Zenon DEF createService, createServiceStops, createServiceReturns, onCreate, onDestroy,
       onRevoke, NativeThread, DeviceFails, aside, onStartCommand, onStartCommandFailed, runVars, managerVars
<1>3. ASSUME NEW i \in Services, onDestroyJoined(i) PROVE UNCHANGED <<run, owner, awaits>>
    BY <1>3, Zenon DEF onDestroyJoined, runVars
<1>4. ASSUME NEW i \in Services, NEW a \in Addresses, onStartCommandEstablished(i, a) PROVE UNCHANGED awaits
    BY <1>4, Zenon DEF onStartCommandEstablished
<1>5. ASSUME NEW r \in Runs, RunThread(r) PROVE UNCHANGED <<owner, m_tunnelThread>>
    BY <1>5, Zenon DEF RunThread, runTunnel, runTunnelBroadcast, runTunnelAwait, runTunnelWake,
       runTunnelFinally, runTunnelStops, runTunnelStopSelf, runTunnelClears, managerVars
<1> QED
    BY <1>1, <1>2, <1>3, <1>4, <1>5, Zenon DEF Next, MainLooper, ServiceCallback

(* Services are launched by startService only.                              *)
LEMMA LaunchedGrows ==
    ASSUME PluginInv, Next
    PROVE  launched \subseteq launched' /\ launched' \subseteq Services
<1>1. launched' \subseteq Services
    BY PluginStep, Zenon DEF PluginInv, TypeOK, ServiceTypeOK, AndroidTypeOK
<1>2. UNCHANGED launched \/ startService(address)
    <2>1. ASSUME User \/ (\E t \in PluginThreads : Plugin(t)) \/ onReceive \/ (\E ok \in BOOLEAN : onActivityResult(ok))
          PROVE  UNCHANGED launched \/ startService(address)
        BY <2>1, Zenon DEF User, Plugin, executeStart, executeStop, pluginDestroyed, userAnswers, isServiceRunning,
           getTunnelManager, restartTunnelSame, restartTunnel, restartTunnelReconnects, signalManager,
           startTunnelService, startTunnelServiceNull, setStartingTunnelManager, stopTunnelService, onReceive,
           onActivityResult, sendBroadcast, serviceVars, androidVars
    <2>2. ASSUME NEW i \in Services, ServiceCallback(i) \/ NativeThread(i) \/ DeviceFails(i) \/ onRevoke(i)
          PROVE  UNCHANGED launched
        BY <2>2, Zenon DEF ServiceCallback, createService, createServiceStops, createServiceReturns, onCreate,
           onDestroy, onDestroyJoined, onStartCommand, onStartCommandEstablished, onStartCommandFailed,
           onRevoke, stopSelf, NativeThread, DeviceFails, aside, androidVars
    <2>3. ASSUME NEW r \in Runs, RunThread(r) PROVE UNCHANGED launched
        BY <2>3, Zenon DEF RunThread, runTunnel, runTunnelBroadcast, runTunnelAwait, runTunnelWake,
           runTunnelFinally, runTunnelStops, runTunnelStopSelf, runTunnelClears, sendBroadcast, stopSelf, androidVars
    <2> QED
        BY <2>1, <2>2, <2>3, Zenon DEF Next, MainLooper
<1>3. CASE startService(address)
    BY <1>1, <1>3, Zenon DEF startService
<1> QED
    BY <1>1, <1>2, <1>3, Zenon

(* Every step keeps what is known of the runTunnel threads.                 *)
LEMMA RunningStep ==
    ASSUME PluginInv, Ordered, Kept, Running, Next
    PROVE  Unstarted' /\ RunsKnown' /\ OwnLatch' /\ Finished'
<1>r. /\ run \in [Runs -> RunSteps] /\ owner \in [Runs -> Services \cup {NoTunnel}]
      /\ m_tunnelThread \in [Services -> Runs \cup {NoRun}] /\ awaits \in [Runs -> Runs \cup {NoRun}]
      /\ launched \subseteq Services
    BY Zenon DEF PluginInv, TypeOK, ServiceTypeOK, AndroidTypeOK
<1>l. ASSUME NEW r \in Runs PROVE owner[r] \in launched \cup {NoTunnel}
    BY <1>r, Zenon DEF PluginInv, Owners, Queue
<1>n. NoTunnel \notin Services
    BY NullsAreNotObjects, OneTunnelPerService, Zenon
<1>s. \A i \in Services : Starts(mainQ', i) => \A r \in Runs : owner[r] # i
    BY <1>r, <1>l, <1>n, Zenon DEF Kept, Running, Unstarted
<1>k. launched \subseteq launched' /\ launched' \subseteq Services
    BY LaunchedGrows, Zenon
<1>e. ASSUME NEW i \in launched', service' # i, ~Has(mainQ', destroy(i))
      PROVE  i \in launched /\ ((Ends(i) /\ ~Starts(mainQ', i)) \/ Over(i))
    BY <1>e, <1>k, Zenon DEF Kept, Running, Finished
<1>f. ASSUME UNCHANGED <<run, owner>> PROVE Unstarted' /\ Finished'
    <2>1. Unstarted'
        BY <1>f, <1>s, Zenon DEF Unstarted
    <2>2. ASSUME NEW i \in launched', service' # i, ~Has(mainQ', destroy(i)) PROVE Over(i)'
        <3>1. i \in Services /\ i \in launched
            BY <1>k, <1>e, <2>2, Zenon
        <3>2. CASE Over(i)
            BY <1>f, <2>2, <3>1, <3>2, Zenon DEF Over, Kept
        <3>3. CASE Ends(i) /\ ~Starts(mainQ', i)
            BY <1>f, <3>1, <3>3, EndsQuietly, Zenon DEF Over, Running
        <3> QED
            BY <1>e, <2>2, <3>2, <3>3, Zenon
    <2> QED
        BY <2>1, <2>2, Zenon DEF Finished
<1>1. CASE UNCHANGED <<run, owner, awaits, m_tunnelThread>>
    BY <1>1, <1>f, Zenon DEF Running, RunsKnown, OwnLatch
<1>2. ASSUME NEW i \in Services, onDestroyJoined(i), UNCHANGED <<run, owner, awaits>>
      PROVE  Unstarted' /\ RunsKnown' /\ OwnLatch' /\ Finished'
    <2>1. \A r \in Runs : owner[r] = i => run[r] = "done"
        BY <1>2, EndsQuietly, Zenon DEF Ends, Running
    <2>2. m_tunnelThread' = [m_tunnelThread EXCEPT ![i] = NoRun]
        BY <1>2, Zenon DEF onDestroyJoined
    <2>3. RunsKnown'
        BY <1>2, <1>r, <1>n, <2>1, <2>2 DEF Running, RunsKnown, PluginInv, Owners
    <2> QED
        BY <1>2, <1>f, <2>3, Zenon DEF Running, OwnLatch
<1>3. ASSUME NEW i \in Services, NEW a \in Addresses, onStartCommandEstablished(i, a), UNCHANGED awaits
      PROVE  Unstarted' /\ RunsKnown' /\ OwnLatch' /\ Finished'
    <2>1. PICK r \in Runs :
            /\ run[r] = "unused"
            /\ run' = [run EXCEPT ![r] = "begin"]
            /\ owner' = [owner EXCEPT ![r] = i]
            /\ m_tunnelThread' = [m_tunnelThread EXCEPT ![i] = r]
        BY <1>3, Zenon DEF onStartCommandEstablished, startTunnel
    <2>2. /\ i \in launched /\ Starts(mainQ, i) /\ \A q \in Runs : owner[q] # i
          /\ \A j : ~Starts(mainQ', j)
        BY <1>3, OnlyRun, Zenon
    <2>3. Unstarted'
        BY <2>2, Zenon DEF Unstarted
    <2>4. RunsKnown'
        BY <1>r, <1>n, <2>1, <2>2 DEF Running, RunsKnown, PluginInv, Owners
    <2>5. OwnLatch'
        BY <1>3, <1>r, <2>1, Zenon DEF Running, OwnLatch
    <2>6. ASSUME NEW j \in launched', service' # j, ~Has(mainQ', destroy(j)) PROVE Over(j)'
        <3>1. j \in launched /\ j \in Services
            BY <1>k, <1>e, <2>6, Zenon
        <3>2. ~Ends(j)
            BY <1>3, Zenon DEF Ends, onDestroy, onDestroyJoined, onStartCommandEstablished, atHead
        <3>3. Over(j)
            BY <1>e, <2>6, <3>2, Zenon
        <3>4. j # i
            BY <2>2, <3>3, Zenon DEF Over
        <3> QED
            BY <1>r, <1>n, <2>1, <2>2, <3>1, <3>3, <3>4, Zenon DEF Over
    <2> QED
        BY <2>3, <2>4, <2>5, <2>6, Zenon DEF Finished
<1>4. ASSUME NEW r \in Runs, RunThread(r), UNCHANGED <<owner, m_tunnelThread>>
      PROVE  Unstarted' /\ RunsKnown' /\ OwnLatch' /\ Finished'
    <2>1. run[r] \notin {"unused", "done"} /\ \E s \in RunSteps : run' = [run EXCEPT ![r] = s] /\ s # run[r]
        BY <1>4, Zenon DEF RunThread, runTunnel, runTunnelBroadcast, runTunnelAwait, runTunnelWake, runTunnelFinally,
           runTunnelStops, runTunnelStopSelf, runTunnelClears, RunSteps, goto
    <2>2. Unstarted'
        BY <1>4, <1>s, Zenon DEF Unstarted
    <2>3. RunsKnown'
        BY <1>4, <1>r, <2>1, Zenon DEF Running, RunsKnown
    <2>4. OwnLatch'
        <3>1. CASE runTunnelAwait(r)
            <4>1. m_tunnelThread[owner[r]] = r
                BY <2>1, Zenon DEF Running, RunsKnown
            <4> QED
                BY <1>r, <3>1, <4>1, NoRunIsNone, Zenon DEF runTunnelAwait, goto, Running, OwnLatch
        <3>2. CASE runTunnelClears(r)
            BY <1>r, <3>2, Zenon DEF runTunnelClears, goto, Running, OwnLatch
        <3>3. CASE ~runTunnelAwait(r) /\ ~runTunnelClears(r)
            <4>1. UNCHANGED awaits
                BY <1>4, <3>3, Zenon DEF RunThread, runTunnel, runTunnelBroadcast, runTunnelWake, runTunnelFinally,
                   runTunnelStops, runTunnelStopSelf
            <4>2. \E s \in RunSteps : run' = [run EXCEPT ![r] = s] /\ s # "waiting"
                BY <1>4, <3>3, Zenon DEF RunThread, runTunnel, runTunnelBroadcast, runTunnelWake, runTunnelFinally,
                   runTunnelStops, runTunnelStopSelf, goto, RunSteps
            <4> QED
                BY <1>r, <4>1, <4>2, Zenon DEF Running, OwnLatch
        <3> QED
            BY <3>1, <3>2, <3>3, Zenon
    <2>5. ASSUME NEW j \in launched', service' # j, ~Has(mainQ', destroy(j)) PROVE Over(j)'
        <3>1. j \in launched /\ j \in Services
            BY <1>k, <1>e, <2>5, Zenon
        <3>2. ~Ends(j)
            <4>1. run'[r] # run[r]
                BY <1>r, <2>1, Zenon
            <4> QED
                BY <3>1, <4>1, EndsQuietly, Zenon DEF Running
        <3>3. Over(j)
            BY <1>e, <2>5, <3>2, Zenon
        <3>4. ~Starts(mainQ', j)
            BY <2>5, <3>1, <3>3, Zenon DEF Kept, Over
        <3>5. owner[r] # j
            BY <2>1, <3>3, Zenon DEF Over
        <3> QED
            BY <1>r, <1>4, <2>1, <3>3, <3>4, <3>5, Zenon DEF Over
    <2> QED
        BY <2>2, <2>3, <2>4, <2>5, Zenon DEF Finished
<1> QED
    BY <1>1, <1>2, <1>3, <1>4, RunEffect, Zenon

(* A tun2socks thread is started and stopped by the runTunnel thread of its *)
(* service.                                                                 *)
LEMMA NativeOwnedStep ==
    ASSUME PluginInv, Ordered, Running, Next
    PROVE  NativeOwned'
<1>r. /\ run \in [Runs -> RunSteps] /\ owner \in [Runs -> Services \cup {NoTunnel}]
      /\ mTun2SocksThread \in [Tunnels -> ThreadStates]
    BY Zenon DEF PluginInv, TypeOK, ServiceTypeOK, TunnelTypeOK
<1>n. NoTunnel \notin Services /\ Services = Tunnels
    BY NullsAreNotObjects, OneTunnelPerService, Zenon
<1>o. NativeOwned
    BY Zenon DEF Running
<1> DEFINE Fewer == \A i \in Services : mTun2SocksThread'[i] # "null" => mTun2SocksThread[i] # "null"
<1>1. ASSUME Fewer, UNCHANGED <<run, owner>> PROVE NativeOwned'
    BY <1>1, <1>o, Zenon DEF NativeOwned
<1>2. ASSUME NEW r \in Runs, RunThread(r) PROVE NativeOwned'
    <2>1. UNCHANGED owner /\ owner[r] \in Services
        BY <1>2, <1>n, Zenon DEF RunThread, runTunnel, runTunnelBroadcast, runTunnelAwait, runTunnelWake,
           runTunnelFinally, runTunnelStops, runTunnelStopSelf, runTunnelClears, PluginInv, Owners, TunnelInv, TunnelTypeOK
    <2>2. ASSUME UNCHANGED mTun2SocksThread,
                 NEW s \in RunSteps, run' = [run EXCEPT ![r] = s], run[r] \in Tunneling => s \in Tunneling
          PROVE  NativeOwned'
        <3>1. \A q \in Runs : run[q] \in Tunneling => run'[q] \in Tunneling
            BY <1>r, <2>2, Zenon
        <3> QED
            BY <1>o, <2>1, <2>2, <3>1, Zenon DEF NativeOwned
    <2>3. ASSUME mTun2SocksThread'[owner[r]] = "null",
                 \A i \in Services \ {owner[r]} : mTun2SocksThread'[i] = mTun2SocksThread[i],
                 NEW s \in RunSteps, run' = [run EXCEPT ![r] = s]
          PROVE  NativeOwned'
        <3>1. \A q \in Runs : owner[q] # owner[r] => run'[q] = run[q]
            BY <1>r, <2>3, Zenon
        <3> QED
            BY <1>o, <2>1, <2>3, <3>1, Zenon DEF NativeOwned
    <2>4. CASE runTunnel(r)
        <3>1. CASE tunnelingStarts(owner[r])
            <4>1. run'[r] = "started" /\ \A q \in Runs \ {r} : run'[q] = run[q]
                BY <1>r, <2>4, <3>1, Zenon DEF runTunnel, goto
            <4>2. \A i \in Services \ {owner[r]} : mTun2SocksThread'[i] = mTun2SocksThread[i]
                BY <1>r, <1>n, <2>4, Zenon DEF runTunnel, startTunneling
            <4>3. run[r] \notin Tunneling /\ "started" \in Tunneling
                BY <2>4, Zenon DEF runTunnel, Tunneling
            <4>4. \A q \in Runs : run[q] \in Tunneling => run'[q] \in Tunneling
                BY <4>1, <4>3, Zenon
            <4>5. run'[r] \in Tunneling
                BY <4>1, <4>3, Zenon
            <4> QED
                BY <1>o, <2>1, <4>2, <4>4, <4>5, Zenon DEF NativeOwned
        <3>2. CASE ~tunnelingStarts(owner[r])
            BY <2>2, <2>4, <3>2, Zenon DEF runTunnel, startTunneling, goto, Tunneling, RunSteps
        <3> QED
            BY <3>1, <3>2, Zenon
    <2>5. CASE runTunnelBroadcast(r) \/ runTunnelAwait(r) \/ runTunnelWake(r) \/ runTunnelFinally(r)
               \/ runTunnelStopSelf(r) \/ runTunnelClears(r)
        <3>1. UNCHANGED mTun2SocksThread
            BY <2>5, Zenon DEF runTunnelBroadcast, runTunnelAwait, runTunnelWake, runTunnelFinally,
               runTunnelStopSelf, runTunnelClears, tunnelVars
        <3>2. PICK s \in RunSteps : run' = [run EXCEPT ![r] = s] /\ (run[r] \in Tunneling => s \in Tunneling)
            BY <2>5, Zenon DEF runTunnelBroadcast, runTunnelAwait, runTunnelWake, runTunnelFinally,
               runTunnelStopSelf, runTunnelClears, goto, Tunneling, RunSteps
        <3> QED
            BY <2>2, <3>1, <3>2, Zenon
    <2>6. CASE runTunnelStops(r)
        <3>1. PICK s \in RunSteps :
                /\ run' = [run EXCEPT ![r] = s]
                /\ \/ s \in Tunneling /\ UNCHANGED mTun2SocksThread
                   \/ mTun2SocksThread[owner[r]] = "null" /\ UNCHANGED mTun2SocksThread
                   \/ mTun2SocksThread' = [mTun2SocksThread EXCEPT ![owner[r]] = "null"]
            BY <2>6, Zenon DEF runTunnelStops, stopTunnelingIdle, stopTun2Socks, stopTunnelingReturns, stopIdle, stopReturns,
               joined, goto, Tunneling, RunSteps, tunnelVars
        <3> QED
            BY <1>r, <1>n, <2>1, <2>2, <2>3, <3>1, Zenon
    <2> QED
        BY <1>2, <2>4, <2>5, <2>6, Zenon DEF RunThread
<1>3. ASSUME NEW i \in Services, NEW a \in Addresses, onStartCommandEstablished(i, a) PROVE NativeOwned'
    <2>1. PICK r \in Runs :
            /\ run[r] = "unused"
            /\ run' = [run EXCEPT ![r] = "begin"]
            /\ owner' = [owner EXCEPT ![r] = i]
        BY <1>3, Zenon DEF onStartCommandEstablished, startTunnel
    <2>2. UNCHANGED mTun2SocksThread
        BY <1>3, Zenon DEF onStartCommandEstablished, startRouting
    <2>3. \A q \in Runs, j \in Services :
            owner[q] = j /\ run[q] \in Tunneling => owner'[q] = j /\ run'[q] \in Tunneling
        BY <1>r, <2>1, Zenon DEF Tunneling
    <2> QED
        BY <1>o, <2>2, <2>3, Zenon DEF NativeOwned
<1>4. ASSUME NEW i \in Services, NativeThread(i) \/ DeviceFails(i) PROVE NativeOwned'
    <2>1. Fewer
        BY <1>r, <1>n, <1>4, Zenon DEF NativeThread, DeviceFails, runTun2Socks, pollTerminate, runReturns, runFails, leave
    <2> QED
        BY <1>1, <1>4, <2>1, Zenon DEF NativeThread, DeviceFails, aside, runVars
<1>5. ASSUME NEW i \in Services, createService(i) \/ createServiceStops(i) \/ createServiceReturns(i) PROVE NativeOwned'
    <2>1. Fewer
        BY <1>r, <1>n, <1>5, Zenon DEF createService, createServiceStops, createServiceReturns, newTunnelFirst, newTunnelIdle,
           newTunnelStops, newTunnelReturns, stopTun2Socks, joined
    <2> QED
        BY <1>1, <1>5, <2>1, Zenon DEF createService, createServiceStops, createServiceReturns, onCreate, runVars
<1>6. ASSUME User \/ (\E t \in PluginThreads : Plugin(t)) \/ onReceive \/ (\E ok \in BOOLEAN : onActivityResult(ok))
             \/ (\E i \in Services : onDestroy(i) \/ onDestroyJoined(i) \/ onRevoke(i)
                    \/ \E a \in Addresses : onStartCommand(i, a) \/ onStartCommandFailed(i, a))
      PROVE  UNCHANGED <<run, owner, mTun2SocksThread>>
    BY <1>6, Zenon DEF User, Plugin, executeStart, executeStop, pluginDestroyed, userAnswers, isServiceRunning,
       getTunnelManager, restartTunnelSame, restartTunnel, restartTunnelReconnects, signalManager,
       startTunnelService, startTunnelServiceNull, setStartingTunnelManager, stopTunnelService, onReceive,
       onActivityResult, onDestroy, onDestroyJoined, onRevoke, onStartCommand, onStartCommandFailed,
       startRoutingFails, serviceVars, runVars, tunnelVars
<1>7. ASSUME UNCHANGED <<run, owner, mTun2SocksThread>> PROVE NativeOwned'
    BY <1>7, <1>o, Zenon DEF NativeOwned
<1> QED
    BY <1>2, <1>3, <1>4, <1>5, <1>6, <1>7, Zenon DEF Next, MainLooper, ServiceCallback

(* The inductive invariant when the consent is given.                       *)
ConsentInv == Launching /\ Ordered /\ Running

(* It holds before the first start().                                       *)
LEMMA ConsentInit == Init => ConsentInv
<1> SUFFICES ASSUME Init PROVE ConsentInv
    OBVIOUS
<1>1. Len(mainQ) = 0 /\ service = NoService /\ launched = {} /\ mainPc = "idle"
    BY Zenon DEF Init, ServiceInit, AndroidInit
<1>2. Launching
    BY <1>1 DEF Init, Launching, NoResult, NotStarting, InPlugin, PluginThreads
<1>3. Ordered
    BY <1>1 DEF Ordered, Quiet, DestroyLast, StartOnce, Handled
<1>4. /\ \A r \in Runs : run[r] = "unused"
      /\ \A i \in Services : mTun2SocksThread[i] = "null"
    BY OneTunnelPerService, Zenon DEF Init, ServiceInit, TunnelInit
<1>5. Running
    BY <1>1, <1>4 DEF Running, Unstarted, RunsKnown, OwnLatch, Finished, NativeOwned, Starts
<1> QED
    BY <1>2, <1>3, <1>5, Zenon DEF ConsentInv

(* Every step keeps it when no consent dialog is shown.                     *)
LEMMA ConsentStep ==
    ASSUME MaxDialogs = 0, PluginInv, ConsentInv, [Next]_vars
    PROVE  ConsentInv'
<1>1. CASE Next
    <2>1. Launching'
        BY <1>1, OneStarter, Zenon DEF ConsentInv
    <2>2. Ordered' /\ Kept
        BY <1>1, OrderedStep, Zenon DEF ConsentInv
    <2>3. Running'
        BY <1>1, <2>2, RunningStep, NativeOwnedStep, Zenon DEF ConsentInv, Running
    <2> QED
        BY <2>1, <2>2, <2>3, Zenon DEF ConsentInv
<1>2. CASE UNCHANGED vars
    BY <1>2, Zenon DEF vars, serviceVars, androidVars, tunnelVars, stateVars, managerVars, runVars, pluginVars,
       ConsentInv, Launching, InPlugin, Ordered, MayStart, Idle, Handled, Running, Unstarted, RunsKnown, OwnLatch,
       Finished, Over, NativeOwned
<1> QED
    BY <1>1, <1>2, Zenon

(* ConsentInv holds when the consent was given before (prepare() returns    *)
(* null), for any number of services, threads and calls.                    *)
THEOREM ConsentInvariance == ASSUME MaxDialogs = 0 PROVE Spec => []ConsentInv
BY PluginInvariance, ConsentInit, ConsentStep, PTL DEF Spec

(* With the consent given, a manager never has two runTunnel threads: the   *)
(* latch that signalStopService counts down is the one its thread waits for *)
(* (TunnelManager.java:99-103, 124-148).                                    *)
THEOREM ThreadsHearSignals == ASSUME MaxDialogs = 0 PROVE Spec => []ThreadHearsSignal
<1>1. ConsentInv => ThreadHearsSignal
    BY Zenon DEF ConsentInv, Running, RunsKnown, OwnLatch, ThreadHearsSignal
<1> QED
    BY <1>1, ConsentInvariance, PTL

(* With the consent given, a destroyed service leaves no runTunnel thread   *)
(* and no tun2socks thread behind (TunnelManager.java:77-93).               *)
THEOREM DestroyedServicesAreQuiet == ASSUME MaxDialogs = 0 PROVE Spec => []DestroyedIsQuiet
<1>1. ConsentInv => DestroyedIsQuiet
    <2> SUFFICES ASSUME ConsentInv, NEW i \in Services, Gone(i)
                 PROVE  /\ \A r \in Runs : owner[r] = i => run[r] = "done"
                        /\ mTun2SocksThread[i] = "null"
        BY Zenon DEF DestroyedIsQuiet
    <2>1. Over(i)
        BY DEF Gone, ConsentInv, Running, Finished, Has
    <2>2. \A r \in Runs : owner[r] = i => run[r] \notin Tunneling
        BY <2>1, Zenon DEF Over, Tunneling
    <2> QED
        BY <2>1, <2>2, Zenon DEF ConsentInv, Running, NativeOwned, Over
<1> QED
    BY <1>1, ConsentInvariance, PTL
=============================================================================
