------------------------------- MODULE Tunnel -------------------------------
(***************************************************************************)
(* Tunnel.java (the VPN interface and the tun2socks thread) together with  *)
(* the two native entry points it calls, runTun2Socks and                  *)
(* terminateTun2Socks (tun2socks.c).                                       *)
(*                                                                         *)
(* Every public method of a Tunnel is synchronized.  The only place where  *)
(* a method blocks while it holds the monitor is the join() in             *)
(* stopTun2Socks, so a call is one atomic step, except that a stopping     *)
(* call that finds a tun2socks thread is two: it signals termination, and  *)
(* it finishes once that thread has exited.  joining[i] names the call     *)
(* that holds the monitor of tunnel i in between.                          *)
(***************************************************************************)
EXTENDS Naturals

CONSTANTS
    Tunnels,    \* the Tunnel objects that are ever constructed
    Fds,        \* the TUN descriptors that establish() ever returns
    NoTunnel,   \* mTunnel == null
    NoFd        \* mTunFd holds null

ASSUME NullsAreNotObjects == NoTunnel \notin Tunnels /\ NoFd \notin Fds

VARIABLES
    created,                \* Tunnel objects constructed so far
    mTunnel,                \* static Tunnel mTunnel
    mTunFd,                 \* per tunnel: AtomicReference mTunFd
    mRoutingThroughTunnel,  \* per tunnel: the routing flag
    mTun2SocksThread,       \* per tunnel: null, or how far its thread has got
    nativeFd,               \* per tunnel: the descriptor its thread was given
    fdState,                \* per descriptor: unused, open or closed
    joining,                \* per tunnel: the call blocked in join(), or "none"
    g_terminate             \* the native termination flag

tunnelVars == <<created, mTunnel, mTunFd, mRoutingThroughTunnel,
                mTun2SocksThread, nativeFd, fdState, joining, g_terminate>>

(* "null": no thread object; "started": start() was called, the flag is not *)
(* yet cleared; "running": inside run(); "leaving": the event loop was told *)
(* to quit; "exited": runTun2Socks returned.                                *)
ThreadStates == {"null", "started", "running", "leaving", "exited"}

StopCalls == {"stopTunneling", "stop", "newTunnel"}

TunnelTypeOK ==
    /\ created \subseteq Tunnels
    /\ mTunnel \in created \cup {NoTunnel}
    /\ mTunFd \in [Tunnels -> Fds \cup {NoFd}]
    /\ mRoutingThroughTunnel \in [Tunnels -> BOOLEAN]
    /\ mTun2SocksThread \in [Tunnels -> ThreadStates]
    /\ nativeFd \in [Tunnels -> Fds \cup {NoFd}]
    /\ fdState \in [Fds -> {"unused", "open", "closed"}]
    /\ joining \in [Tunnels -> StopCalls \cup {"none"}]
    /\ g_terminate \in {0, 1}

TunnelInit ==
    /\ created = {}
    /\ mTunnel = NoTunnel
    /\ mTunFd = [i \in Tunnels |-> NoFd]
    /\ mRoutingThroughTunnel = [i \in Tunnels |-> FALSE]
    /\ mTun2SocksThread = [i \in Tunnels |-> "null"]
    /\ nativeFd = [i \in Tunnels |-> NoFd]
    /\ fdState = [f \in Fds |-> "unused"]
    /\ joining = [i \in Tunnels |-> "none"]
    /\ g_terminate = 0

MonitorFree(i) == joining[i] = "none"
-----------------------------------------------------------------------------
(* startRouting(): establish() yields a descriptor, which replaces whatever *)
(* mTunFd held, and the routing flag is reset.  (onVpnEstablished, called   *)
(* at the end of it, belongs to the caller.)                                *)
startRouting(i) ==
    /\ MonitorFree(i)
    /\ \E f \in Fds :
        /\ fdState[f] = "unused"
        /\ fdState' = [fdState EXCEPT ![f] = "open"]
        /\ mTunFd' = [mTunFd EXCEPT ![i] = f]
    /\ mRoutingThroughTunnel' = [mRoutingThroughTunnel EXCEPT ![i] = FALSE]
    /\ UNCHANGED <<created, mTunnel, mTun2SocksThread, nativeFd, joining, g_terminate>>

(* startRouting() that returns false (establish() gave null) or throws (no  *)
(* private address, or the builder refused).                                *)
startRoutingFails(i) ==
    /\ MonitorFree(i)
    /\ UNCHANGED tunnelVars

(* The answer of startTunneling(): the compareAndSet on the routing flag    *)
(* must succeed and there must be a descriptor.                             *)
tunnelingStarts(i) == ~mRoutingThroughTunnel[i] /\ mTunFd[i] # NoFd

(* startTunneling(): the flag ends up set in every case; startTun2Socks     *)
(* starts a thread only when there is none.                                 *)
startTunneling(i) ==
    /\ MonitorFree(i)
    /\ mRoutingThroughTunnel' = [mRoutingThroughTunnel EXCEPT ![i] = TRUE]
    /\ IF tunnelingStarts(i) /\ mTun2SocksThread[i] = "null"
       THEN /\ mTun2SocksThread' = [mTun2SocksThread EXCEPT ![i] = "started"]
            /\ nativeFd' = [nativeFd EXCEPT ![i] = mTunFd[i]]
       ELSE UNCHANGED <<mTun2SocksThread, nativeFd>>
    /\ UNCHANGED <<created, mTunnel, mTunFd, fdState, joining, g_terminate>>

(* terminateTun2Socks() and the beginning of join(), inside call c.         *)
stopTun2Socks(i, c) ==
    /\ MonitorFree(i)
    /\ mTun2SocksThread[i] # "null"
    /\ g_terminate' = 1
    /\ joining' = [joining EXCEPT ![i] = c]
    /\ UNCHANGED <<created, mTunnel, mTunFd, mRoutingThroughTunnel,
                   mTun2SocksThread, nativeFd, fdState>>

(* stopVpn after the join: getAndSet(null) and close().                     *)
closeTunFd(i) ==
    /\ mTunFd' = [mTunFd EXCEPT ![i] = NoFd]
    /\ fdState' = [f \in Fds |-> IF f = mTunFd[i] THEN "closed" ELSE fdState[f]]

(* A stopping call on a tunnel without a thread: nothing to join.           *)
stopTunnelingIdle(i) ==
    /\ MonitorFree(i)
    /\ mTun2SocksThread[i] = "null"
    /\ UNCHANGED tunnelVars

(* Mutant: the descriptor is closed without stopping tun2socks first.       *)
stopIdleEarly(i) ==
    /\ MonitorFree(i)
    /\ closeTunFd(i)
    /\ UNCHANGED <<created, mTunnel, mRoutingThroughTunnel, mTun2SocksThread,
                   nativeFd, joining, g_terminate>>

stopIdle(i) ==
    /\ MonitorFree(i)
    /\ mTun2SocksThread[i] = "null"
    /\ closeTunFd(i)
    /\ UNCHANGED <<created, mTunnel, mRoutingThroughTunnel, mTun2SocksThread,
                   nativeFd, joining, g_terminate>>

(* join() returned: the thread is forgotten, the flag reset; stop() then    *)
(* closes the descriptor.                                                   *)
joined(i) ==
    /\ mTun2SocksThread[i] = "exited"
    /\ joining' = [joining EXCEPT ![i] = "none"]
    /\ mTun2SocksThread' = [mTun2SocksThread EXCEPT ![i] = "null"]
    /\ mRoutingThroughTunnel' = [mRoutingThroughTunnel EXCEPT ![i] = FALSE]
    /\ UNCHANGED <<nativeFd, g_terminate>>

stopTunnelingReturns(i) ==
    /\ joining[i] = "stopTunneling"
    /\ joined(i)
    /\ UNCHANGED <<created, mTunnel, mTunFd, fdState>>

stopReturns(i) ==
    /\ joining[i] = "stop"
    /\ joined(i)
    /\ closeTunFd(i)
    /\ UNCHANGED <<created, mTunnel>>

(* newTunnel(): the previous Tunnel is stopped before the new one becomes   *)
(* mTunnel.                                                                 *)
construct(n) ==
    /\ n \in Tunnels \ created
    /\ created' = created \cup {n}
    /\ mTunnel' = n

(* Mutant: the previous Tunnel is not stopped.                              *)
newTunnelForgets(n) ==
    /\ construct(n)
    /\ UNCHANGED <<mTunFd, mRoutingThroughTunnel, mTun2SocksThread, nativeFd,
                   fdState, joining, g_terminate>>

newTunnelFirst(n) ==
    /\ mTunnel = NoTunnel
    /\ construct(n)
    /\ UNCHANGED <<mTunFd, mRoutingThroughTunnel, mTun2SocksThread, nativeFd,
                   fdState, joining, g_terminate>>

newTunnelIdle(n) ==
    /\ mTunnel # NoTunnel
    /\ MonitorFree(mTunnel)
    /\ mTun2SocksThread[mTunnel] = "null"
    /\ closeTunFd(mTunnel)
    /\ construct(n)
    /\ UNCHANGED <<mRoutingThroughTunnel, mTun2SocksThread, nativeFd, joining, g_terminate>>

newTunnelStops ==
    /\ mTunnel # NoTunnel
    /\ stopTun2Socks(mTunnel, "newTunnel")

newTunnelReturns(n) ==
    /\ mTunnel # NoTunnel
    /\ joining[mTunnel] = "newTunnel"
    /\ joined(mTunnel)
    /\ closeTunFd(mTunnel)
    /\ construct(n)
-----------------------------------------------------------------------------
(* The native thread.  runTun2Socks clears the flag, then enters run().     *)
runTun2Socks(i) ==
    /\ mTun2SocksThread[i] = "started"
    /\ g_terminate' = 0
    /\ mTun2SocksThread' = [mTun2SocksThread EXCEPT ![i] = "running"]
    /\ UNCHANGED <<created, mTunnel, mTunFd, mRoutingThroughTunnel, nativeFd,
                   fdState, joining>>

leave(i) ==
    /\ mTun2SocksThread[i] = "running"
    /\ mTun2SocksThread' = [mTun2SocksThread EXCEPT ![i] = "leaving"]
    /\ UNCHANGED <<created, mTunnel, mTunFd, mRoutingThroughTunnel, nativeFd,
                   fdState, joining, g_terminate>>

(* tcp_timer_handler polls the flag on every tick.                          *)
pollTerminate(i) == g_terminate = 1 /\ leave(i)

(* run() also ends when its initialisation fails, and when reading or       *)
(* writing the TUN descriptor fails (device_error_handler).                 *)
runFails(i) == leave(i)

(* run() frees everything and runTun2Socks returns.                         *)
runReturns(i) ==
    /\ mTun2SocksThread[i] = "leaving"
    /\ mTun2SocksThread' = [mTun2SocksThread EXCEPT ![i] = "exited"]
    /\ UNCHANGED <<created, mTunnel, mTunFd, mRoutingThroughTunnel, nativeFd,
                   fdState, joining, g_terminate>>
-----------------------------------------------------------------------------
(* Any sequence of calls that the class allows: startRouting only on the    *)
(* Tunnel that newTunnel returned last (a service starts its own Tunnel     *)
(* before the next service can be created).                                 *)
Call(i) ==
    \/ i = mTunnel /\ startRouting(i)
    \/ i = mTunnel /\ startRoutingFails(i)
    \/ startTunneling(i)
    \/ stopTun2Socks(i, "stopTunneling")
    \/ stopTun2Socks(i, "stop")
    \/ stopTunnelingIdle(i)
    \/ stopIdle(i)
    \/ stopTunnelingReturns(i)
    \/ stopReturns(i)

NewTunnel ==
    \/ newTunnelStops
    \/ \E n \in Tunnels : newTunnelFirst(n) \/ newTunnelIdle(n) \/ newTunnelReturns(n)

Native(i) == runTun2Socks(i) \/ pollTerminate(i) \/ runFails(i) \/ runReturns(i)

TunnelNext ==
    \/ NewTunnel
    \/ \E i \in created : Call(i)
    \/ \E i \in Tunnels : Native(i)

TunnelSpec == TunnelInit /\ [][TunnelNext]_tunnelVars

(* The tun2socks thread is scheduled and its TCP timer keeps ticking.       *)
TunnelFairSpec ==
    /\ TunnelSpec
    /\ \A i \in Tunnels :
        WF_tunnelVars(runTun2Socks(i) \/ pollTerminate(i) \/ runReturns(i))
-----------------------------------------------------------------------------
Live(i) == mTun2SocksThread[i] \in {"started", "running", "leaving"}

(* At most one tun2socks thread exists in the process: two of them would    *)
(* share the globals of tun2socks.c and g_terminate (Tunnel.java:69-71).    *)
OneNativeThread == \A i, j \in Tunnels : Live(i) /\ Live(j) => i = j

(* The descriptor a tun2socks thread was given stays open for as long as    *)
(* the thread can read or write it: stopVpn closes only after the join, and *)
(* no other Tunnel closes it (Tunnel.java:226-236).                         *)
DeviceOpenWhileUsed == \A i \in Tunnels : Live(i) => fdState[nativeFd[i]] = "open"

(* A superseded Tunnel is inert: no thread, no descriptor, nobody waiting   *)
(* on it.  What an old service still does with it cannot disturb the        *)
(* current one (Tunnel.java:73-79).                                         *)
SupersededIsInert ==
    \A i \in created \ {mTunnel} :
        mTun2SocksThread[i] = "null" /\ mTunFd[i] = NoFd /\ joining[i] = "none"

(* A step never closes a descriptor while any tun2socks thread is alive.    *)
CloseOnlyWhenQuiet ==
    [][(\E f \in Fds : fdState[f] = "open" /\ fdState'[f] = "closed")
          => \A i \in Tunnels : ~Live(i)]_tunnelVars

(* Tun2SocksJni.java:21-22, "It's safe to call terminateTun2Socks from a    *)
(* different thread": the thread that is being joined exits.  It does not   *)
(* when the signal precedes the reset of the flag in runTun2Socks.          *)
TerminateIsHeard ==
    \A i \in Tunnels :
        (joining[i] # "none") ~> mTun2SocksThread[i] \in {"exited", "null"}
=============================================================================
