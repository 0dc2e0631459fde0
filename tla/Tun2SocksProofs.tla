-------------------------- MODULE Tun2SocksProofs --------------------------
(***************************************************************************)
(* The Java side, for any number of Tunnel objects, descriptors, services, *)
(* threads and calls.  First the Tunnel class under any legal use: one     *)
(* tun2socks thread, on an open descriptor, closed only when it is gone.   *)
(* Then plugin, service and manager: they use Tunnel legally, TunnelState  *)
(* never shows a dead manager.                                             *)
(***************************************************************************)
EXTENDS Tun2Socks, Integers, TLAPS

(* The inductive invariant.  Everything that matters hangs on the static    *)
(* mTunnel: only that Tunnel has a thread or a descriptor, its descriptor   *)
(* is open, and the one its thread was given is open too.                   *)
OnlyCurrent ==
    \A i \in Tunnels :
        /\ mTun2SocksThread[i] # "null" => i = mTunnel
        /\ mTunFd[i] # NoFd => i = mTunnel
        /\ joining[i] # "none" => mTun2SocksThread[i] # "null"

(* The descriptor of a Tunnel is open, and so is the one its thread was     *)
(* given.                                                                   *)
HeldOpen ==
    \A i \in Tunnels :
        /\ mTunFd[i] # NoFd => fdState[mTunFd[i]] = "open"
        /\ Live(i) => nativeFd[i] \in Fds /\ fdState[nativeFd[i]] = "open"

(* The inductive invariant of the Tunnel class.                             *)
TunnelInv == TunnelTypeOK /\ OnlyCurrent /\ HeldOpen

(* Before any call (all fields null, every descriptor unused) the invariant *)
(* holds.                                                                   *)
LEMMA InitInv == TunnelInit => TunnelInv
BY NullsAreNotObjects DEF TunnelInit, TunnelInv, TunnelTypeOK, OnlyCurrent, HeldOpen, Live, ThreadStates

(* The methods called on a Tunnel by the service and by the runTunnel       *)
(* thread keep the invariant.                                               *)
LEMMA CallInv ==
    ASSUME TunnelInv, NEW i \in created, Call(i)
    PROVE  TunnelInv'
<1> USE NullsAreNotObjects DEF TunnelInv, TunnelTypeOK, OnlyCurrent, HeldOpen, Live,
        ThreadStates, StopCalls, MonitorFree
<1>1. CASE i = mTunnel /\ startRouting(i)
    BY <1>1 DEF startRouting
<1>2. CASE i = mTunnel /\ startRoutingFails(i)
    BY <1>2, Zenon DEF startRoutingFails, tunnelVars
<1>3. CASE startTunneling(i)
    BY <1>3 DEF startTunneling, tunnelingStarts
<1>4. CASE stopTun2Socks(i, "stopTunneling") \/ stopTun2Socks(i, "stop")
    BY <1>4 DEF stopTun2Socks
<1>5. CASE stopTunnelingIdle(i)
    BY <1>5, Zenon DEF stopTunnelingIdle, tunnelVars
<1>6. CASE stopIdle(i)
    BY <1>6 DEF stopIdle, closeTunFd
<1>7. CASE stopTunnelingReturns(i)
    BY <1>7 DEF stopTunnelingReturns, joined
<1>8. CASE stopReturns(i)
    BY <1>8 DEF stopReturns, joined, closeTunFd
<1> QED
    BY <1>1, <1>2, <1>3, <1>4, <1>5, <1>6, <1>7, <1>8, Zenon DEF Call

(* newTunnel keeps the invariant: the Tunnel it supersedes has been stopped *)
(* and its descriptor closed when mTunnel changes.                          *)
LEMMA NewTunnelInv ==
    ASSUME TunnelInv, NewTunnel
    PROVE  TunnelInv'
<1> USE NullsAreNotObjects DEF TunnelInv, TunnelTypeOK, OnlyCurrent, HeldOpen, Live,
        ThreadStates, StopCalls, MonitorFree
<1>1. CASE newTunnelStops
    BY <1>1, Zenon DEF newTunnelStops, stopTun2Socks
<1>2. ASSUME NEW n \in Tunnels, newTunnelFirst(n)
      PROVE  TunnelInv'
    BY <1>2 DEF newTunnelFirst, construct
<1>3. ASSUME NEW n \in Tunnels, newTunnelIdle(n)
      PROVE  TunnelInv'
    BY <1>3 DEF newTunnelIdle, construct, closeTunFd
<1>4. ASSUME NEW n \in Tunnels, newTunnelReturns(n)
      PROVE  TunnelInv'
    BY <1>4 DEF newTunnelReturns, construct, closeTunFd, joined
<1> QED
    BY <1>1, <1>2, <1>3, <1>4, Zenon DEF NewTunnel

(* The steps of the tun2socks thread keep the invariant.                    *)
LEMMA NativeInv ==
    ASSUME TunnelInv, NEW i \in Tunnels, Native(i)
    PROVE  TunnelInv'
<1> USE DEF TunnelInv, TunnelTypeOK, OnlyCurrent, HeldOpen, Live, ThreadStates
<1>1. CASE runTun2Socks(i)
    BY <1>1 DEF runTun2Socks
<1>2. CASE pollTerminate(i) \/ runFails(i)
    BY <1>2 DEF pollTerminate, runFails, leave
<1>3. CASE runReturns(i)
    BY <1>3 DEF runReturns
<1> QED
    BY <1>1, <1>2, <1>3, Zenon DEF Native

(* Every step of a Tunnel keeps the invariant.                              *)
LEMMA TunnelStep ==
    ASSUME TunnelInv, [TunnelNext]_tunnelVars
    PROVE  TunnelInv'
<1>1. CASE UNCHANGED tunnelVars
    BY <1>1 DEF tunnelVars, TunnelInv, TunnelTypeOK, OnlyCurrent, HeldOpen, Live
<1>2. CASE TunnelNext
    BY <1>2, CallInv, NewTunnelInv, NativeInv DEF TunnelNext
<1> QED
    BY <1>1, <1>2

(* TunnelInv holds throughout every sequence of calls.                      *)
THEOREM TunnelInvariance == TunnelSpec => []TunnelInv
BY InitInv, TunnelStep, PTL DEF TunnelSpec

(* Every field keeps its Java type, and mTunnel is null or a constructed    *)
(* Tunnel.                                                                  *)
THEOREM TunnelTypes == TunnelSpec => []TunnelTypeOK
BY TunnelInvariance, PTL DEF TunnelInv

(* At most one tun2socks thread exists in the process (Tunnel.java:69-71).  *)
THEOREM AtMostOneNativeThread == TunnelSpec => []OneNativeThread
<1>1. TunnelInv => OneNativeThread
    BY Zenon DEF TunnelInv, OnlyCurrent, OneNativeThread, Live
<1> QED
    BY TunnelInvariance, <1>1, PTL

(* A tun2socks thread never works on a closed descriptor                    *)
(* (Tunnel.java:226-236, 255-271).                                          *)
THEOREM DeviceStaysOpen == TunnelSpec => []DeviceOpenWhileUsed
<1>1. TunnelInv => DeviceOpenWhileUsed
    BY Zenon DEF TunnelInv, HeldOpen, DeviceOpenWhileUsed
<1> QED
    BY TunnelInvariance, <1>1, PTL

(* A superseded Tunnel has no thread, no descriptor and no waiting caller   *)
(* (Tunnel.java:73-79).                                                     *)
THEOREM OldTunnelsAreInert == TunnelSpec => []SupersededIsInert
<1>1. TunnelInv => SupersededIsInert
    BY Zenon DEF TunnelInv, TunnelTypeOK, OnlyCurrent, SupersededIsInert
<1> QED
    BY TunnelInvariance, <1>1, PTL

(* No step closes a descriptor while a tun2socks thread is alive: close()   *)
(* comes after the join, in whichever call makes it.                        *)
THEOREM ClosesOnlyWhenQuiet == TunnelSpec => CloseOnlyWhenQuiet
<1> DEFINE Closes == \E f \in Fds : fdState[f] = "open" /\ fdState'[f] = "closed"
           Silent == \A i \in Tunnels : ~Live(i)
<1>1. ASSUME TunnelInv, TunnelNext, Closes
      PROVE  Silent
    <2>1. ASSUME NEW i \in created, Call(i)
          PROVE  Silent
        <3>1. stopIdle(i) \/ stopReturns(i)
            BY <1>1, <2>1, Zenon DEF Call, startRouting, startRoutingFails, startTunneling, stopTun2Socks,
               stopTunnelingIdle, stopTunnelingReturns, tunnelVars, TunnelInv, TunnelTypeOK
        <3>2. \E f \in Fds : f = mTunFd[i]
            BY <1>1, <3>1, Zenon DEF stopIdle, stopReturns, closeTunFd, TunnelInv, TunnelTypeOK
        <3> QED
            BY <1>1, <3>1, <3>2, NullsAreNotObjects, Zenon
               DEF stopIdle, stopReturns, joined, TunnelInv, TunnelTypeOK, OnlyCurrent, Live
    <2>2. CASE NewTunnel
        BY <1>1, <2>2, Zenon DEF NewTunnel, newTunnelStops, newTunnelFirst, newTunnelIdle,
           newTunnelReturns, stopTun2Socks, joined, TunnelInv, TunnelTypeOK, OnlyCurrent, Live
    <2>3. ASSUME NEW i \in Tunnels, Native(i)
          PROVE  Silent
        BY <1>1, <2>3, Zenon DEF Native, runTun2Socks, pollTerminate, runFails, leave, runReturns
    <2> QED
        BY <1>1, <2>1, <2>2, <2>3, Zenon DEF TunnelNext
<1>2. TunnelInv /\ [TunnelNext]_tunnelVars => [Closes => Silent]_tunnelVars
    BY <1>1, Zenon DEF tunnelVars
<1> QED
    BY TunnelInvariance, <1>2, PTL DEF TunnelSpec, CloseOnlyWhenQuiet
-----------------------------------------------------------------------------
(* The Tunnel that mTunnel will be when message k is handled is i's:        *)
(* newTunnel of an earlier create message in the queue, or the present one. *)
Current(q, t, k, i) ==
    \/ i = t /\ \A n \in 1..(k - 1) : q[n].what # "create"
    \/ \E m \in 1..(k - 1) :
        /\ q[m] = create(i)
        /\ \A n \in (m + 1)..(k - 1) : q[n].what # "create"

(* The main queue: start commands and destructions are for the Tunnel that  *)
(* is mTunnel by then, a service is created once, and the started service   *)
(* is the one created last.                                                 *)
QueueInv(q, t, s, L, C) ==
    /\ q \in Seq(Messages)
    /\ \A k \in 1..Len(q) :
        q[k].what \in {"startCommand", "destroy"} =>
            q[k].who \in L /\ Current(q, t, k, q[k].who)
    /\ \A k \in 1..Len(q) :
        q[k].what = "create" =>
            q[k].who \in L \ C /\ \A m \in 1..Len(q) : q[m] = q[k] => m = k
    /\ s # NoService => Current(q, t, Len(q) + 1, s)

(* Message m is in the queue.                                               *)
Has(q, m) == \E k \in 1..Len(q) : q[k] = m

(* Current depends only on the messages before k.                           *)
LEMMA CurrentExtends ==
    ASSUME NEW q, NEW p, NEW t, NEW i, NEW k \in Int,
           \A n \in 1..(k - 1) : p[n] = q[n], Current(q, t, k, i)
    PROVE  Current(p, t, k, i)
BY DEF Current, create

(* A message that creates nothing does not change the current Tunnel.       *)
LEMMA CurrentAfter ==
    ASSUME NEW q, NEW t, NEW i, NEW k \in Int, k > 0,
           q[k].what # "create", Current(q, t, k, i)
    PROVE  Current(q, t, k + 1, i)
BY DEF Current, create

(* Handling a message that creates nothing keeps what is current later.     *)
LEMMA CurrentTail ==
    ASSUME NEW q, NEW p, NEW t, NEW i, NEW k \in Int, k > 0,
           \A n \in 1..(k - 1) : p[n] = q[n + 1], Current(q, t, k + 1, i),
           q[1].what # "create"
    PROVE  Current(p, t, k, i)
<1>1. CASE i = t /\ \A n \in 1..k : q[n].what # "create"
    BY <1>1 DEF Current
<1>2. ASSUME NEW m \in 1..k, q[m] = create(i), \A n \in (m + 1)..k : q[n].what # "create"
      PROVE  Current(p, t, k, i)
    <2>1. m # 1
        BY <1>2 DEF create
    <2>2. p[m - 1] = create(i) /\ \A n \in ((m - 1) + 1)..(k - 1) : p[n].what # "create"
        BY <1>2, <2>1
    <2> QED
        BY <1>2, <2>1, <2>2 DEF Current
<1> QED
    BY <1>1, <1>2 DEF Current

(* Handling a create message makes its Tunnel the present one (newTunnel).  *)
LEMMA CurrentCreate ==
    ASSUME NEW q, NEW p, NEW t, NEW i, NEW j, NEW k \in Int, k > 0,
           \A n \in 1..(k - 1) : p[n] = q[n + 1], Current(q, t, k + 1, i),
           q[1] = create(j)
    PROVE  Current(p, j, k, i)
<1>1. ~(\A n \in 1..k : q[n].what # "create")
    BY DEF create
<1>2. PICK m \in 1..k : q[m] = create(i) /\ \A n \in (m + 1)..k : q[n].what # "create"
    BY <1>1 DEF Current
<1>3. CASE m = 1
    <2>1. i = j
        BY <1>2, <1>3 DEF create
    <2> QED
        BY <1>2, <1>3, <2>1 DEF Current
<1>4. CASE m # 1
    <2>2. p[m - 1] = create(i) /\ \A n \in ((m - 1) + 1)..(k - 1) : p[n].what # "create"
        BY <1>2, <1>4
    <2> QED
        BY <1>4, <2>2 DEF Current
<1> QED
    BY <1>3, <1>4, Zenon

(* What Append, Tail and \o do to the main queue.                          *)
LEMMA Appended ==
    ASSUME NEW q \in Seq(Messages), NEW m \in Messages
    PROVE  /\ Append(q, m) \in Seq(Messages)
           /\ Len(q) \in Nat /\ Len(Append(q, m)) = Len(q) + 1
           /\ \A k \in 1..Len(q) : Append(q, m)[k] = q[k]
           /\ Append(q, m)[Len(q) + 1] = m
OBVIOUS

(* What the looper sees of a queue that is not empty, and what it leaves.   *)
LEMMA Dequeued ==
    ASSUME NEW S, NEW q \in Seq(S), q # <<>>
    PROVE  /\ Tail(q) \in Seq(S)
           /\ Len(q) \in Nat /\ Len(q) > 0 /\ Len(Tail(q)) = Len(q) - 1
           /\ \A k \in 1..(Len(q) - 1) : Tail(q)[k] = q[k + 1]
           /\ Head(q) = q[1]
OBVIOUS

(* Posting a message adds that message only.                                *)
LEMMA HasAppended ==
    ASSUME NEW q \in Seq(Messages), NEW m \in Messages, NEW x
    PROVE  Has(Append(q, m), x) <=> Has(q, x) \/ x = m
BY Appended DEF Has

(* Handling a message takes away the first one only.                        *)
LEMMA HasDequeued ==
    ASSUME NEW q \in Seq(Messages), q # <<>>, NEW x
    PROVE  Has(q, x) <=> q[1] = x \/ Has(Tail(q), x)
<1> DEFINE p == Tail(q)
<1>0. /\ Len(q) \in Nat /\ Len(q) > 0 /\ Len(p) = Len(q) - 1
      /\ \A k \in 1..(Len(q) - 1) : p[k] = q[k + 1]
    BY Dequeued, Zenon
<1> HIDE DEF p
<1>1. ASSUME Has(q, x), q[1] # x PROVE Has(p, x)
    <2>1. PICK k \in 1..Len(q) : q[k] = x
        BY <1>1, Zenon DEF Has
    <2> QED
        BY <1>0, <1>1, <2>1, k - 1 \in 1..Len(p), p[k - 1] = x, Zenon DEF Has
<1>2. ASSUME Has(p, x) PROVE Has(q, x)
    BY <1>0, <1>2 DEF Has
<1>3. ASSUME q[1] = x PROVE Has(q, x)
    BY <1>0, <1>3 DEF Has
<1> QED
    BY <1>1, <1>2, <1>3, Zenon DEF p

(* What a message of each kind carries.                                    *)
LEMMA MessageKinds ==
    ASSUME NEW m \in Messages
    PROVE  /\ m.what = "create" => \E i \in Services : m = create(i)
           /\ m.what = "destroy" => \E i \in Services : m = destroy(i)
           /\ m.what = "startCommand" => \E i \in Services, a \in Addresses : m = startCmd(i, a)
           /\ m.what = "activityResult" => \E ok \in BOOLEAN : m = result(ok)
           /\ m.what = "broadcasts" => m = execPending
           /\ m.what \in {"create", "destroy", "startCommand", "activityResult", "broadcasts"}
BY DEF Messages, create, destroy, startCmd, result, execPending

(* A consent result or a broadcast message in the queue disturbs nothing.   *)
LEMMA QueueAppends ==
    ASSUME NEW q, NEW t, NEW s, NEW L, NEW C, QueueInv(q, t, s, L, C),
           NEW m \in Messages, m.what \in {"activityResult", "broadcasts"}
    PROVE  QueueInv(Append(q, m), t, s, L, C)
<1> DEFINE p == Append(q, m)
<1>1. /\ q \in Seq(Messages) /\ p \in Seq(Messages) /\ Len(q) \in Nat /\ Len(p) = Len(q) + 1
      /\ \A k \in 1..Len(q) : p[k] = q[k]
      /\ p[Len(q) + 1] = m
    BY Appended DEF QueueInv
<1> HIDE DEF p
<1>2. ASSUME NEW k \in 1..Len(p), p[k].what \in {"startCommand", "destroy"}
      PROVE  p[k].who \in L /\ Current(p, t, k, p[k].who)
    <2>1. k \in 1..Len(q)
        BY <1>1, <1>2
    <2>2. p[k].who \in L /\ Current(q, t, k, p[k].who)
        BY <1>1, <1>2, <2>1, Zenon DEF QueueInv
    <2> QED
        BY <1>1, <2>1, <2>2, CurrentExtends
<1>3. ASSUME NEW k \in 1..Len(p), p[k].what = "create"
      PROVE  p[k].who \in L \ C /\ \A n \in 1..Len(p) : p[n] = p[k] => n = k
    BY <1>1, <1>3 DEF QueueInv
<1>4. ASSUME s # NoService PROVE Current(p, t, Len(p) + 1, s)
    <2>1. Current(p, t, Len(q) + 1, s)
        BY <1>1, <1>4, CurrentExtends DEF QueueInv
    <2>2. p[Len(q) + 1].what # "create" /\ Len(q) + 1 \in Int /\ Len(q) + 1 > 0
        BY <1>1
    <2>3. Current(p, t, (Len(q) + 1) + 1, s)
        BY <2>1, <2>2, CurrentAfter, Zenon
    <2> QED
        BY <1>1, <2>3, Zenon
<1>5. QueueInv(p, t, s, L, C)
    BY <1>1, <1>2, <1>3, <1>4, Zenon DEF QueueInv
<1> QED
    BY <1>5, Zenon DEF p

(* A start command or a destruction may be posted for the started service.  *)
LEMMA QueueSends ==
    ASSUME NEW q, NEW t, NEW L, NEW C, NEW s \in L, L \subseteq Services, QueueInv(q, t, s, L, C),
           NEW m \in Messages, m.what \in {"startCommand", "destroy"}, m.who = s,
           NEW s2 \in {s, NoService}
    PROVE  QueueInv(Append(q, m), t, s2, L, C)
<1> DEFINE p == Append(q, m)
<1>1. /\ q \in Seq(Messages) /\ p \in Seq(Messages) /\ Len(q) \in Nat /\ Len(p) = Len(q) + 1
      /\ \A k \in 1..Len(q) : p[k] = q[k]
      /\ p[Len(q) + 1] = m
    BY Appended DEF QueueInv
<1> HIDE DEF p
<1>2. ASSUME NEW k \in 1..Len(q), p[k].what \in {"startCommand", "destroy"}
      PROVE  p[k].who \in L /\ Current(p, t, k, p[k].who)
    <2>2. p[k].who \in L /\ Current(q, t, k, p[k].who)
        BY <1>1, <1>2, Zenon DEF QueueInv
    <2> QED
        BY <1>1, <2>2, CurrentExtends
<1>3. Current(p, t, Len(q) + 1, s)
    BY <1>1, NoServiceIsNone, CurrentExtends DEF QueueInv
<1>4. Current(p, t, Len(p) + 1, s)
    <2>1. p[Len(q) + 1].what # "create" /\ Len(q) + 1 \in Int /\ Len(q) + 1 > 0
        BY <1>1
    <2>2. Current(p, t, (Len(q) + 1) + 1, s)
        BY <1>3, <2>1, CurrentAfter, Zenon
    <2> QED
        BY <1>1, <2>2, Zenon
<1>5. ASSUME NEW k \in 1..Len(p), p[k].what = "create"
      PROVE  p[k].who \in L \ C /\ \A n \in 1..Len(p) : p[n] = p[k] => n = k
    BY <1>1, <1>5 DEF QueueInv
<1>6. ASSUME NEW k \in 1..Len(p), p[k].what \in {"startCommand", "destroy"}
      PROVE  p[k].who \in L /\ Current(p, t, k, p[k].who)
    BY <1>1, <1>2, <1>3, <1>6
<1>7. QueueInv(p, t, s2, L, C)
    BY <1>1, <1>4, <1>5, <1>6, Zenon DEF QueueInv
<1> QED
    BY <1>7, Zenon DEF p

(* startService with no service started posts the creation of a fresh one.  *)
LEMMA QueueLaunches ==
    ASSUME NEW q, NEW t, NEW L, NEW C, L \subseteq Services, C \subseteq L,
           QueueInv(q, t, NoService, L, C), NEW i \in Services \ L, NEW a \in Addresses
    PROVE  QueueInv(q \o <<create(i), startCmd(i, a)>>, t, i, L \cup {i}, C)
<1> DEFINE p == q \o <<create(i), startCmd(i, a)>>
           n == Len(q)
<1>0. create(i) \in Messages /\ startCmd(i, a) \in Messages
    BY DEF Messages
<1>1. /\ q \in Seq(Messages) /\ p \in Seq(Messages) /\ n \in Nat /\ Len(p) = n + 2
      /\ \A k \in 1..n : p[k] = q[k]
      /\ p[n + 1] = create(i) /\ p[n + 2] = startCmd(i, a)
    BY <1>0 DEF QueueInv
<1> HIDE DEF p, n
<1>2. Current(p, t, n + 2, i)
    BY <1>1 DEF Current
<1>3. Current(p, t, n + 3, i)
    BY <1>1, <1>2, CurrentAfter DEF startCmd
<1>4. ASSUME NEW k \in 1..n, p[k].what \in {"startCommand", "destroy"}
      PROVE  p[k].who \in L /\ Current(p, t, k, p[k].who)
    <2>2. p[k].who \in L /\ Current(q, t, k, p[k].who)
        BY <1>1, <1>4, Zenon DEF QueueInv, n
    <2> QED
        BY <1>1, <2>2, CurrentExtends
<1>5. ASSUME NEW k \in 1..Len(p), p[k].what \in {"startCommand", "destroy"}
      PROVE  p[k].who \in L \cup {i} /\ Current(p, t, k, p[k].who)
    BY <1>1, <1>2, <1>4, <1>5 DEF create, startCmd
<1>6. ASSUME NEW k \in 1..n, p[k].what = "create"
      PROVE  p[k].who \in L \ C /\ p[k].who # i /\ \A m \in 1..n : p[m] = p[k] => m = k
    BY <1>1, <1>6 DEF QueueInv, n
<1>7. ASSUME NEW k \in 1..Len(p), p[k].what = "create"
      PROVE  p[k].who \in (L \cup {i}) \ C /\ \A m \in 1..Len(p) : p[m] = p[k] => m = k
    <2>1. CASE k \in 1..n
        <3>1. p[k].who \in L \ C /\ p[k].who # i /\ \A m \in 1..n : p[m] = p[k] => m = k
            BY <1>6, <1>7, <2>1, Zenon
        <3>2. p[n + 1] # p[k] /\ p[n + 2] # p[k]
            BY <1>1, <1>7, <3>1 DEF create, startCmd
        <3> QED
            BY <1>1, <3>1, <3>2
    <2>2. CASE k = n + 1
        <3>1. ASSUME NEW m \in 1..n PROVE p[m] # create(i)
            BY <1>6, <3>1 DEF create
        <3> QED
            BY <1>1, <2>2, <3>1 DEF create, startCmd
    <2> QED
        <3>1. k # n + 2
            BY <1>1, <1>7 DEF startCmd
        <3> QED
            BY <1>1, <3>1, <2>1, <2>2
<1>8. QueueInv(p, t, i, L \cup {i}, C)
    BY <1>1, <1>3, <1>5, <1>7 DEF QueueInv
<1> QED
    BY <1>8, Zenon DEF p

(* The queue stays in order when a message that creates nothing is done.    *)
LEMMA QueueTail ==
    ASSUME NEW q, NEW t, NEW s, NEW L, NEW C, QueueInv(q, t, s, L, C),
           q # <<>>, q[1].what # "create"
    PROVE  QueueInv(Tail(q), t, s, L, C)
<1> DEFINE p == Tail(q)
<1>1. /\ q \in Seq(Messages) /\ p \in Seq(Messages)
      /\ Len(q) \in Nat /\ Len(q) > 0 /\ Len(p) = Len(q) - 1
      /\ \A k \in 1..Len(p) : p[k] = q[k + 1]
    BY Dequeued, Zenon DEF QueueInv
<1> HIDE DEF p
<1>2. ASSUME NEW k \in 1..Len(p), p[k].what \in {"startCommand", "destroy"}
      PROVE  p[k].who \in L /\ Current(p, t, k, p[k].who)
    <2>1. p[k].who \in L /\ Current(q, t, k + 1, p[k].who)
        <3>1. k + 1 \in 1..Len(q)
            BY <1>1
        <3>2. p[k] = q[k + 1]
            BY <1>1, Zenon
        <3> QED
            BY <1>2, <3>1, <3>2, Zenon DEF QueueInv
    <2>2. k \in Int /\ k > 0 /\ \A n \in 1..(k - 1) : p[n] = q[n + 1]
        <3>1. \A n \in 1..(k - 1) : n \in 1..Len(p)
            BY <1>1
        <3> QED
            BY <1>1, <3>1
    <2> QED
        BY <2>1, <2>2, CurrentTail, Zenon
<1>3. ASSUME NEW k \in 1..Len(p), p[k].what = "create"
      PROVE  p[k].who \in L \ C /\ \A m \in 1..Len(p) : p[m] = p[k] => m = k
    <2>1. q[k + 1].who \in L \ C /\ \A m \in 1..Len(q) : q[m] = q[k + 1] => m = k + 1
        BY <1>1, <1>3, k + 1 \in 1..Len(q), Zenon DEF QueueInv
    <2>2. ASSUME NEW m \in 1..Len(p), p[m] = p[k] PROVE m = k
        BY <1>1, <2>1, <2>2, m + 1 \in 1..Len(q)
    <2> QED
        BY <1>1, <2>1, <2>2, Zenon
<1>4. ASSUME s # NoService PROVE Current(p, t, Len(p) + 1, s)
    <2>1. Current(q, t, (Len(p) + 1) + 1, s)
        BY <1>1, <1>4 DEF QueueInv
    <2> QED
        BY <1>1, <2>1, CurrentTail
<1>5. QueueInv(p, t, s, L, C)
    BY <1>1, <1>2, <1>3, <1>4, Zenon DEF QueueInv
<1> QED
    BY <1>5, Zenon DEF p

(* The queue stays in order when newTunnel has made the new Tunnel mTunnel. *)
LEMMA QueueCreates ==
    ASSUME NEW q, NEW t, NEW s, NEW L, NEW C, QueueInv(q, t, s, L, C),
           NEW j, q # <<>>, q[1] = create(j)
    PROVE  QueueInv(Tail(q), j, s, L, C \cup {j})
<1> DEFINE p == Tail(q)
<1>1. /\ q \in Seq(Messages) /\ p \in Seq(Messages)
      /\ Len(q) \in Nat /\ Len(q) > 0 /\ Len(p) = Len(q) - 1
      /\ \A k \in 1..Len(p) : p[k] = q[k + 1]
    BY Dequeued, Zenon DEF QueueInv
<1> HIDE DEF p
<1>2. ASSUME NEW k \in 1..Len(p), p[k].what \in {"startCommand", "destroy"}
      PROVE  p[k].who \in L /\ Current(p, j, k, p[k].who)
    <2>1. p[k].who \in L /\ Current(q, t, k + 1, p[k].who)
        BY <1>1, <1>2, k + 1 \in 1..Len(q), Zenon DEF QueueInv
    <2> QED
        BY <1>1, <2>1, CurrentCreate
<1>3. ASSUME NEW k \in 1..Len(p), p[k].what = "create"
      PROVE  p[k].who \in L \ (C \cup {j}) /\ \A m \in 1..Len(p) : p[m] = p[k] => m = k
    <2>1. q[k + 1].who \in L \ C /\ \A m \in 1..Len(q) : q[m] = q[k + 1] => m = k + 1
        BY <1>1, <1>3, k + 1 \in 1..Len(q), Zenon DEF QueueInv
    <2>2. ASSUME NEW m \in 1..Len(p), p[m] = p[k] PROVE m = k
        BY <1>1, <2>1, <2>2, m + 1 \in 1..Len(q)
    <2>3. p[k].who # j
        <3>1. PICK i \in Services : p[k] = create(i)
            BY <1>1, <1>3, MessageKinds
        <3>2. q[k + 1] # q[1]
            BY <1>1, <2>1, 1 \in 1..Len(q)
        <3> QED
            BY <1>1, <3>1, <3>2 DEF create
    <2> QED
        BY <1>1, <2>1, <2>2, <2>3, Zenon
<1>4. ASSUME s # NoService PROVE Current(p, j, Len(p) + 1, s)
    <2>1. Current(q, t, (Len(p) + 1) + 1, s)
        BY <1>1, <1>4 DEF QueueInv
    <2> QED
        BY <1>1, <2>1, CurrentCreate
<1>5. QueueInv(p, j, s, L, C \cup {j})
    BY <1>1, <1>2, <1>3, <1>4, Zenon DEF QueueInv
<1> QED
    BY <1>5, Zenon DEF p
-----------------------------------------------------------------------------
(* The order of the main queue, for the state of the system.                *)
Queue == QueueInv(mainQ, mTunnel, service, launched, created) /\ created \subseteq launched

(* The main thread has a message of this kind in hand.                      *)
InMessage(what) == mainQ # <<>> /\ mainQ[1].what = what

(* Where the main thread waits, it is inside the message it is handling; a  *)
(* manager that is being joined is unregistered and has a thread.           *)
MainThread ==
    /\ mainPc = "newTunnel" => InMessage("create")
    /\ mainPc = "startRouting" => InMessage("startCommand")
    /\ mainPc = "join" => /\ InMessage("destroy") /\ tunnelManager = NoTunnel
                          /\ m_tunnelThread[mainQ[1].who] # NoRun

(* A service is started, or will be destroyed, or is done with and its      *)
(* manager is not in TunnelState (TunnelVpnService.java:68-78).             *)
Registered ==
    \A i \in launched :
        \/ service = i
        \/ Has(mainQ, destroy(i))
        \/ ~Has(mainQ, create(i)) /\ tunnelManager # i

(* A runTunnel thread belongs to a manager that has been constructed.       *)
Owners == \A r \in Runs : IF run[r] = "unused" THEN owner[r] = NoTunnel ELSE owner[r] \in created

(* Where a thread is in the plugin when it is not in startTunnelService.    *)
NotStarting == {"idle", "getStop", "signal"}

(* No consent result is on its way.                                         *)
NoResult(q) == \A k \in 1..Len(q) : q[k].what # "activityResult"

(* m_socksServerAddress is set before anything can read it.                 *)
Addressed ==
    \/ address \in Addresses
    \/ /\ dialogs = 0
       /\ NoResult(mainQ)
       /\ \A t \in PluginThreads : pluginPc[t] \in NotStarting

(* Every open consent dialog was shown.                                     *)
Dialogs == dialogs <= shown

(* The inductive invariant of plugin, service and Tunnel together.          *)
PluginInv ==
    TypeOK /\ TunnelInv /\ Queue /\ MainThread /\ Registered /\ Owners /\ Addressed /\ Dialogs

(* The Tunnel of the service whose command is next is mTunnel.              *)
LEMMA FirstIsCurrent ==
    ASSUME TunnelInv, Queue, mainQ # <<>>, NEW i \in Services,
           mainQ[1].what \in {"startCommand", "destroy"}, mainQ[1].who = i
    PROVE  i = mTunnel /\ i \in created
<1>1. Current(mainQ, mTunnel, 1, i)
    BY Dequeued DEF Queue, QueueInv
<1>2. i = mTunnel
    BY <1>1 DEF Current
<1> QED
    BY <1>2, NullsAreNotObjects, OneTunnelPerService, Zenon DEF TunnelInv, TunnelTypeOK

(* Every step of the plugin is a step of Tunnel or leaves it alone:         *)
(* startRouting is called on mTunnel only, and only on a constructed        *)
(* Tunnel.                                                                  *)
LEMMA UsesTunnel ==
    ASSUME PluginInv, Next
    PROVE  [TunnelNext]_tunnelVars
<1> USE OneTunnelPerService
<1>q. mainQ # <<>> => Head(mainQ) = mainQ[1]
    BY Dequeued, Zenon DEF PluginInv, Queue, QueueInv
<1>1. CASE User
    BY <1>1, Zenon DEF User, executeStart, executeStop, pluginDestroyed, userAnswers, serviceVars
<1>2. ASSUME NEW t \in PluginThreads, Plugin(t) PROVE UNCHANGED tunnelVars
    BY <1>2, Zenon DEF Plugin, isServiceRunning, getTunnelManager, restartTunnelSame, restartTunnel,
       restartTunnelReconnects, signalManager, startTunnelService, startTunnelServiceNull,
       setStartingTunnelManager, stopTunnelService, serviceVars
<1>3. ASSUME NEW i \in Services, ServiceCallback(i) PROVE [TunnelNext]_tunnelVars
    <2>1. CASE createService(i) \/ createServiceStops(i) \/ createServiceReturns(i)
        BY <2>1, Zenon DEF createService, createServiceStops, createServiceReturns, TunnelNext, NewTunnel
    <2>2. CASE onDestroy(i) \/ onDestroyJoined(i)
        BY <2>2, Zenon DEF onDestroy, onDestroyJoined
    <2>3. ASSUME NEW a \in Addresses,
                 onStartCommandEstablished(i, a) \/ onStartCommandFailed(i, a)
          PROVE  TunnelNext
        <3>1. mainQ # <<>> /\ mainQ[1] = startCmd(i, a)
            BY <1>q, <2>3, Zenon DEF onStartCommandEstablished, onStartCommandFailed,
               PluginInv, MainThread, InMessage
        <3>2. mainQ[1].what = "startCommand" /\ mainQ[1].who = i
            BY <3>1 DEF startCmd
        <3>3. i = mTunnel /\ i \in created
            BY <3>1, <3>2, FirstIsCurrent, Zenon DEF PluginInv
        <3> QED
            BY <2>3, <3>3, Zenon DEF onStartCommandEstablished, onStartCommandFailed, TunnelNext, Call
    <2>4. ASSUME NEW a \in Addresses, onStartCommand(i, a) PROVE UNCHANGED tunnelVars
        BY <2>4, Zenon DEF onStartCommand
    <2> QED
        BY <1>3, <2>1, <2>2, <2>3, <2>4, Zenon DEF ServiceCallback
<1>4. CASE onReceive \/ \E ok \in BOOLEAN : onActivityResult(ok)
    BY <1>4, Zenon DEF onReceive, onActivityResult
<1>5. ASSUME NEW r \in Runs, RunThread(r) PROVE [TunnelNext]_tunnelVars
    <2>1. CASE runTunnel(r) \/ runTunnelStops(r)
        <3>1. run[r] # "unused"
            BY <2>1, Zenon DEF runTunnel, runTunnelStops
        <3>2. owner[r] \in created
            BY <3>1, Zenon DEF PluginInv, Owners
        <3> QED
            BY <2>1, <3>2, Zenon DEF runTunnel, runTunnelStops, TunnelNext, Call
    <2>2. CASE runTunnelBroadcast(r) \/ runTunnelAwait(r) \/ runTunnelWake(r) \/ runTunnelFinally(r)
               \/ runTunnelStopSelf(r) \/ runTunnelClears(r)
        BY <2>2, Zenon DEF runTunnelBroadcast, runTunnelAwait, runTunnelWake, runTunnelFinally,
           runTunnelStopSelf, runTunnelClears
    <2> QED
        BY <1>5, <2>1, <2>2, Zenon DEF RunThread
<1>6. ASSUME NEW i \in Services, NativeThread(i) \/ DeviceFails(i) PROVE TunnelNext
    BY <1>6, Zenon DEF NativeThread, DeviceFails, TunnelNext, Native
<1>7. ASSUME NEW i \in Services, onRevoke(i) PROVE UNCHANGED tunnelVars
    BY <1>7, Zenon DEF onRevoke
<1> QED
    BY <1>1, <1>2, <1>3, <1>4, <1>5, <1>6, <1>7, Zenon DEF Next, MainLooper

(* execute(), the consent dialog and the destruction of the plugin keep the *)
(* types.                                                                   *)
LEMMA UserTypes ==
    ASSUME TypeOK, Dialogs, mainQ' \in Seq(Messages), TunnelTypeOK', User
    PROVE  TypeOK' /\ Dialogs'
<1> USE PluginBounds DEF TypeOK, ServiceTypeOK, AndroidTypeOK, Dialogs
<1>1. ASSUME NEW a \in Addresses, executeStart(a) PROVE TypeOK' /\ Dialogs'
    BY <1>1 DEF executeStart, serviceVars, androidVars, stateVars, managerVars, runVars, at, step,
       PluginThreads, PluginSteps
<1>2. CASE executeStop
    BY <1>2 DEF executeStop, serviceVars, androidVars, stateVars, managerVars, runVars, at, step,
       PluginThreads, PluginSteps
<1>3. CASE pluginDestroyed
    BY <1>3 DEF pluginDestroyed, androidVars, stateVars, managerVars, runVars, step,
       PluginThreads, PluginSteps, MainSteps
<1>4. ASSUME NEW ok \in BOOLEAN, userAnswers(ok) PROVE TypeOK' /\ Dialogs'
    BY <1>4 DEF userAnswers, stateVars, managerVars, runVars
<1> QED
    BY <1>1, <1>2, <1>3, <1>4, Zenon DEF User

LEMMA UpdateType ==
    ASSUME NEW S, NEW T, NEW f \in [S -> T], NEW x, NEW y \in T
    PROVE  [f EXCEPT ![x] = y] \in [S -> T]
    OBVIOUS

(* startTunnelService and stopTunnelService keep the types.                 *)
LEMMA PluginTypes ==
    ASSUME TypeOK, Dialogs, mainQ' \in Seq(Messages), TunnelTypeOK', NEW t \in PluginThreads, Plugin(t)
    PROVE  TypeOK' /\ Dialogs'
<1> USE DEF TypeOK, ServiceTypeOK, AndroidTypeOK, Dialogs
<1>1. CASE isServiceRunning(t)
    BY <1>1, Zenon DEF isServiceRunning, serviceVars, androidVars, stateVars, managerVars, runVars, step, PluginSteps
<1>2. CASE getTunnelManager(t) \/ stopTunnelService(t)
    BY <1>2 DEF getTunnelManager, stopTunnelService, leavePlugin, useManager, androidVars, stateVars,
       managerVars, runVars, step, PluginSteps, MainSteps
<1>3. CASE restartTunnelSame(t)
    BY <1>3 DEF restartTunnelSame, sendBroadcast, Broadcasts, leavePlugin, stateVars, managerVars,
       runVars, step, PluginSteps, MainSteps
<1>4. CASE restartTunnel(t) \/ restartTunnelReconnects(t)
    <2>1. pluginPc' \in [PluginThreads -> PluginSteps]
        BY <1>4, UpdateType, Zenon DEF restartTunnel, restartTunnelReconnects, step, PluginSteps
    <2>2. m_socksServerAddress' \in [Services -> Addresses \cup {"null"}]
        <3>1. m_socksServerAddress' \in {m_socksServerAddress, [m_socksServerAddress EXCEPT ![found[t]] = address]}
            BY <1>4, Zenon DEF restartTunnel, restartTunnelReconnects
        <3>2. [m_socksServerAddress EXCEPT ![found[t]] = address] \in [Services -> Addresses \cup {"null"}]
            BY UpdateType, Zenon
        <3> QED
            BY <3>1, <3>2, Zenon
    <2>3. m_isReconnecting' \in [Services -> BOOLEAN]
        <3>1. m_isReconnecting' \in {m_isReconnecting, [m_isReconnecting EXCEPT ![found[t]] = TRUE]}
            BY <1>4, Zenon DEF restartTunnel, restartTunnelReconnects
        <3>2. [m_isReconnecting EXCEPT ![found[t]] = TRUE] \in [Services -> BOOLEAN]
            BY UpdateType, Zenon
        <3> QED
            BY <3>1, <3>2, Zenon
    <2> QED
        BY <1>4, <2>1, <2>2, <2>3, Zenon DEF restartTunnel, restartTunnelReconnects, androidVars,
           stateVars, runVars
<1>5. CASE signalManager(t)
    <2>1. counted' \in [Runs -> BOOLEAN]
        BY <1>5, Zenon DEF signalManager, signalStopService
    <2> QED
        BY <1>5, <2>1, Zenon DEF signalManager, leavePlugin, androidVars, stateVars, managerVars, step,
           PluginSteps, MainSteps
<1>6. CASE startTunnelService(t)
    BY <1>6, Zenon DEF startTunnelService, startService, stateVars, managerVars, runVars, step, PluginSteps
<1>7. CASE startTunnelServiceNull(t) \/ setStartingTunnelManager(t)
    BY <1>7 DEF startTunnelServiceNull, setStartingTunnelManager, leavePlugin, androidVars, stateVars,
       managerVars, runVars, step, PluginSteps, MainSteps
<1> QED
    BY <1>1, <1>2, <1>3, <1>4, <1>5, <1>6, <1>7, Zenon DEF Plugin

(* The callbacks on the main thread keep the types.                         *)
LEMMA MainTypes ==
    ASSUME TypeOK, Dialogs, mainQ' \in Seq(Messages), TunnelTypeOK', MainLooper
    PROVE  TypeOK' /\ Dialogs'
<1> USE DEF TypeOK, ServiceTypeOK, AndroidTypeOK, Dialogs
<1>1. ASSUME NEW i \in Services,
             \/ createService(i) /\ UNCHANGED pluginVars
             \/ createServiceStops(i) /\ UNCHANGED pluginVars
             \/ createServiceReturns(i) /\ UNCHANGED pluginVars
      PROVE  TypeOK' /\ Dialogs'
    BY <1>1, Zenon DEF createService, createServiceStops, createServiceReturns, onCreate, setTunnelManager,
       androidVars, stateVars, managerVars, runVars, pluginVars, MainSteps
<1>2. ASSUME NEW i \in Services, onDestroy(i), UNCHANGED pluginVars
      PROVE  TypeOK' /\ Dialogs'
    <2>1. counted' \in [Runs -> BOOLEAN]
        BY <1>2, Zenon DEF onDestroy, signalStopService
    <2> QED
        BY <1>2, <2>1, Zenon DEF onDestroy, setTunnelManager, managerVars, pluginVars, MainSteps
<1>3. ASSUME NEW i \in Services, onDestroyJoined(i), UNCHANGED pluginVars
      PROVE  TypeOK' /\ Dialogs'
    BY <1>3, Zenon DEF onDestroyJoined, stateVars, runVars, pluginVars, MainSteps
<1>4. ASSUME NEW i \in Services, NEW a \in Addresses,
             onStartCommand(i, a) \/ onStartCommandEstablished(i, a) \/ onStartCommandFailed(i, a),
             UNCHANGED pluginVars
      PROVE  TypeOK' /\ Dialogs'
    <2>1. CASE onStartCommand(i, a)
        BY <1>4, <2>1, Zenon DEF onStartCommand, androidVars, stateVars, runVars, pluginVars, MainSteps
    <2>2. CASE onStartCommandEstablished(i, a)
        <3>1. PICK r \in Runs : /\ run' = [run EXCEPT ![r] = "begin"]
                                /\ owner' = [owner EXCEPT ![r] = i]
                                /\ m_tunnelThread' = [m_tunnelThread EXCEPT ![i] = r]
            BY <2>2, Zenon DEF onStartCommandEstablished, startTunnel
        <3> QED
            BY <1>4, <2>2, <3>1, Zenon DEF onStartCommandEstablished, stateVars, pluginVars, MainSteps, RunSteps
    <2>3. CASE onStartCommandFailed(i, a)
        BY <1>4, <2>3 DEF onStartCommandFailed, stateVars, managerVars, runVars, pluginVars, MainSteps, Broadcasts
    <2> QED
        BY <1>4, <2>1, <2>2, <2>3, Zenon
<1>5. ASSUME NEW ok \in BOOLEAN, onActivityResult(ok) PROVE TypeOK' /\ Dialogs'
    BY <1>5 DEF onActivityResult, answer, step, stateVars, managerVars, runVars, PluginThreads,
       PluginSteps, MainSteps
<1>6. CASE onReceive
    <2>1. pending' \in Seq(Broadcasts)
        <3>1. CASE pending = <<>>
            BY <1>6, <3>1, Zenon DEF onReceive
        <3>2. CASE pending # <<>>
            <4>1. pending' = Tail(pending)
                BY <1>6, <3>2, Zenon DEF onReceive
            <4> QED
                BY <3>2, <4>1, Dequeued, Zenon
        <3> QED
            BY <3>1, <3>2, Zenon
    <2>2. disconnects' \in Nat
        BY <1>6 DEF onReceive
    <2>3. callback' \in [1..MaxStarts -> {"unused", "waiting", "success", "error"}]
        <3>1. \/ UNCHANGED callback
              \/ \E res \in {"success", "error"} : answer(starts, res)
            BY <1>6, Zenon DEF onReceive
        <3> QED
            BY <3>1 DEF answer
    <2> QED
        BY <1>6, <2>1, <2>2, <2>3, Zenon DEF onReceive, stateVars, managerVars, runVars
<1> QED
    BY <1>1, <1>2, <1>3, <1>4, <1>5, <1>6, Zenon DEF MainLooper, ServiceCallback

(* The runTunnel threads keep the types.                                    *)
LEMMA RunTypes ==
    ASSUME TypeOK, Dialogs, mainQ' \in Seq(Messages), TunnelTypeOK', NEW r \in Runs, RunThread(r), run[r] # "unused" => owner[r] \in Services
    PROVE  TypeOK' /\ Dialogs'
<1> USE DEF TypeOK, ServiceTypeOK, AndroidTypeOK, Dialogs
<1>1. CASE UNCHANGED pluginVars /\ (runTunnel(r) \/ runTunnelFinally(r) \/ runTunnelWake(r))
    BY <1>1 DEF runTunnel, runTunnelFinally, runTunnelWake, goto, androidVars, stateVars, managerVars,
       pluginVars, RunSteps
<1>2. CASE UNCHANGED pluginVars /\ runTunnelBroadcast(r)
    BY <1>2 DEF runTunnelBroadcast, sendBroadcast, goto, stateVars, managerVars, pluginVars, RunSteps, Broadcasts
<1>3. CASE UNCHANGED pluginVars /\ runTunnelAwait(r)
    BY <1>3, Zenon DEF runTunnelAwait, goto, androidVars, stateVars, managerVars, pluginVars, RunSteps
<1>4. CASE UNCHANGED pluginVars /\ runTunnelStops(r)
    BY <1>4, Zenon DEF runTunnelStops, goto, androidVars, stateVars, managerVars, pluginVars, RunSteps
<1>5. CASE UNCHANGED pluginVars /\ runTunnelStopSelf(r)
    BY <1>5, Zenon DEF runTunnelStopSelf, stopSelf, goto, stateVars, managerVars, pluginVars, RunSteps
<1>6. CASE UNCHANGED pluginVars /\ runTunnelClears(r)
    BY <1>6, Zenon DEF runTunnelClears, goto, androidVars, stateVars, managerVars, pluginVars, RunSteps
<1> QED
    BY <1>1, <1>2, <1>3, <1>4, <1>5, <1>6, Zenon DEF RunThread

(* Every step keeps the types.                                              *)
LEMMA Types ==
    ASSUME TypeOK, Dialogs, mainQ' \in Seq(Messages), TunnelTypeOK', Next, \A r \in Runs : run[r] # "unused" => owner[r] \in Services
    PROVE  TypeOK' /\ Dialogs'
<1>1. ASSUME NEW i \in Services, NativeThread(i) \/ DeviceFails(i) PROVE TypeOK' /\ Dialogs'
    BY <1>1, Zenon DEF NativeThread, DeviceFails, aside, androidVars, stateVars, managerVars, runVars,
       pluginVars, TypeOK, ServiceTypeOK, AndroidTypeOK, Dialogs
<1>2. ASSUME NEW i \in Services, onRevoke(i), UNCHANGED pluginVars PROVE TypeOK' /\ Dialogs'
    BY <1>2 DEF onRevoke, stopSelf, Broadcasts, stateVars, managerVars, runVars, pluginVars,
       TypeOK, ServiceTypeOK, AndroidTypeOK, Dialogs
<1> QED
    BY <1>1, <1>2, UserTypes, PluginTypes, MainTypes, RunTypes, Zenon DEF Next

(* Appending to the queue leaves the message being handled in place.        *)
LEMMA FirstKept ==
    ASSUME NEW q \in Seq(Messages), NEW m \in Messages, q # <<>>
    PROVE  Append(q, m) # <<>> /\ Append(q, m)[1] = q[1]
OBVIOUS

(* Queue p is q, or q with one more consent result or broadcast message.    *)
Posts(q, p) == p = q \/ \E m \in Messages : m.what \in {"activityResult", "broadcasts"} /\ p = Append(q, m)

(* Such a message keeps the order and the message in hand, and is no        *)
(* creation and no destruction.                                             *)
LEMMA PostKeeps ==
    ASSUME NEW q, NEW t, NEW s, NEW L, NEW C, QueueInv(q, t, s, L, C), NEW p, Posts(q, p)
    PROVE  /\ QueueInv(p, t, s, L, C)
           /\ q # <<>> => p # <<>> /\ p[1] = q[1]
           /\ \A i : Has(p, create(i)) <=> Has(q, create(i))
           /\ \A i : Has(p, destroy(i)) <=> Has(q, destroy(i))
<1>1. CASE p = q
    BY <1>1, Zenon
<1>2. ASSUME NEW m \in Messages, m.what \in {"activityResult", "broadcasts"}, p = Append(q, m)
      PROVE  /\ QueueInv(p, t, s, L, C)
             /\ q # <<>> => p # <<>> /\ p[1] = q[1]
             /\ \A i : Has(p, create(i)) <=> Has(q, create(i))
             /\ \A i : Has(p, destroy(i)) <=> Has(q, destroy(i))
    <2>1. q \in Seq(Messages)
        BY Zenon DEF QueueInv
    <2>2. QueueInv(p, t, s, L, C)
        BY <1>2, QueueAppends, Zenon
    <2>3. q # <<>> => p # <<>> /\ p[1] = q[1]
        BY <1>2, <2>1, FirstKept, Zenon
    <2>4. \A i : m # create(i) /\ m # destroy(i)
        BY <1>2 DEF create, destroy
    <2>5. \A x : Has(p, x) <=> Has(q, x) \/ x = m
        BY <1>2, <2>1, HasAppended, Zenon
    <2> QED
        BY <2>2, <2>3, <2>4, <2>5, Zenon
<1> QED
    BY <1>1, <1>2, Zenon DEF Posts

(* sendBroadcast posts at most one message.                                 *)
LEMMA ExecPosts ==
    ASSUME NEW q
    PROVE  Posts(q, withExec(q))
<1>1. execPending \in Messages /\ execPending.what = "broadcasts"
    BY DEF Messages, execPending
<1> QED
    BY <1>1, Zenon DEF withExec, Posts

(* A step of another thread than the main thread, or one of the main thread *)
(* that begins or ends a call of the plugin.                                *)
LEMMA Frame ==
    ASSUME PluginInv, Posts(mainQ, mainQ'), mainPc' \in {mainPc, "idle", "plugin"},
           UNCHANGED <<service, launched, created, mTunnel, tunnelManager, m_tunnelThread>>
    PROVE  Queue' /\ MainThread' /\ Registered'
<1> USE DEF PluginInv
<1>1. /\ QueueInv(mainQ', mTunnel, service, launched, created)
      /\ mainQ # <<>> => mainQ' # <<>> /\ mainQ'[1] = mainQ[1]
      /\ \A i : Has(mainQ', create(i)) <=> Has(mainQ, create(i))
      /\ \A i : Has(mainQ', destroy(i)) <=> Has(mainQ, destroy(i))
    BY PostKeeps, Zenon DEF Queue
<1>2. Queue'
    BY <1>1, Zenon DEF Queue
<1>3. MainThread'
    BY <1>1, Zenon DEF MainThread, InMessage
<1>4. Registered'
    BY <1>1, Zenon DEF Registered
<1> QED
    BY <1>2, <1>3, <1>4, Zenon

(* The main thread is done with a message that concerns no service.         *)
LEMMA FrameTail ==
    ASSUME PluginInv, mainQ # <<>>, mainQ[1].what \notin {"create", "destroy"},
           Posts(Tail(mainQ), mainQ'), mainPc' \in {"idle", "plugin"},
           UNCHANGED <<service, launched, created, mTunnel, tunnelManager>>
    PROVE  Queue' /\ MainThread' /\ Registered'
<1> USE DEF PluginInv
<1> DEFINE p == Tail(mainQ)
<1>1. QueueInv(p, mTunnel, service, launched, created)
    BY QueueTail, Zenon DEF Queue
<1>2. \A i : mainQ[1] # create(i) /\ mainQ[1] # destroy(i)
    BY DEF create, destroy
<1>3. \A i : /\ Has(p, create(i)) <=> Has(mainQ, create(i))
             /\ Has(p, destroy(i)) <=> Has(mainQ, destroy(i))
    BY <1>2, HasDequeued, Zenon DEF Queue, QueueInv
<1>4. Posts(p, mainQ')
    BY Zenon DEF Posts
<1> HIDE DEF p
<1>5. /\ QueueInv(mainQ', mTunnel, service, launched, created)
      /\ \A i : Has(mainQ', create(i)) <=> Has(mainQ, create(i))
      /\ \A i : Has(mainQ', destroy(i)) <=> Has(mainQ, destroy(i))
    BY <1>1, <1>3, <1>4, PostKeeps, Zenon
<1>6. Queue'
    BY <1>5, Zenon DEF Queue
<1>7. MainThread'
    BY Zenon DEF MainThread
<1>8. Registered'
    BY <1>5, Zenon DEF Registered
<1> QED
    BY <1>6, <1>7, <1>8, Zenon

(* startService keeps queue, main thread and registry in order.             *)
LEMMA Launches ==
    ASSUME PluginInv, address \in Addresses, startService(address),
           UNCHANGED <<created, mTunnel, mainPc, tunnelManager, m_tunnelThread>>
    PROVE  Queue' /\ MainThread' /\ Registered'
<1> USE DEF PluginInv
<1>t. mainQ \in Seq(Messages) /\ launched \subseteq Services /\ service \in launched \cup {NoService}
    BY Zenon DEF TypeOK, ServiceTypeOK, AndroidTypeOK
<1>1. CASE service # NoService
    <2> DEFINE m == startCmd(service, address)
    <2>1. mainQ' = Append(mainQ, m) /\ UNCHANGED <<service, launched>>
        BY <1>1, Zenon DEF startService
    <2>2. service \in launched
        BY <1>t, <1>1, Zenon
    <2>3. /\ m \in Messages /\ m.what = "startCommand" /\ m.who = service
          /\ \A i : m # create(i) /\ m # destroy(i)
        BY <1>t, <2>2 DEF Messages, startCmd, create, destroy
    <2> HIDE DEF m
    <2>4. QueueInv(Append(mainQ, m), mTunnel, service, launched, created)
        BY <1>t, <2>2, <2>3, QueueSends, Zenon DEF Queue
    <2>5. Queue'
        BY <2>1, <2>4, Zenon DEF Queue
    <2>6. mainQ # <<>> => mainQ' # <<>> /\ mainQ'[1] = mainQ[1]
        BY <1>t, <2>1, <2>3, FirstKept, Zenon
    <2>7. MainThread'
        BY <2>6, Zenon DEF MainThread, InMessage
    <2>8. \A x : Has(mainQ', x) <=> Has(mainQ, x) \/ x = m
        BY <1>t, <2>1, <2>3, HasAppended, Zenon
    <2>9. Registered'
        BY <2>1, <2>3, <2>8, Zenon DEF Registered
    <2> QED
        BY <2>5, <2>7, <2>9, Zenon
<1>2. CASE service = NoService
    <2>1. PICK i \in Services \ launched :
            /\ mainQ' = mainQ \o <<create(i), startCmd(i, address)>>
            /\ service' = i /\ launched' = launched \cup {i}
        BY <1>2, Zenon DEF startService
    <2>2. QueueInv(mainQ', mTunnel, i, launched \cup {i}, created)
        BY <1>t, <1>2, <2>1, QueueLaunches, Zenon DEF Queue
    <2>3. Queue'
        BY <2>1, <2>2, Zenon DEF Queue
    <2>4. /\ create(i) \in Messages /\ startCmd(i, address) \in Messages
          /\ mainQ' = Append(Append(mainQ, create(i)), startCmd(i, address))
        BY <1>t, <2>1 DEF Messages
    <2>5. mainQ # <<>> => mainQ' # <<>> /\ mainQ'[1] = mainQ[1]
        BY <1>t, <2>1
    <2>6. MainThread'
        BY <2>5, Zenon DEF MainThread, InMessage
    <2>7. Append(mainQ, create(i)) \in Seq(Messages)
        BY <1>t, <2>4, Appended, Zenon
    <2>8. \A x : Has(mainQ', x) <=> Has(mainQ, x) \/ x = create(i) \/ x = startCmd(i, address)
        BY <1>t, <2>4, <2>7, HasAppended, Zenon
    <2>9. \A j \in launched : create(j) # create(i) /\ create(j) # startCmd(i, address)
        BY <2>1, Zenon DEF create, startCmd
    <2>10. Registered'
        BY <1>2, <1>t, <2>1, <2>8, <2>9, NoServiceIsNone, Zenon DEF Registered
    <2> QED
        BY <2>3, <2>6, <2>10, Zenon
<1> QED
    BY <1>1, <1>2, Zenon

(* So does stopSelf.                                                        *)
LEMMA Stops ==
    ASSUME PluginInv, NEW i \in Services, NEW q, Posts(mainQ, q), stopSelf(i, q),
           UNCHANGED <<created, mTunnel, mainPc, tunnelManager, m_tunnelThread>>
    PROVE  Queue' /\ MainThread' /\ Registered'
<1> USE DEF PluginInv
<1>t. launched \subseteq Services /\ service \in launched \cup {NoService}
    BY Zenon DEF TypeOK, ServiceTypeOK, AndroidTypeOK
<1>q. /\ QueueInv(q, mTunnel, service, launched, created)
      /\ mainQ # <<>> => q # <<>> /\ q[1] = mainQ[1]
      /\ \A j : Has(q, create(j)) <=> Has(mainQ, create(j))
      /\ \A j : Has(q, destroy(j)) <=> Has(mainQ, destroy(j))
    BY PostKeeps, Zenon DEF Queue
<1>1. CASE service # i
    BY <1>1, Frame, Zenon DEF stopSelf
<1>2. CASE service = i
    <2>1. mainQ' = Append(q, destroy(i)) /\ service' = NoService /\ UNCHANGED launched
        BY <1>2, Zenon DEF stopSelf
    <2>2. /\ destroy(i) \in Messages /\ destroy(i).what = "destroy" /\ destroy(i).who = i
          /\ \A j : create(j) # destroy(i)
        BY DEF Messages, create, destroy
    <2>3. i \in launched
        BY <1>t, <1>2, NoServiceIsNone, Zenon
    <2>4. QueueInv(mainQ', mTunnel, NoService, launched, created)
        BY <1>t, <1>q, <1>2, <2>1, <2>2, <2>3, QueueSends, Zenon
    <2>5. Queue'
        BY <2>1, <2>4, Zenon DEF Queue
    <2>6. q \in Seq(Messages)
        BY <1>q, Zenon DEF QueueInv
    <2>7. q # <<>> => mainQ' # <<>> /\ mainQ'[1] = q[1]
        BY <2>1, <2>2, <2>6, FirstKept, Zenon
    <2>9. MainThread'
        BY <1>q, <2>7, Zenon DEF MainThread, InMessage
    <2>10. \A x : Has(mainQ', x) <=> Has(q, x) \/ x = destroy(i)
        BY <2>1, <2>2, <2>6, HasAppended, Zenon
    <2>11. Registered'
        BY <1>q, <1>2, <2>1, <2>2, <2>10, Zenon DEF Registered
    <2> QED
        BY <2>5, <2>9, <2>11, Zenon
<1> QED
    BY <1>1, <1>2, Zenon

(* So does onCreate, which registers the manager of the new service.        *)
LEMMA Creates ==
    ASSUME PluginInv, NEW i \in Services, mainQ # <<>>, mainQ[1] = create(i), construct(i), onCreate(i),
           mainPc' = "idle"
    PROVE  Queue' /\ MainThread' /\ Registered'
<1> USE DEF PluginInv
<1>t. mainQ \in Seq(Messages) /\ launched \subseteq Services
    BY Zenon DEF TypeOK, ServiceTypeOK, AndroidTypeOK
<1>1. /\ mainQ' = Tail(mainQ) /\ mTunnel' = i /\ created' = created \cup {i} /\ tunnelManager' = i
      /\ UNCHANGED <<service, launched>>
    BY Zenon DEF onCreate, setTunnelManager, construct
<1>2. QueueInv(Tail(mainQ), i, service, launched, created \cup {i})
    BY QueueCreates, Zenon DEF Queue
<1>3. i \in launched
    <2>1. 1 \in 1..Len(mainQ)
        BY <1>t, Dequeued
    <2>2. mainQ[1].what = "create" /\ mainQ[1].who = i
        BY DEF create
    <2> QED
        BY <2>1, <2>2, Zenon DEF Queue, QueueInv
<1>4. Queue'
    BY <1>1, <1>2, <1>3, Zenon DEF Queue
<1>5. MainThread'
    BY Zenon DEF MainThread
<1>6. \A x : Has(mainQ, x) <=> create(i) = x \/ Has(mainQ', x)
    BY <1>t, <1>1, HasDequeued, Zenon
<1>7. \A j : destroy(j) # create(i)
    BY Zenon DEF create, destroy
<1>8. Has(mainQ, create(i))
    BY <1>6, Zenon
<1>9. Registered'
    BY <1>1, <1>6, <1>7, <1>8, Zenon DEF Registered
<1> QED
    BY <1>4, <1>5, <1>9, Zenon

(* A service that is destroyed is not waiting to be created.                *)
LEMMA NotCreated ==
    ASSUME PluginInv, NEW i \in Services, mainQ # <<>>, mainQ[1] = destroy(i)
    PROVE  ~Has(mainQ, create(i))
<1>1. i \in created
    BY FirstIsCurrent DEF PluginInv, destroy
<1> QED
    BY <1>1 DEF PluginInv, Queue, QueueInv, Has, create

(* So does the end of onDestroy, which has unregistered the manager.        *)
LEMMA Destroyed ==
    ASSUME PluginInv, NEW i \in Services, mainQ # <<>>, mainQ[1] = destroy(i),
           mainQ' = Tail(mainQ), mainPc' = "idle", tunnelManager' = NoTunnel,
           UNCHANGED <<service, launched, created, mTunnel>>
    PROVE  Queue' /\ MainThread' /\ Registered'
<1> USE DEF PluginInv
<1>t. mainQ \in Seq(Messages) /\ launched \subseteq Services
    BY Zenon DEF TypeOK, ServiceTypeOK, AndroidTypeOK
<1>1. QueueInv(mainQ', mTunnel, service, launched, created)
    <2>1. mainQ[1].what # "create"
        BY DEF destroy
    <2> QED
        BY <2>1, QueueTail, Zenon DEF Queue
<1>2. Queue'
    BY <1>1, Zenon DEF Queue
<1>3. MainThread'
    BY Zenon DEF MainThread
<1>4. \A x : Has(mainQ, x) <=> destroy(i) = x \/ Has(mainQ', x)
    BY <1>t, HasDequeued, Zenon
<1>5. \A j : destroy(j) = destroy(i) => j = i
    BY Zenon DEF destroy
<1>6. NoTunnel \notin launched
    BY <1>t, NullsAreNotObjects, OneTunnelPerService, Zenon
<1>7. Registered'
    BY <1>4, <1>5, <1>6, NotCreated, Zenon DEF Registered
<1> QED
    BY <1>2, <1>3, <1>7, Zenon

(* Every step keeps queue, main thread and registry in order.               *)
LEMMA QueueStep ==
    ASSUME PluginInv, Next
    PROVE  Queue' /\ MainThread' /\ Registered'
<1> DEFINE Kept == Queue' /\ MainThread' /\ Registered'
<1>q. mainQ # <<>> => Head(mainQ) = mainQ[1]
    BY Dequeued, Zenon DEF PluginInv, Queue, QueueInv
<1>p. Posts(mainQ, mainQ) /\ Posts(mainQ, withExec(mainQ))
    BY ExecPosts, Zenon DEF Posts
<1>1. ASSUME User PROVE Kept
    <2>1. ASSUME NEW a \in Addresses, executeStart(a) PROVE Kept
        BY <1>p, <2>1, Frame, Zenon DEF executeStart, serviceVars, androidVars, tunnelVars, stateVars, managerVars
    <2>2. CASE executeStop
        BY <1>p, <2>2, Frame, Zenon DEF executeStop, serviceVars, androidVars, tunnelVars, stateVars, managerVars
    <2>3. CASE pluginDestroyed
        BY <1>p, <2>3, Frame, Zenon DEF pluginDestroyed, androidVars, tunnelVars, stateVars, managerVars
    <2>4. ASSUME NEW ok \in BOOLEAN, userAnswers(ok) PROVE Kept
        <3>1. result(ok) \in Messages /\ result(ok).what = "activityResult"
            BY DEF Messages, result
        <3>2. Posts(mainQ, mainQ')
            BY <2>4, <3>1, Zenon DEF userAnswers, Posts
        <3> QED
            BY <2>4, <3>2, Frame, Zenon DEF userAnswers, tunnelVars, stateVars, managerVars
    <2> QED
        BY <1>1, <2>1, <2>2, <2>3, <2>4, Zenon DEF User
<1>2. ASSUME NEW t \in PluginThreads, Plugin(t) PROVE Kept
    <2>1. CASE isServiceRunning(t)
        BY <1>p, <2>1, Frame, Zenon DEF isServiceRunning, serviceVars, androidVars, tunnelVars, stateVars, managerVars
    <2>2. CASE getTunnelManager(t) \/ stopTunnelService(t)
        BY <1>p, <2>2, Frame, Zenon DEF getTunnelManager, stopTunnelService, leavePlugin, useManager,
           androidVars, tunnelVars, stateVars, managerVars
    <2>3. CASE restartTunnelSame(t)
        BY <1>p, <2>3, Frame, Zenon DEF restartTunnelSame, sendBroadcast, leavePlugin, tunnelVars, stateVars, managerVars
    <2>4. CASE restartTunnel(t) \/ restartTunnelReconnects(t)
        BY <1>p, <2>4, Frame, Zenon DEF restartTunnel, restartTunnelReconnects, androidVars, tunnelVars, stateVars
    <2>5. CASE signalManager(t) \/ startTunnelServiceNull(t) \/ setStartingTunnelManager(t)
        BY <1>p, <2>5, Frame, Zenon DEF signalManager, startTunnelServiceNull, setStartingTunnelManager,
           leavePlugin, androidVars, tunnelVars, stateVars, managerVars
    <2>6. CASE startTunnelService(t)
        <3>1. address \in Addresses
            BY <2>6, Zenon DEF startTunnelService, at, PluginInv, Addressed, NotStarting
        <3> QED
            BY <2>6, <3>1, Launches, Zenon DEF startTunnelService, tunnelVars, stateVars, managerVars
    <2> QED
        BY <1>2, <2>1, <2>2, <2>3, <2>4, <2>5, <2>6, Zenon DEF Plugin
<1>3. ASSUME NEW i \in Services, ServiceCallback(i) PROVE Kept
    <2>1. CASE createService(i)
        <3>1. mainQ # <<>> /\ mainQ[1] = create(i) /\ mainPc' = "idle" /\ onCreate(i)
            BY <1>q, <2>1, Zenon DEF createService, atHead
        <3>2. construct(i)
            BY <2>1, Zenon DEF createService, newTunnelFirst, newTunnelIdle
        <3> QED
            BY <3>1, <3>2, Creates, Zenon
    <2>2. CASE createServiceReturns(i)
        <3>1. mainQ # <<>> /\ mainQ[1] = create(i) /\ mainPc' = "idle" /\ onCreate(i)
            BY <1>q, <2>2, Zenon DEF createServiceReturns, PluginInv, MainThread, InMessage
        <3>2. construct(i)
            BY <2>2, Zenon DEF createServiceReturns, newTunnelReturns
        <3> QED
            BY <3>1, <3>2, Creates, Zenon
    <2>3. CASE createServiceStops(i)
        <3>1. InMessage("create")
            BY <1>q, <2>3 DEF createServiceStops, atHead, InMessage, create
        <3>2. UNCHANGED <<mainQ, service, launched, created, mTunnel, tunnelManager, m_tunnelThread>>
            BY <2>3, Zenon DEF createServiceStops, newTunnelStops, stopTun2Socks, androidVars,
               stateVars, managerVars
        <3>3. mainPc' = "newTunnel"
            BY <2>3, Zenon DEF createServiceStops
        <3>4. Queue' /\ Registered'
            BY <3>2, Zenon DEF PluginInv, Queue, Registered
        <3>5. MainThread'
            BY <3>1, <3>2, <3>3, Zenon DEF MainThread, InMessage
        <3> QED
            BY <3>4, <3>5, Zenon
    <2>4. CASE onDestroy(i)
        <3>1. mainQ # <<>> /\ mainQ[1] = destroy(i)
            BY <1>q, <2>4, Zenon DEF onDestroy, atHead
        <3>2. mainPc = "idle" /\ tunnelManager' = NoTunnel
              /\ UNCHANGED <<service, launched, created, mTunnel, m_tunnelThread>>
            BY <2>4, Zenon DEF onDestroy, atHead, setTunnelManager, tunnelVars, managerVars
        <3>3. CASE m_tunnelThread[i] = NoRun
            <4>1. mainQ' = Tail(mainQ) /\ mainPc' = "idle"
                BY <2>4, <3>2, <3>3, Zenon DEF onDestroy
            <4> QED
                BY <3>1, <3>2, <4>1, Destroyed, Zenon
        <3>4. CASE m_tunnelThread[i] # NoRun
            <4>1. mainQ' = mainQ /\ mainPc' = "join"
                BY <2>4, <3>4, Zenon DEF onDestroy
            <4>2. MainThread'
                BY <3>1, <3>2, <3>4, <4>1 DEF MainThread, InMessage, destroy
            <4>3. NoTunnel \notin launched
                BY NullsAreNotObjects, OneTunnelPerService, Zenon
                   DEF PluginInv, TypeOK, ServiceTypeOK, AndroidTypeOK
            <4>4. Registered'
                <5>1. ASSUME NEW j \in launched, service # j, ~Has(mainQ, destroy(j))
                      PROVE  ~Has(mainQ, create(j))
                    BY <5>1, Zenon DEF PluginInv, Registered
                <5> QED
                    BY <3>2, <4>1, <4>3, <5>1, Zenon DEF Registered
            <4>5. Queue'
                BY <3>2, <4>1, Zenon DEF PluginInv, Queue
            <4> QED
                BY <4>2, <4>4, <4>5, Zenon
        <3> QED
            BY <3>3, <3>4, Zenon
    <2>5. CASE onDestroyJoined(i)
        <3>1. mainQ # <<>> /\ mainQ[1] = destroy(i) /\ tunnelManager = NoTunnel
            BY <1>q, <2>5, Zenon DEF onDestroyJoined, PluginInv, MainThread, InMessage
        <3> QED
            BY <2>5, <3>1, Destroyed, Zenon DEF onDestroyJoined, stateVars, tunnelVars
    <2>6. ASSUME NEW a \in Addresses, onStartCommand(i, a) PROVE Kept
        <3>1. InMessage("startCommand")
            BY <1>q, <2>6 DEF onStartCommand, atHead, InMessage, startCmd
        <3>2. UNCHANGED <<mainQ, service, launched, created, mTunnel, tunnelManager, m_tunnelThread>>
            BY <2>6, Zenon DEF onStartCommand, androidVars, tunnelVars, stateVars
        <3>3. mainPc' = "startRouting"
            BY <2>6, Zenon DEF onStartCommand
        <3>4. Queue' /\ Registered'
            BY <3>2, Zenon DEF PluginInv, Queue, Registered
        <3>5. MainThread'
            BY <3>1, <3>2, <3>3, Zenon DEF MainThread, InMessage
        <3> QED
            BY <3>4, <3>5, Zenon
    <2>7. ASSUME NEW a \in Addresses,
                 onStartCommandEstablished(i, a) \/ onStartCommandFailed(i, a)
          PROVE  Kept
        <3>1. mainQ # <<>> /\ mainQ[1].what = "startCommand"
            BY <2>7, Zenon DEF onStartCommandEstablished, onStartCommandFailed, PluginInv,
               MainThread, InMessage
        <3>2. Posts(Tail(mainQ), mainQ')
            BY <2>7, ExecPosts, Zenon DEF onStartCommandEstablished, onStartCommandFailed, Posts
        <3>3. UNCHANGED <<service, launched, created, mTunnel, tunnelManager>> /\ mainPc' = "idle"
            BY <2>7, Zenon DEF onStartCommandEstablished, onStartCommandFailed, startRouting,
               startRoutingFails, stateVars, tunnelVars
        <3> QED
            BY <3>1, <3>2, <3>3, FrameTail, Zenon
    <2> QED
        BY <1>3, <2>1, <2>2, <2>3, <2>4, <2>5, <2>6, <2>7, Zenon DEF ServiceCallback
<1>4. ASSUME NEW ok \in BOOLEAN, onActivityResult(ok) PROVE Kept
    <2>1. mainQ # <<>> /\ mainQ[1].what = "activityResult"
        BY <1>q, <1>4 DEF onActivityResult, atHead, result
    <2>2. Posts(Tail(mainQ), mainQ')
        BY <1>4, Zenon DEF onActivityResult, Posts
    <2>3. mainPc' \in {"idle", "plugin"}
        BY <1>4, Zenon DEF onActivityResult, atHead
    <2> QED
        BY <1>4, <2>1, <2>2, <2>3, FrameTail, Zenon DEF onActivityResult, tunnelVars, stateVars
<1>5. ASSUME onReceive PROVE Kept
    <2>1. mainQ # <<>> /\ mainQ[1].what = "broadcasts" /\ mainPc = "idle"
        BY <1>q, <1>5 DEF onReceive, atHead, execPending
    <2>2. UNCHANGED <<service, launched, created, mTunnel, tunnelManager, m_tunnelThread, mainPc>>
        BY <1>5, Zenon DEF onReceive, tunnelVars, stateVars, managerVars
    <2>3. mainQ' = Tail(mainQ) \/ mainQ' = mainQ
        BY <1>5, Zenon DEF onReceive
    <2>4. CASE mainQ' = Tail(mainQ)
        <3>1. Posts(Tail(mainQ), mainQ')
            BY <2>4, Zenon DEF Posts
        <3> QED
            BY <2>1, <2>2, <3>1, FrameTail, Zenon
    <2>5. CASE mainQ' = mainQ
        BY <1>p, <2>2, <2>5, Frame, Zenon
    <2> QED
        BY <2>3, <2>4, <2>5, Zenon
<1>6. ASSUME NEW r \in Runs, RunThread(r) PROVE Kept
    <2>1. CASE runTunnelBroadcast(r)
        BY <1>p, <2>1, Frame, Zenon DEF runTunnelBroadcast, sendBroadcast, tunnelVars, stateVars, managerVars
    <2>2. CASE runTunnelStopSelf(r)
        <3>1. owner[r] \in Services
            BY <2>2, OneTunnelPerService, Zenon DEF runTunnelStopSelf, PluginInv, Owners, TunnelInv, TunnelTypeOK
        <3> QED
            BY <1>p, <2>2, <3>1, Stops, Zenon DEF runTunnelStopSelf, tunnelVars, stateVars, managerVars
    <2>3. CASE runTunnel(r)
        BY <1>p, <2>3, Frame, Zenon DEF runTunnel, startTunneling, androidVars, stateVars, managerVars
    <2>4. CASE runTunnelAwait(r) \/ runTunnelWake(r) \/ runTunnelFinally(r) \/ runTunnelClears(r)
        BY <1>p, <2>4, Frame, Zenon DEF runTunnelAwait, runTunnelWake, runTunnelFinally, runTunnelClears,
           androidVars, tunnelVars, stateVars, managerVars
    <2>5. CASE runTunnelStops(r)
        <3>1. UNCHANGED <<created, mTunnel>>
            BY <2>5, Zenon DEF runTunnelStops, stopTunnelingIdle, stopTun2Socks, stopTunnelingReturns,
               stopIdle, stopReturns, tunnelVars
        <3> QED
            BY <1>p, <2>5, <3>1, Frame, Zenon DEF runTunnelStops, androidVars, stateVars, managerVars
    <2> QED
        BY <1>6, <2>1, <2>2, <2>3, <2>4, <2>5, Zenon DEF RunThread
<1>7. ASSUME NEW i \in Services, NativeThread(i) \/ DeviceFails(i) PROVE Kept
    <2>1. UNCHANGED <<created, mTunnel>>
        BY <1>7, Zenon DEF NativeThread, DeviceFails, runTun2Socks, pollTerminate, runReturns, runFails, leave
    <2> QED
        BY <1>p, <1>7, <2>1, Frame, Zenon DEF NativeThread, DeviceFails, aside, androidVars, stateVars, managerVars
<1>8. ASSUME NEW i \in Services, onRevoke(i) PROVE Kept
    BY <1>p, <1>8, Stops, Zenon DEF onRevoke, tunnelVars, stateVars, managerVars
<1> QED
    BY <1>1, <1>2, <1>3, <1>4, <1>5, <1>6, <1>7, <1>8, Zenon DEF Next, MainLooper

(* Only newTunnel changes the set of Tunnels, and it adds one.              *)
LEMMA CreatedGrows ==
    ASSUME PluginInv, [TunnelNext]_tunnelVars
    PROVE  created \subseteq created'
BY Zenon DEF TunnelNext, NewTunnel, Call, Native, newTunnelStops, newTunnelFirst, newTunnelIdle, newTunnelReturns,
   construct, stopTun2Socks, startRouting, startRoutingFails, startTunneling, stopTunnelingIdle, stopIdle,
   stopTunnelingReturns, stopReturns, runTun2Socks, pollTerminate, runFails, leave, runReturns, tunnelVars

(* Every step keeps the owners of the runTunnel threads.                    *)
LEMMA OwnersStep ==
    ASSUME PluginInv, Next
    PROVE  Owners'
<1>c. created \subseteq created'
    BY UsesTunnel, CreatedGrows, Zenon
<1>r. run \in [Runs -> RunSteps] /\ owner \in [Runs -> Services \cup {NoTunnel}]
    BY Zenon DEF PluginInv, TypeOK, ServiceTypeOK
<1>o. Owners
    BY Zenon DEF PluginInv
<1>1. CASE UNCHANGED <<run, owner>>
    BY <1>1, <1>c, <1>o, Zenon DEF Owners
<1>2. ASSUME NEW i \in Services, NEW a \in Addresses, onStartCommandEstablished(i, a)
      PROVE  Owners'
    <2>1. i \in created
        <3>1. mainQ # <<>> /\ Head(mainQ) = mainQ[1]
            BY <1>2, Dequeued, Zenon DEF onStartCommandEstablished, PluginInv, MainThread, InMessage, Queue, QueueInv
        <3>2. mainQ[1].what = "startCommand" /\ mainQ[1].who = i
            BY <1>2, <3>1 DEF onStartCommandEstablished, startCmd
        <3> QED
            BY <3>1, <3>2, FirstIsCurrent, Zenon DEF PluginInv
    <2>2. PICK r \in Runs : /\ run' = [run EXCEPT ![r] = "begin"]
                            /\ owner' = [owner EXCEPT ![r] = i]
        BY <1>2, Zenon DEF onStartCommandEstablished, startTunnel
    <2> QED
        BY <1>c, <1>o, <1>r, <2>1, <2>2, Zenon DEF Owners
<1>3. ASSUME NEW r \in Runs, RunThread(r) PROVE Owners'
    <2>1. PICK s \in RunSteps : goto(r, s) /\ s # "unused"
        BY <1>3, Zenon DEF RunThread, runTunnel, runTunnelBroadcast, runTunnelAwait, runTunnelWake, runTunnelFinally,
           runTunnelStops, runTunnelStopSelf, runTunnelClears, RunSteps
    <2>2. run[r] # "unused" /\ UNCHANGED owner
        BY <1>3, Zenon DEF RunThread, runTunnel, runTunnelBroadcast, runTunnelAwait, runTunnelWake, runTunnelFinally,
           runTunnelStops, runTunnelStopSelf, runTunnelClears
    <2> QED
        BY <1>c, <1>o, <1>r, <2>1, <2>2, Zenon DEF Owners, goto
<1>4. ASSUME User \/ (\E t \in PluginThreads : Plugin(t)) \/ onReceive \/ (\E ok \in BOOLEAN : onActivityResult(ok))
      PROVE  UNCHANGED <<run, owner>>
    BY <1>4, Zenon DEF User, Plugin, executeStart, executeStop, pluginDestroyed, userAnswers, isServiceRunning,
       getTunnelManager, restartTunnelSame, restartTunnel, restartTunnelReconnects, signalManager,
       startTunnelService, startTunnelServiceNull, setStartingTunnelManager, stopTunnelService, onReceive,
       onActivityResult, serviceVars, runVars
<1>5. ASSUME NEW i \in Services,
             \/ createService(i) \/ createServiceStops(i) \/ createServiceReturns(i)
             \/ onDestroy(i) \/ onDestroyJoined(i) \/ onRevoke(i) \/ NativeThread(i) \/ DeviceFails(i)
             \/ \E a \in Addresses : onStartCommand(i, a) \/ onStartCommandFailed(i, a)
      PROVE  UNCHANGED <<run, owner>>
    BY <1>5, Zenon DEF createService, createServiceStops, createServiceReturns, onCreate, onDestroy, onDestroyJoined,
       onRevoke, NativeThread, DeviceFails, aside, onStartCommand, onStartCommandFailed, runVars
<1> QED
    BY <1>1, <1>2, <1>3, <1>4, <1>5, Zenon DEF Next, MainLooper, ServiceCallback

(* Posting another message brings no consent result.                        *)
LEMMA NoResultAppended ==
    ASSUME NEW q \in Seq(Messages), NoResult(q), NEW m \in Messages, m.what # "activityResult"
    PROVE  NoResult(Append(q, m))
BY Appended DEF NoResult

(* Nor does handling one.                                                   *)
LEMMA NoResultDequeued ==
    ASSUME NEW q \in Seq(Messages), NoResult(q), q # <<>>
    PROVE  NoResult(Tail(q))
BY Dequeued DEF NoResult

(* Nor does sendBroadcast.                                                  *)
LEMMA NoResultExec ==
    ASSUME NEW q \in Seq(Messages), NoResult(q)
    PROVE  withExec(q) \in Seq(Messages) /\ NoResult(withExec(q))
<1>1. execPending \in Messages /\ execPending.what # "activityResult"
    BY DEF Messages, execPending
<1> QED
    BY <1>1, NoResultAppended, Appended, Zenon DEF withExec

(* A consent result comes only from a dialog.                               *)
LEMMA NoResultStep ==
    ASSUME PluginInv, Next, NoResult(mainQ), dialogs = 0
    PROVE  NoResult(mainQ')
<1>t. mainQ \in Seq(Messages) /\ service \in launched \cup {NoService} /\ launched \subseteq Services
    BY Zenon DEF PluginInv, TypeOK, ServiceTypeOK, AndroidTypeOK
<1>m. \A i \in Services : destroy(i) \in Messages /\ destroy(i).what # "activityResult"
    BY DEF Messages, destroy
<1>e. NoResult(withExec(mainQ)) /\ withExec(mainQ) \in Seq(Messages)
    BY <1>t, NoResultExec, Zenon
<1>1. CASE mainQ' = mainQ \/ mainQ' = withExec(mainQ)
    BY <1>1, <1>e, Zenon
<1>2. CASE mainQ # <<>> /\ (mainQ' = Tail(mainQ) \/ mainQ' = withExec(Tail(mainQ)))
    BY <1>2, <1>t, NoResultDequeued, NoResultExec, Dequeued, Zenon
<1>3. ASSUME NEW i \in Services, mainQ' = Append(mainQ, destroy(i)) \/ mainQ' = Append(withExec(mainQ), destroy(i))
      PROVE  NoResult(mainQ')
    BY <1>3, <1>t, <1>e, <1>m, NoResultAppended, Zenon
<1>4. ASSUME address \in Addresses, startService(address) PROVE NoResult(mainQ')
    <2>1. ASSUME NEW i \in Services
          PROVE  /\ create(i) \in Messages /\ create(i).what # "activityResult"
                 /\ startCmd(i, address) \in Messages
                 /\ startCmd(i, address).what # "activityResult"
        <3>1. create(i) \in Messages /\ startCmd(i, address) \in Messages
            BY <1>4 DEF Messages
        <3> QED
            BY <3>1, Zenon DEF create, startCmd
    <2>2. CASE service # NoService
        <3>1. service \in Services /\ mainQ' = Append(mainQ, startCmd(service, address))
            BY <1>4, <1>t, <2>2, Zenon DEF startService
        <3> QED
            BY <1>t, <2>1, <3>1, NoResultAppended, Zenon
    <2>3. CASE service = NoService
        <3>1. PICK i \in Services : mainQ' = mainQ \o <<create(i), startCmd(i, address)>>
            BY <1>4, <2>3, Zenon DEF startService
        <3>2. mainQ' = Append(Append(mainQ, create(i)), startCmd(i, address))
            BY <1>t, <2>1, <3>1
        <3> QED
            BY <1>t, <2>1, <3>2, NoResultAppended, Appended, Zenon
    <2> QED
        BY <2>2, <2>3, Zenon
<1>5. ASSUME User PROVE mainQ' = mainQ
    BY <1>5 DEF User, executeStart, executeStop, pluginDestroyed, userAnswers, serviceVars, androidVars
<1>6. ASSUME NEW t \in PluginThreads, Plugin(t)
      PROVE  mainQ' = mainQ \/ mainQ' = withExec(mainQ) \/ (address \in Addresses /\ startService(address))
    <2>1. CASE startTunnelService(t)
        BY <2>1, Zenon DEF startTunnelService, at, PluginInv, Addressed, NotStarting
    <2> QED
        BY <1>6, <2>1, Zenon DEF Plugin, isServiceRunning, getTunnelManager, restartTunnelSame, restartTunnel,
           restartTunnelReconnects, signalManager, startTunnelServiceNull, setStartingTunnelManager,
           stopTunnelService, sendBroadcast, serviceVars, androidVars
<1>7. ASSUME MainLooper
      PROVE  mainQ' = mainQ \/ (mainQ # <<>> /\ (mainQ' = Tail(mainQ) \/ mainQ' = withExec(Tail(mainQ))))
    <2>1. ASSUME NEW i \in Services,
                 \/ createService(i) \/ createServiceStops(i) \/ createServiceReturns(i)
                 \/ onDestroy(i) \/ onDestroyJoined(i)
          PROVE  mainQ' = mainQ \/ (mainQ # <<>> /\ mainQ' = Tail(mainQ))
        BY <2>1, Zenon DEF createService, createServiceStops, createServiceReturns, onCreate, onDestroy,
           onDestroyJoined, atHead, androidVars, PluginInv, MainThread, InMessage
    <2>2. ASSUME NEW i \in Services, NEW a \in Addresses,
                 onStartCommand(i, a) \/ onStartCommandEstablished(i, a) \/ onStartCommandFailed(i, a)
          PROVE  mainQ' = mainQ \/ (mainQ # <<>> /\ (mainQ' = Tail(mainQ) \/ mainQ' = withExec(Tail(mainQ))))
        BY <2>2, Zenon DEF onStartCommand, onStartCommandEstablished, onStartCommandFailed, androidVars,
           PluginInv, MainThread, InMessage
    <2>3. ASSUME onReceive \/ \E ok \in BOOLEAN : onActivityResult(ok)
          PROVE  mainQ' = mainQ \/ (mainQ # <<>> /\ mainQ' = Tail(mainQ))
        BY <2>3, Zenon DEF onReceive, onActivityResult, atHead
    <2> QED
        BY <1>7, <2>1, <2>2, <2>3, Zenon DEF MainLooper, ServiceCallback
<1>8. ASSUME NEW r \in Runs, RunThread(r)
      PROVE  mainQ' = mainQ \/ mainQ' = withExec(mainQ) \/ \E i \in Services : mainQ' = Append(mainQ, destroy(i))
    <2>1. CASE runTunnelStopSelf(r)
        BY <2>1, OneTunnelPerService, Zenon DEF runTunnelStopSelf, stopSelf, PluginInv, Owners, TunnelInv, TunnelTypeOK
    <2> QED
        BY <1>8, <2>1, Zenon DEF RunThread, runTunnel, runTunnelBroadcast, runTunnelAwait, runTunnelWake,
           runTunnelFinally, runTunnelStops, runTunnelClears, sendBroadcast, androidVars
<1>9. ASSUME NEW i \in Services, onRevoke(i) \/ NativeThread(i) \/ DeviceFails(i)
      PROVE  mainQ' = mainQ \/ mainQ' = withExec(mainQ) \/ mainQ' = Append(withExec(mainQ), destroy(i))
    BY <1>9, Zenon DEF onRevoke, stopSelf, NativeThread, DeviceFails, aside, androidVars
<1> QED
    BY <1>1, <1>2, <1>3, <1>4, <1>5, <1>6, <1>7, <1>8, <1>9, Zenon DEF Next

(* Every step keeps the address set once it can be read.                    *)
LEMMA AddressedStep ==
    ASSUME PluginInv, Next
    PROVE  Addressed'
<1>1. UNCHANGED address \/ \E a \in Addresses : executeStart(a)
    BY Zenon DEF Next, User, Plugin, MainLooper, ServiceCallback, RunThread, executeStop, pluginDestroyed,
       userAnswers, isServiceRunning, getTunnelManager, restartTunnelSame, restartTunnel,
       restartTunnelReconnects, signalManager, startTunnelService, startTunnelServiceNull,
       setStartingTunnelManager, stopTunnelService, onReceive, onActivityResult, NativeThread, DeviceFails,
       aside, pluginVars
<1>2. CASE \E a \in Addresses : executeStart(a)
    BY <1>2, Zenon DEF executeStart, Addressed
<1>3. CASE address \in Addresses /\ UNCHANGED address
    BY <1>3, Zenon DEF Addressed
<1>4. CASE address \notin Addresses /\ UNCHANGED address /\ ~\E a \in Addresses : executeStart(a)
    <2>1. /\ dialogs = 0 /\ NoResult(mainQ)
          /\ \A t \in PluginThreads : pluginPc[t] \in NotStarting
        BY <1>4, Zenon DEF PluginInv, Addressed
    <2>2. NoResult(mainQ')
        BY <2>1, NoResultStep, Zenon
    <2>3. pluginPc \in [PluginThreads -> PluginSteps]
        BY Zenon DEF PluginInv, TypeOK
    <2>4. dialogs' = 0 /\ \A t \in PluginThreads : pluginPc'[t] \in NotStarting
        <3>1. CASE UNCHANGED <<dialogs, pluginPc>>
            BY <2>1, <3>1, Zenon
        <3>2. CASE User
            BY <1>4, <2>1, <2>3, <3>2 DEF User, executeStop, pluginDestroyed, userAnswers, step, PluginThreads, NotStarting
        <3>3. ASSUME NEW t \in PluginThreads, Plugin(t)
              PROVE  dialogs' = 0 /\ \A u \in PluginThreads : pluginPc'[u] \in NotStarting
            <4>1. signalManager(t) \/ stopTunnelService(t)
                BY <2>1, <3>3, Zenon DEF Plugin, isServiceRunning, getTunnelManager, restartTunnelSame, restartTunnel,
                   restartTunnelReconnects, startTunnelService, startTunnelServiceNull, setStartingTunnelManager,
                   at, NotStarting
            <4> QED
                BY <2>1, <2>3, <4>1, Zenon DEF signalManager, stopTunnelService, leavePlugin, useManager, step, NotStarting
        <3>4. ASSUME NEW ok \in BOOLEAN, onActivityResult(ok) PROVE FALSE
            <4>1. mainQ # <<>> /\ mainQ[1] = result(ok) /\ 1 \in 1..Len(mainQ)
                BY <3>4, Dequeued DEF onActivityResult, atHead, PluginInv, Queue, QueueInv
            <4> QED
                BY <2>1, <4>1 DEF NoResult, result
        <3> QED
            BY <3>1, <3>2, <3>3, <3>4, Zenon DEF Next, MainLooper, ServiceCallback, RunThread, onReceive,
               NativeThread, DeviceFails, aside, pluginVars
    <2> QED
        BY <2>1, <2>2, <2>4, Zenon DEF Addressed
<1> QED
    BY <1>1, <1>2, <1>3, <1>4, Zenon

(* Before the first start() the invariant holds.                            *)
LEMMA PluginInit == Init => PluginInv
<1> SUFFICES ASSUME Init PROVE PluginInv
    OBVIOUS
<1> USE DEF Init, ServiceInit, AndroidInit
<1>1. TunnelInv
    BY InitInv, Zenon
<1>2. TypeOK
    <2>1. mainQ \in Seq(Messages) /\ pending \in Seq(Broadcasts)
        OBVIOUS
    <2>2. /\ m_isReconnecting \in [Services -> BOOLEAN] /\ counted \in [Runs -> BOOLEAN]
          /\ startingTunnelManager \in BOOLEAN /\ TunnelTypeOK
        BY <1>1, Zenon DEF TunnelInv
    <2>3. ServiceTypeOK
        BY <2>1, <2>2, Zenon DEF ServiceTypeOK, AndroidTypeOK, MainSteps, RunSteps
    <2>4. /\ pluginPc \in [PluginThreads -> PluginSteps] /\ found \in [PluginThreads -> Services \cup {NoTunnel}]
          /\ callback \in [1..MaxStarts -> {"unused", "waiting", "success", "error"}]
        BY Zenon DEF PluginSteps
    <2>5. starts \in 0..MaxStarts /\ stops \in 0..MaxStops /\ dialogs \in 0..MaxDialogs /\ shown \in 0..MaxDialogs
        BY PluginBounds
    <2> QED
        BY <2>3, <2>4, <2>5, Zenon DEF TypeOK
<1>3. Len(mainQ) = 0 /\ created = {}
    BY Zenon DEF TunnelInit
<1>4. Queue
    <2>1. 1..Len(mainQ) = {}
        BY <1>3
    <2>2. mainQ \in Seq(Messages) /\ service = NoService
        BY <1>2, Zenon DEF TypeOK, ServiceTypeOK, AndroidTypeOK
    <2> QED
        BY <1>3, <2>1, <2>2, Zenon DEF Queue, QueueInv
<1>5. MainThread /\ Registered /\ Owners /\ Dialogs
    BY DEF MainThread, Registered, Owners, Dialogs
<1>6. Addressed
    BY <1>3 DEF Addressed, NoResult, NotStarting
<1> QED
    BY <1>1, <1>2, <1>4, <1>5, <1>6, Zenon DEF PluginInv

(* Every step keeps the invariant and is a step of Tunnel.                  *)
LEMMA PluginStep ==
    ASSUME PluginInv, [Next]_vars
    PROVE  PluginInv' /\ [TunnelNext]_tunnelVars
<1>1. CASE Next
    <2>1. [TunnelNext]_tunnelVars
        BY <1>1, UsesTunnel, Zenon
    <2>2. TunnelInv'
        BY <2>1, TunnelStep, Zenon DEF PluginInv
    <2>3. Queue' /\ MainThread' /\ Registered'
        BY <1>1, QueueStep, Zenon
    <2>4. mainQ' \in Seq(Messages) /\ TunnelTypeOK'
        BY <2>2, <2>3, Zenon DEF Queue, QueueInv, TunnelInv
    <2>5. \A r \in Runs : run[r] # "unused" => owner[r] \in Services
        BY OneTunnelPerService, Zenon DEF PluginInv, Owners, TunnelInv, TunnelTypeOK
    <2>6. TypeOK' /\ Dialogs'
        BY <1>1, <2>4, <2>5, Types, Zenon DEF PluginInv
    <2>7. Owners' /\ Addressed'
        BY <1>1, OwnersStep, AddressedStep, Zenon
    <2> QED
        BY <2>1, <2>2, <2>3, <2>6, <2>7, Zenon DEF PluginInv
<1>2. CASE UNCHANGED vars
    <2> USE <1>2 DEF vars, serviceVars, androidVars, tunnelVars, stateVars, managerVars, runVars, pluginVars
    <2>1. TypeOK'
        BY Zenon DEF PluginInv, TypeOK, ServiceTypeOK, AndroidTypeOK, TunnelTypeOK
    <2>2. TunnelInv'
        BY TunnelStep, Zenon DEF PluginInv
    <2>3. Queue' /\ MainThread' /\ Registered'
        BY Zenon DEF PluginInv, Queue, MainThread, InMessage, Registered
    <2>4. Owners' /\ Addressed' /\ Dialogs'
        BY Zenon DEF PluginInv, Owners, Addressed, Dialogs
    <2> QED
        BY <2>1, <2>2, <2>3, <2>4, Zenon DEF PluginInv
<1> QED
    BY <1>1, <1>2, Zenon

(* PluginInv holds for any number of services, threads, start() and stop()  *)
(* calls and consent dialogs.                                               *)
THEOREM PluginInvariance == Spec => []PluginInv
BY PluginInit, PluginStep, PTL DEF Spec

(* Every field of plugin, service and manager keeps its type.               *)
THEOREM PluginTypesHold == Spec => []TypeOK
BY PluginInvariance, PTL DEF PluginInv

(* The plugin and its services are a legal client of the Tunnel class:      *)
(* whatever they do is a behaviour of TunnelSpec                            *)
(* (TunnelManager.java:137-172, Tunnel.java:101-121).                       *)
THEOREM PluginUsesTunnel == Spec => TunnelSpec
<1>1. Init => TunnelInit
    BY Zenon DEF Init, ServiceInit
<1> QED
    BY <1>1, PluginInvariance, PluginStep, PTL DEF Spec, TunnelSpec

(* TunnelState never points at the manager of a destroyed service           *)
(* (TunnelVpnService.java:68-78).                                           *)
THEOREM NoDeadManagers == Spec => []NoDeadManager
<1>1. PluginInv => NoDeadManager
    <2> SUFFICES ASSUME PluginInv, NEW i \in Services, Gone(i) PROVE tunnelManager # i
        BY Zenon DEF NoDeadManager
    <2>1. i \in launched /\ service # i /\ Len(mainQ) = 0
        BY Zenon DEF Gone
    <2> QED
        BY <2>1 DEF PluginInv, Registered, Has
<1> QED
    BY <1>1, PluginInvariance, PTL

(* At most one tun2socks thread exists in the process, also when the        *)
(* consent race puts two runTunnel threads on one manager                   *)
(* (Tunnel.java:69-71).                                                     *)
THEOREM PluginHasOneNativeThread == Spec => []OneNativeThread
BY PluginUsesTunnel, AtMostOneNativeThread, PTL

(* Whatever the plugin does, a tun2socks thread never works on a closed     *)
(* descriptor (Tunnel.java:226-236, 255-271).                               *)
THEOREM PluginKeepsDeviceOpen == Spec => []DeviceOpenWhileUsed
BY PluginUsesTunnel, DeviceStaysOpen, PTL

(* Every step of the plugin and its services is a legal step of Tunnel      *)
(* (TunnelManager.java:137-172, Tunnel.java:101-121).                       *)
THEOREM PluginTakesTunnelSteps == Spec => TunnelSteps
BY PluginUsesTunnel, PTL DEF TunnelSpec, TunnelSteps
=============================================================================
