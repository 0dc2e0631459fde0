-------------------------- MODULE UdpGwFlowProofs --------------------------
(***************************************************************************)
(* Proofs about what the gateway and its client carry, for any numbers of  *)
(* conids, connections, applications and addresses.  UdpGwProofs shows     *)
(* that every step keeps the parts of FlowInv, if there is a conid when    *)
(* the client takes one and memory when the gateway makes a connection.    *)
(* Here both are shown by counting, and three properties follow.           *)
(***************************************************************************)
EXTENDS UdpGwProofs, FiniteSetTheorems, WellFoundedInduction

(* A set of naturals that is not empty has a least element.                 *)
LEMMA LeastExists ==
  ASSUME NEW S \in SUBSET Nat, S # {}
  PROVE  Min(S) \in S
<1>1. PICK x \in S : \A y \in S : ~ (<<y, x>> \in OpToRel(<, Nat))
  BY NatLessThanWellFounded, WFMin
<1>2. \A y \in S : x <= y
  <2> TAKE y \in S
  <2>1. x \in Nat /\ y \in Nat
    OBVIOUS
  <2>2. ~ (y < x)
    BY <1>1, <2>1 DEF OpToRel
  <2> QED  BY <2>1, <2>2
<1> QED  BY <1>2, Zenon DEF Min

(* A list that is shorter than a set leaves one of the set out.             *)
LEMMA NotAll ==
  ASSUME NEW S, NEW list \in Seq(S), NEW n \in Nat, NEW T, ExistsBijection(1 .. n, T),
         Len(list) < n
  PROVE  \E x \in T : ~Holds(list, x)
<1> SUFFICES ASSUME \A x \in T : Holds(list, x)  PROVE FALSE
  BY Zenon
<1>0. PICK z : z \in T
  BY DEF ExistsBijection, Bijection, Injection
<1> DEFINE f == [i \in 1 .. Len(list) |-> IF list[i] \in T THEN list[i] ELSE z]
<1>1. f \in Surjection(1 .. Len(list), T)
  BY <1>0 DEF Surjection, Holds
<1>2. Cardinality(T) <= Len(list)
  BY <1>1, FS_SurjCardinalityBound DEF ExistsSurjection
<1>3. Cardinality(T) = n
  BY FS_CountingElements
<1> QED  BY <1>2, <1>3

(* Conids are numbers below m: once around is the same one.                 *)
LEMMA Around ==
  ASSUME NEW m \in Nat \ {0}, NEW c \in 0 .. m - 1
  PROVE  c % m = c /\ (c + m) % m = c
  OBVIOUS

(* find_unused_conid goes around all conids, and finds one that is free.    *)
LEMMA UnusedConid ==
  ASSUME ConaddrInv
  PROVE  ConidIsFree
<1> SUFFICES ASSUME Len(connections_list) < max_connections
             PROVE  find_unused_conid \in Conids /\ conaddr[find_unused_conid] = NoAddr
  BY Zenon DEF ConidIsFree
<1>0. max_connections \in Nat \ {0} /\ connections_list \in Seq(Conids) /\ next_conid \in Conids
  BY ClientConstants, Zenon DEF ConaddrInv
<1>1. ExistsBijection(1 .. max_connections, Conids)
  <2> DEFINE f == [i \in 1 .. max_connections |-> i - 1]
  <2>1. f \in [1 .. max_connections -> Conids]
    BY <1>0 DEF Conids
  <2>2. \A c \in Conids : c + 1 \in 1 .. max_connections /\ f[c + 1] = c
    BY <1>0 DEF Conids
  <2>3. \A i, j \in 1 .. max_connections : f[i] = f[j] => i = j
    OBVIOUS
  <2>4. f \in Bijection(1 .. max_connections, Conids)
    BY <2>1, <2>2, <2>3 DEF Bijection, Injection, IsInjective, Surjection
  <2> QED  BY <2>4, Zenon DEF ExistsBijection
<1>2. PICK c \in Conids : ~Holds(connections_list, c)
  BY <1>0, <1>1, NotAll
<1>3. conaddr[c] = NoAddr
  BY <1>2, Zenon DEF ConaddrInv
<1> DEFINE steps == {k \in Conids : conaddr[(next_conid + k) % max_connections] = NoAddr}
           k == IF c >= next_conid THEN c - next_conid ELSE (c - next_conid) + max_connections
<1>4. k \in Conids /\ (next_conid + k = c \/ next_conid + k = c + max_connections)
  BY <1>0 DEF Conids
<1>5. c % max_connections = c /\ (c + max_connections) % max_connections = c
  BY <1>0, Around DEF Conids
<1> HIDE DEF k
<1>6. (next_conid + k) % max_connections = c
  BY <1>4, <1>5
<1>7. steps # {} /\ steps \in SUBSET Nat
  <2>1. k \in steps
    BY <1>3, <1>4, <1>6
  <2>2. Conids \subseteq Nat
    BY DEF Conids
  <2> QED  BY <2>1, <2>2
<1> HIDE DEF steps
<1>8. Min(steps) \in steps
  BY <1>7, LeastExists
<1>9. find_unused_conid = (next_conid + Min(steps)) % max_connections
  BY Zenon DEF find_unused_conid, steps
<1>10. Min(steps) \in Conids /\ conaddr[find_unused_conid] = NoAddr
  BY <1>8, <1>9, Zenon DEF steps
<1>11. find_unused_conid \in Conids
  BY <1>0, <1>9, <1>10 DEF Conids
<1> QED  BY <1>10, <1>11

(* One connection is closing at most, so there is memory for another.       *)
LEMMA FreeObjectExists == ObjectIsFree
<1> SUFFICES ASSUME NEW cons, NEW list, ListOk(cons, list),
                    cons \in [Objects -> Connections \union {FreeObject}], AreSending(cons)
             PROVE  Min({o \in Objects : cons[o].state = "free"})
                      \in {o \in Objects : cons[o].state = "free"}
  BY Zenon DEF ObjectIsFree
<1> DEFINE S == Objects \union {server_sending}
           all == Append(list, server_sending)
           n == max_connections_for_client + 2
<1>1. list \in Seq(Objects) /\ Len(list) <= max_connections_for_client
      /\ \A o \in Objects : Holds(list, o) <=> cons[o].state = "live"
  BY Zenon DEF ListOk
<1>2. list \in Seq(S) /\ server_sending \in S /\ n \in Nat /\ Len(list) < n - 1
  BY <1>1, ServerConstants
<1>3. /\ all \in Seq(S) /\ Len(all) = Len(list) + 1
      /\ \A y : Holds(all, y) <=> Holds(list, y) \/ y = server_sending
  BY <1>2, AppendHolds DEF LinkedList1_Append
<1>4. Len(all) < n
  BY <1>2, <1>3
<1>5. ExistsBijection(1 .. n, Objects)
  <2>1. [i \in 1 .. n |-> i] \in Bijection(1 .. n, Objects)
    BY DEF Bijection, Injection, IsInjective, Surjection, Objects
  <2> QED  BY <2>1, Zenon DEF ExistsBijection
<1> HIDE DEF S, all, n
<1>6. PICK x \in Objects : ~Holds(all, x)
  BY <1>2, <1>3, <1>4, <1>5, NotAll
<1>7. cons[x].state # "live" /\ cons[x].state # "closing"
  BY <1>1, <1>3, <1>6, Zenon DEF AreSending
<1>8. cons[x].state = "free"
  BY <1>7, NotFree
<1> DEFINE F == {o \in Objects : cons[o].state = "free"}
<1>9. F \in SUBSET Nat /\ F # {}
  BY <1>6, <1>8, ServerConstants DEF Objects
<1> HIDE DEF F
<1>10. Min(F) \in F
  BY <1>9, LeastExists
<1> QED  BY <1>10 DEF F
-----------------------------------------------------------------------------
(* The inductive invariant.  AskInv is about the streams and the tables:    *)
(* packets, sockets and answers of a conid that was not reused are of its   *)
(* application, the lists hold just the conids that are taken and the       *)
(* connections that are live.  WayInv is about the packets on their way to  *)
(* the gateway: those of a conid change from one application to another     *)
(* only at a packet with REBIND.                                            *)
FlowInv == UdpInv /\ ServerInv /\ AskInv /\ WayInv

LEMMA FlowInvHolds == Spec => []FlowInv
<1>1. Init => FlowInv
  <2> SUFFICES ASSUME Init  PROVE FlowInv
    OBVIOUS
  <2>1. UdpInv
    BY InitUdpInv, Zenon
  <2>2. ServerInv
    BY FreedKeepsServerInv, Zenon DEF Init, ServerInit
  <2>3. Empty
    BY Zenon DEF Init, SocksUdpGwClient_Init, UdpGwClient_Init, ServerInit, Empty
  <2> QED  BY <2>1, <2>2, <2>3, EmptyFlow, Zenon DEF FlowInv
<1>2. FlowInv /\ [Next]_vars => FlowInv'
  <2> SUFFICES ASSUME FlowInv, [Next]_vars  PROVE FlowInv'
    OBVIOUS
  <2>1. UdpInv /\ ServerInv /\ AskInv /\ WayInv
    BY Zenon DEF FlowInv
  <2>2. UdpInv'
    BY <2>1, NextUdpInv, Zenon
  <2>3. ServerInv'
    BY <2>1, NextServerInv, Zenon
  <2>4. ConidIsFree
    BY <2>1, UnusedConid, Zenon DEF AskInv
  <2>5. AskInv' /\ WayInv'
    BY <2>1, <2>4, FreeObjectExists, NextKeepsFlow, Zenon DEF UdpInv
  <2> QED  BY <2>2, <2>3, <2>5, Zenon DEF FlowInv
<1> QED  BY <1>1, <1>2, PTL DEF Spec

(* What recv_interface_handler_send accepts from the gateway came in on a   *)
(* socket that was opened for the address it is delivered for and, while    *)
(* the conid has served one pair, was used by its application alone,        *)
(* whatever was lost, dropped or closed before.                             *)
THEOREM AskersAreReached == Spec => []RepliesReachAsker
<1>1. FlowInv => RepliesReachAsker
  <2> SUFFICES ASSUME FlowInv, toClient # <<>>, NEW m, m = Head(toClient), accepts(m)
               PROVE  /\ conaddr[m.conid][2] = m.remote
                      /\ m.conid \notin reused => m.users = {conaddr[m.conid][1]}
    BY Zenon DEF RepliesReachAsker
  <2>1. toClient \in Seq(Answers)
    BY Zenon DEF FlowInv, AskInv, StreamInv
  <2>2. m \in Answers
    BY <2>1, SeqTail, Zenon
  <2> QED  BY <2>2, Zenon DEF Answers, Asked, accepts
<1> QED  BY <1>1, FlowInvHolds, PTL

(* A socket of the gateway sends the packets of one application: as long as *)
(* its REBIND is not dropped, reuse_connection gets a new socket however    *)
(* the packets of both owners follow each other (the "close old" of         *)
(* client_recv_if_handler_send).                                            *)
THEOREM OneApplicationPerSocket == Spec => []SocketsAreNotShared
<1>1. FlowInv => SocketsAreNotShared
  <2> SUFFICES ASSUME FlowInv, NEW o \in Objects, con[o].state = "live",
                      con[o].conid \notin rebind_lost
               PROVE  Cardinality(con[o].users) = 1
    BY Zenon DEF SocketsAreNotShared, Live
  <2>1. con \in [Objects -> Connections \union {FreeObject}] /\ WayInv
    BY Zenon DEF FlowInv, AskInv, ConnectionsOk
  <2>2. con[o] \in Connections
    BY <2>1, NotFree
  <2>3. con[o].conid \in Conids
    BY <2>2 DEF Connections
  <2>4. \E u : con[o].users = {u}
    <3>1. PICK c : c = con[o].conid
      BY Zenon
    <3>2. SocketOk(toServer \o queue[c], c, conaddr[c][1], con[o].users)
      BY <2>1, <2>3, <3>1, Zenon DEF WayInv
    <3> QED  BY <3>2, Zenon DEF SocketOk
  <2> QED  BY <2>4, FS_Singleton, Zenon
<1> QED  BY <1>1, FlowInvHolds, PTL

(* A connection that is closing is the one whose packet is being sent, and  *)
(* the gateway's list holds every live connection once, with one conid each *)
(* (connection_init, connection_close, and the moves to the list's end).    *)
THEOREM ListIsLive == Spec => []ClosingIsBusy
<1>1. FlowInv => ClosingIsBusy
  <2> SUFFICES ASSUME FlowInv  PROVE ClosingIsBusy
    OBVIOUS
  <2>1. Closing \subseteq {server_sending} /\ ListOk(con, server_list)
    BY Zenon DEF FlowInv, ServerInv, AskInv
  <2>2. server_list \in Seq(Objects) /\ Distinct(server_list)
        /\ \A o \in Objects : Holds(server_list, o) <=> con[o].state = "live"
    BY <2>1, Zenon DEF ListOk
  <2>3. \A o \in Objects : o \in Live <=> Holds(server_list, o)
    BY <2>2, Zenon DEF Live
  <2>4. Live \subseteq Objects
    BY Zenon DEF Live
  <2>5. Live = Range(server_list)
    BY <2>2, <2>3, <2>4 DEF Holds, Range
  <2>6. server_list \in Bijection(1 .. Len(server_list), Live)
    BY <2>2, <2>3, <2>4 DEF Holds, Distinct, Bijection, Injection, IsInjective, Surjection
  <2>7. Len(server_list) \in Nat
    BY <2>2
  <2>8. Cardinality(Live) = Len(server_list)
    BY <2>6, <2>7, FS_CountingElements DEF ExistsBijection
  <2>9. \A o, q \in Live : con[o].conid = con[q].conid => o = q
    BY <2>1, Zenon DEF ListOk, Live
  <2> QED  BY <2>1, <2>5, <2>8, <2>9, Zenon DEF ClosingIsBusy
<1> QED  BY <1>1, FlowInvHolds, PTL
=============================================================================
