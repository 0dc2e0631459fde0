---------------------------- MODULE UdpGwProofs ----------------------------
(***************************************************************************)
(* Proofs about DnsRelay and UdpGw for any sets of ids, applications and   *)
(* addresses, any numbers of conids and packets and any times.  First the  *)
(* DNS relay alone: whatever is lost, repeated or reordered, and however   *)
(* ids collide, no application is sent an answer it did not ask for.  Then *)
(* with the gateway: its client always reconnects, it does not drop a      *)
(* client that works, and the DNS relay keeps its promise beside it.  Last *)
(* what each step does to the packets and the lists, which UdpGwFlowProofs *)
(* puts together.                                                          *)
(***************************************************************************)
EXTENDS UdpGw, TLAPS

(* What the counters and the map are, without the bounds.                   *)
Counters ==
    /\ map \in [Ids -> Apps \union {NoApp}]
    /\ relay \in [Ids -> Nat]
    /\ asked \in [Ids \X Apps -> Nat]
    /\ got \in [Ids \X Apps -> Nat]

(* The inductive invariant: an answer is delivered for an entry of the map, *)
(* and it is allowed because the entry is an open question.                 *)
DnsInv == Counters /\ AnswersWereAskedFor /\ EntriesAreOpenQuestions

(* Before the first query nothing is remembered and nothing was answered.   *)
LEMMA InitInv == DnsInit => DnsInv
  BY DnsConstants DEF DnsInit, DnsInv, Counters, AnswersWereAskedFor, EntriesAreOpenQuestions

(* A query (process_device_udp_packet) adds a question before its asker is  *)
(* remembered, so a new entry is open.                                      *)
LEMMA QueryInv ==
  ASSUME DnsInv, NEW id \in Ids, NEW app \in Apps, processDnsQuery(id, app)
  PROVE  DnsInv'
<1>1. asked' = [asked EXCEPT ![<<id, app>>] = asked[<<id, app>>] + 1] /\ got' = got
  BY DEF processDnsQuery
<1>2. \A q \in Ids \X Apps : asked'[q] >= asked[q]
  BY <1>1 DEF DnsInv, Counters
<1>3. Counters' /\ map' \in {map, [map EXCEPT ![id] = app]}
  BY DEF processDnsQuery, DnsInv, Counters, BStringMap_Set
<1>4. AnswersWereAskedFor'
  BY <1>1, <1>2 DEF DnsInv, Counters, AnswersWereAskedFor
<1>5. EntriesAreOpenQuestions'
  <2> SUFFICES ASSUME NEW i \in Ids, map'[i] # NoApp
               PROVE  got'[<<i, map'[i]>>] < asked'[<<i, map'[i]>>]
    BY DEF EntriesAreOpenQuestions
  <2>1. CASE map' = map
    BY <1>1, <1>2, <2>1 DEF DnsInv, Counters, EntriesAreOpenQuestions
  <2>2. CASE map' = [map EXCEPT ![id] = app]
    <3>1. CASE i = id
      BY <1>1, <2>2, <3>1 DEF DnsInv, Counters, AnswersWereAskedFor
    <3>2. CASE i # id
      BY <1>1, <1>2, <2>2, <3>2 DEF DnsInv, Counters, EntriesAreOpenQuestions
    <3> QED  BY <3>1, <3>2
  <2> QED  BY <1>3, <2>1, <2>2
<1> QED  BY <1>3, <1>4, <1>5 DEF DnsInv

(* An answer (udp_fd_handler) uses an open question up, and its entry goes. *)
LEMMA AnswerInv ==
  ASSUME DnsInv, NEW id \in Ids, udpAnswer(id)
  PROVE  DnsInv'
<1>1. CASE map[id] = NoApp
  BY <1>1 DEF udpAnswer, DnsInv, Counters, AnswersWereAskedFor, EntriesAreOpenQuestions
<1>2. CASE map[id] # NoApp
  <2> DEFINE app == map[id]
  <2>1. app \in Apps
    BY <1>2 DEF DnsInv, Counters
  <2>2. /\ map' = [map EXCEPT ![id] = NoApp] /\ asked' = asked
        /\ \/ got' = [got EXCEPT ![<<id, app>>] = got[<<id, app>>] + 1]
           \/ got' = got
    BY <1>2 DEF udpAnswer, BStringMap_Unset
  <2>3. Counters'
    BY <1>2, <2>1, <2>2 DEF udpAnswer, DnsInv, Counters
  <2>4. got[<<id, app>>] < asked[<<id, app>>]
    BY <1>2 DEF DnsInv, EntriesAreOpenQuestions
  <2>5. AnswersWereAskedFor'
    BY <2>1, <2>2, <2>4 DEF DnsInv, Counters, AnswersWereAskedFor
  <2>6. EntriesAreOpenQuestions'
    BY <2>1, <2>2 DEF DnsInv, Counters, EntriesAreOpenQuestions
  <2> QED  BY <2>3, <2>5, <2>6 DEF DnsInv
<1> QED  BY <1>1, <1>2

(* Every step of the DNS path keeps the invariant.                          *)
LEMMA NextInv == DnsInv /\ [DnsNext]_dnsVars => DnsInv'
<1> SUFFICES ASSUME DnsInv, [DnsNext]_dnsVars  PROVE DnsInv'
  OBVIOUS
<1>1. CASE \E id \in Ids, app \in Apps : processDnsQuery(id, app)
  BY <1>1, QueryInv
<1>2. CASE UNCHANGED dnsVars
  BY <1>2 DEF dnsVars, DnsInv, Counters, AnswersWereAskedFor, EntriesAreOpenQuestions
<1>3. CASE udp_fd_handler
  BY <1>2, <1>3, AnswerInv DEF udp_fd_handler, udpNothing
<1>4. CASE relayLoses \/ relayRepeats
  BY <1>4 DEF relayLoses, relayRepeats, DnsInv, Counters, AnswersWereAskedFor, EntriesAreOpenQuestions
<1>5. CASE dnsEmpty
  BY <1>5, DnsConstants DEF dnsEmpty, DnsInv, Counters, AnswersWereAskedFor, EntriesAreOpenQuestions
<1> QED  BY <1>1, <1>2, <1>3, <1>4, <1>5 DEF DnsNext

(* No application is sent more answers for an id than it asked questions    *)
(* with it (udp_fd_handler removes the entry that it uses).                 *)
THEOREM AnswersAreOwed == DnsSpec => []AnswersWereAskedFor
<1>1. DnsSpec => []DnsInv
  BY InitInv, NextInv, PTL DEF DnsSpec
<1>2. DnsInv => AnswersWereAskedFor
  BY DEF DnsInv
<1> QED  BY <1>1, <1>2, PTL

(* Every entry of udp_pcb.map is a question that is still open.             *)
THEOREM EntriesAreOpen == DnsSpec => []EntriesAreOpenQuestions
<1>1. DnsSpec => []DnsInv
  BY InitInv, NextInv, PTL DEF DnsSpec
<1>2. DnsInv => EntriesAreOpenQuestions
  BY DEF DnsInv
<1> QED  BY <1>1, <1>2, PTL
-----------------------------------------------------------------------------
AllFlows == Conids \union {KeepaliveFlow}
IsSeq(q) == Len(q) \in Nat /\ q = [i \in 1 .. Len(q) |-> q[i]]

(* The inductive invariant.  Nothing is being sent only if nothing is       *)
(* queued, so a keep-alive that is under way will be sent; the monitor's    *)
(* timer is stopped exactly while something is sent; without a gateway      *)
(* there is no SOCKS connection; and while the network works the gateway    *)
(* has been silent no longer than the monitor's timer has run, once all     *)
(* that was sent has arrived.                                               *)
UdpTypes ==
    /\ have_socks \in BOOLEAN /\ socks_up \in BOOLEAN /\ have_server \in BOOLEAN
    /\ keepalive_sending \in BOOLEAN /\ client \in BOOLEAN /\ stalled \in BOOLEAN
    /\ quiet \in Stopped .. KEEPALIVE_TIME /\ reconnect \in Stopped .. RECONNECT_TIME
    /\ silence \in Nat
QueueInv ==
    /\ queue = [f \in AllFlows |-> queue[f]] /\ \A f \in AllFlows : IsSeq(queue[f])
    /\ sending \in AllFlows \union {NoFlow}
    /\ sending = NoFlow => \A f \in AllFlows : queue[f] = <<>>
    /\ sending # NoFlow => queue[sending] # <<>>
    /\ keepalive_sending => queue[KeepaliveFlow] # <<>>
QuietInv ==
    /\ sending # NoFlow => quiet = Stopped
    /\ "udpgw" \in options /\ sending = NoFlow => quiet # Stopped
    /\ "udpgw" \notin options => quiet = Stopped
SocksInv ==
    /\ ReconnectsAlways
    /\ "udpgw" \notin options => ~have_socks /\ reconnect = Stopped
SilenceInv ==
    client /\ have_server /\ ~stalled =>
        /\ silence <= KEEPALIVE_TIME
        /\ sending = NoFlow /\ toServer = <<>> => silence <= quiet
UdpInv == UdpTypes /\ QueueInv /\ QuietInv /\ SocksInv /\ SilenceInv

(* No flow has the number that means none (keepalive_qflow is after the     *)
(* connections').                                                           *)
LEMMA FlowsAreFlows == NoFlow \notin AllFlows /\ KeepaliveFlow \in AllFlows
  BY ClientConstants DEF NoFlow, AllFlows, Conids, KeepaliveFlow

(* What is left of, or added to, a flow's buffer is a sequence.             *)
LEMMA SeqIsSeq ==
  ASSUME NEW S, NEW q \in Seq(S)
  PROVE  IsSeq(q)
<1>1. Len(q) \in Nat /\ q \in [1 .. Len(q) -> S]
  OBVIOUS
<1>2. q = [i \in 1 .. Len(q) |-> q[i]]
  BY <1>1, Zenon
<1> QED  BY <1>1, <1>2, Zenon DEF IsSeq
LEMMA Appended ==
  ASSUME NEW q, IsSeq(q), NEW p
  PROVE  IsSeq(Append(q, p)) /\ Append(q, p) # <<>>
<1> DEFINE S == {q[i] : i \in 1 .. Len(q)} \union {p}
<1>1. q \in Seq(S)
  BY DEF IsSeq
<1>2. Append(q, p) \in Seq(S) /\ Len(Append(q, p)) = Len(q) + 1
  BY <1>1
<1>3. Append(q, p) # <<>>
  BY <1>2 DEF IsSeq
<1> HIDE DEF S
<1> QED  BY <1>2, <1>3, SeqIsSeq, Zenon
LEMMA Shortened ==
  ASSUME NEW q, IsSeq(q), q # <<>>
  PROVE  IsSeq(Tail(q))
<1> DEFINE S == {q[i] : i \in 1 .. Len(q)}
<1>1. q \in Seq(S)
  BY DEF IsSeq
<1>2. Tail(q) \in Seq(S)
  BY <1>1
<1> HIDE DEF S
<1> QED  BY <1>2, SeqIsSeq, Zenon

(* PacketPassFairQueue keeps the flow it is sending, takes one that has a   *)
(* packet, or is idle because no flow has one.                              *)
LEMMA Scheduled ==
  ASSUME NEW q, DOMAIN q = AllFlows, NEW was \in AllFlows \union {NoFlow}, NEW s \in schedule(was, q)
  PROVE  /\ s \in AllFlows \union {NoFlow}
         /\ was # NoFlow => s = was
         /\ was = NoFlow /\ s # NoFlow => q[s] # <<>>
         /\ s = NoFlow => was = NoFlow /\ \A f \in AllFlows : q[f] = <<>>
<1>1. CASE was # NoFlow
  BY <1>1, Zenon DEF schedule
<1>2. CASE was = NoFlow
  BY <1>2, FlowsAreFlows, Zenon DEF schedule
<1> QED  BY <1>1, <1>2, Zenon

(* connection_send, whatever its flow: a packet is added or dropped.        *)
LEMMA SendKeepsQueue ==
  ASSUME QueueInv, NEW c, NEW p, connection_send(c, p)
  PROVE  /\ QueueInv' /\ keepalive_sending' = keepalive_sending
         /\ sending' = NoFlow => sending = NoFlow /\ quiet' = quiet
         /\ sending' # NoFlow => quiet' = Stopped
<1>1. /\ queue' = [queue EXCEPT ![c] = Append(queue[c], p)] \/ queue' = queue
      /\ sending' \in schedule(sending, queue')
      /\ quiet' = monitorTimer(sending', quiet) /\ keepalive_sending' = keepalive_sending
  BY Zenon DEF connection_send
<1>2. DOMAIN queue = AllFlows /\ sending \in AllFlows \union {NoFlow}
  BY Zenon DEF QueueInv
<1>3. /\ DOMAIN queue' = AllFlows /\ queue' = [f \in AllFlows |-> queue'[f]]
      /\ \A f \in AllFlows : queue'[f] = queue[f] \/ queue'[f] = Append(queue[f], p)
  <2>1. queue = [f \in AllFlows |-> queue[f]]
    BY Zenon DEF QueueInv
  <2>2. CASE queue' = queue
    BY <2>1, <2>2, <1>2, Zenon
  <2>3. CASE queue' = [queue EXCEPT ![c] = Append(queue[c], p)]
    BY <2>1, <2>3, <1>2, Zenon
  <2> QED  BY <1>1, <2>2, <2>3, Zenon
<1>4. \A f \in AllFlows : IsSeq(queue'[f]) /\ (queue[f] # <<>> => queue'[f] # <<>>)
  <2> TAKE f \in AllFlows
  <2>1. IsSeq(queue[f])
    BY Zenon DEF QueueInv
  <2>2. IsSeq(Append(queue[f], p)) /\ Append(queue[f], p) # <<>>
    BY <2>1, Appended, Zenon
  <2>3. queue'[f] = queue[f] \/ queue'[f] = Append(queue[f], p)
    BY <1>3, Zenon
  <2> QED  BY <2>1, <2>2, <2>3, Zenon
<1>5. /\ sending' \in AllFlows \union {NoFlow}
      /\ sending # NoFlow => sending' = sending
      /\ sending = NoFlow /\ sending' # NoFlow => queue'[sending'] # <<>>
      /\ sending' = NoFlow => sending = NoFlow /\ \A f \in AllFlows : queue'[f] = <<>>
  BY <1>1, <1>2, <1>3, Scheduled, Zenon
<1>6. sending' # NoFlow => queue'[sending'] # <<>>
  BY <1>2, <1>4, <1>5, Zenon DEF QueueInv
<1>7. keepalive_sending' => queue'[KeepaliveFlow] # <<>>
  BY <1>1, <1>4, FlowsAreFlows, Zenon DEF QueueInv
<1>8. QueueInv'
  BY <1>3, <1>4, <1>5, <1>6, <1>7, Zenon DEF QueueInv
<1>9. quiet' = IF sending' = NoFlow THEN quiet ELSE Stopped
  BY <1>1, Zenon DEF monitorTimer
<1> QED  BY <1>1, <1>5, <1>8, <1>9, Zenon

(* Every step of UdpGwClient_SubmitPacket that queues goes through          *)
(* connection_send.                                                         *)
LEMMA SubmitKeepsQueue ==
  ASSUME QueueInv, NEW a, UdpGwClient_SubmitPacket(a)
  PROVE  /\ QueueInv' /\ keepalive_sending' = keepalive_sending
         /\ sending' = NoFlow => sending = NoFlow /\ quiet' = quiet
         /\ sending' # NoFlow => quiet' = Stopped \/ (sending # NoFlow /\ quiet' = quiet)
<1>1. CASE UNCHANGED queueVars
  BY <1>1, Zenon DEF queueVars, QueueInv
<1>2. CASE \E c, p : connection_send(c, p)
  BY <1>2, SendKeepsQueue, Zenon
<1>3. UNCHANGED queueVars \/ \E c, p : connection_send(c, p)
  <2>1. ASSUME reuse_connection(a)  PROVE \E c, p : connection_send(c, p)
    BY <2>1, Zenon DEF reuse_connection
  <2>2. ASSUME connection_init(a)  PROVE UNCHANGED queueVars \/ \E c, p : connection_send(c, p)
    BY <2>2, Zenon DEF connection_init, queueVars
  <2> QED  BY <2>1, <2>2, Zenon DEF UdpGwClient_SubmitPacket
<1> QED  BY <1>1, <1>2, <1>3, Zenon

(* output_handler_done: the monitor's timer starts again unless another     *)
(* packet follows.                                                          *)
LEMMA DoneKeepsQueue ==
  ASSUME QueueInv, output_handler_done, keepalive_sending \in BOOLEAN
  PROVE  /\ QueueInv' /\ keepalive_sending' \in BOOLEAN
         /\ sending' = NoFlow => quiet' = 0
         /\ sending' # NoFlow => quiet' = Stopped
<1>1. /\ sending # NoFlow /\ queue' = [queue EXCEPT ![sending] = Tail(queue[sending])]
      /\ keepalive_sending' = (keepalive_sending /\ sending # KeepaliveFlow)
      /\ sending' \in schedule(NoFlow, queue')
      /\ quiet' = monitorTimer(sending', 0)
  BY Zenon DEF output_handler_done
<1>2. sending \in AllFlows /\ queue = [f \in AllFlows |-> queue[f]]
  BY <1>1, Zenon DEF QueueInv
<1>3. /\ DOMAIN queue' = AllFlows /\ queue' = [f \in AllFlows |-> queue'[f]]
      /\ queue'[sending] = Tail(queue[sending])
      /\ \A f \in AllFlows : f # sending => queue'[f] = queue[f]
  BY <1>1, <1>2, Zenon
<1>4. IsSeq(Tail(queue[sending]))
  BY <1>1, <1>2, Shortened, Zenon DEF QueueInv
<1>5. \A f \in AllFlows : IsSeq(queue'[f])
  BY <1>3, <1>4, Zenon DEF QueueInv
<1>6. /\ sending' \in AllFlows \union {NoFlow}
      /\ sending' # NoFlow => queue'[sending'] # <<>>
      /\ sending' = NoFlow => \A f \in AllFlows : queue'[f] = <<>>
  <2>1. NoFlow \in AllFlows \union {NoFlow} /\ DOMAIN queue' = AllFlows
    BY <1>3, Zenon
  <2>2. sending' \in schedule(NoFlow, queue')
    BY <1>1, Zenon
  <2>3. PICK none : none = NoFlow
    OBVIOUS
  <2>4. none \in AllFlows \union {NoFlow} /\ sending' \in schedule(none, queue')
    BY <2>1, <2>2, <2>3, Zenon
  <2> QED  BY <2>1, <2>3, <2>4, Scheduled
<1>7. keepalive_sending' => queue'[KeepaliveFlow] # <<>>
  BY <1>1, <1>3, FlowsAreFlows, Zenon DEF QueueInv
<1>8. QueueInv' /\ keepalive_sending' \in BOOLEAN
  BY <1>1, <1>3, <1>5, <1>6, <1>7, Zenon DEF QueueInv
<1>9. quiet' = IF sending' = NoFlow THEN 0 ELSE Stopped
  BY <1>1, Zenon DEF monitorTimer
<1> QED  BY <1>8, <1>9, Zenon

(* send_monitor_handler: the timer runs, so nothing is queued, and the      *)
(* keep-alive goes out at once.                                             *)
LEMMA MonitorKeepsQueue ==
  ASSUME QueueInv, QuietInv, send_monitor_handler
  PROVE  /\ QueueInv' /\ keepalive_sending' \in BOOLEAN
         /\ sending' # NoFlow /\ quiet' = Stopped
<1>1. quiet # Stopped
  BY ClientConstants DEF send_monitor_handler, Stopped
<1>2. sending = NoFlow /\ \A f \in AllFlows : queue[f] = <<>>
  BY <1>1, Zenon DEF QuietInv, QueueInv
<1>3. ~keepalive_sending
  BY <1>2, FlowsAreFlows, Zenon DEF QueueInv
<1>4. /\ keepalive_sending' = TRUE
      /\ queue' = [queue EXCEPT ![KeepaliveFlow] = <<keepalive_packet>>]
      /\ sending' \in schedule(sending, queue')
      /\ quiet' = monitorTimer(sending', 0)
  BY <1>3, Zenon DEF send_monitor_handler
<1>5. queue = [f \in AllFlows |-> queue[f]]
  BY Zenon DEF QueueInv
<1> DEFINE one == <<keepalive_packet>>
<1>6. one # <<>> /\ IsSeq(one)
  <2>1. one \in Seq({keepalive_packet}) /\ one # <<>>
    OBVIOUS
  <2> HIDE DEF one
  <2> QED  BY <2>1, SeqIsSeq, Zenon
<1> HIDE DEF one
<1>7. /\ DOMAIN queue' = AllFlows /\ queue' = [f \in AllFlows |-> queue'[f]]
      /\ queue'[KeepaliveFlow] = one
      /\ \A f \in AllFlows : f # KeepaliveFlow => queue'[f] = queue[f]
  BY <1>4, <1>5, FlowsAreFlows, Zenon DEF one
<1>8. \A f \in AllFlows : IsSeq(queue'[f])
  BY <1>6, <1>7, Zenon DEF QueueInv
<1>9. /\ sending' \in AllFlows \union {NoFlow}
      /\ sending' # NoFlow => queue'[sending'] # <<>>
      /\ sending' = NoFlow => \A f \in AllFlows : queue'[f] = <<>>
  BY <1>2, <1>4, <1>7, Scheduled
<1>10. sending' # NoFlow
  BY <1>6, <1>7, <1>9, FlowsAreFlows, Zenon
<1>11. QueueInv'
  BY <1>4, <1>6, <1>7, <1>8, <1>9, <1>10, Zenon DEF QueueInv
<1> QED  BY <1>4, <1>10, <1>11, Zenon DEF monitorTimer
-----------------------------------------------------------------------------
(* A stream that is given up (SocksUdpGwClient's dropSocks and client_free) *)
(* leaves the reconnect timer running.                                      *)
LEMMA DropKeepsUdpInv ==
  ASSUME UdpInv, have_socks, dropSocks, streamGone
  PROVE  UdpInv'
<1>1. /\ have_socks' = FALSE /\ reconnect' = 0 /\ socks_up' = socks_up
      /\ have_server' = (have_server /\ ~socks_up)
      /\ client' = FALSE /\ stalled' = FALSE /\ silence' = 0 /\ options' = options
  BY Zenon DEF dropSocks, streamGone, client_free, boundVars
<1>2. UNCHANGED queueVars
  BY Zenon DEF dropSocks
<1>3. "udpgw" \in options /\ have_server' = FALSE
  BY <1>1, Zenon DEF UdpInv, SocksInv, ReconnectsAlways, UdpTypes
<1>4. UdpTypes'
  <2>1. quiet' \in Stopped .. KEEPALIVE_TIME /\ keepalive_sending' \in BOOLEAN
    BY <1>2, Zenon DEF UdpInv, UdpTypes, queueVars
  <2>2. 0 \in Stopped .. RECONNECT_TIME
    BY ClientConstants DEF Stopped
  <2>3. have_socks' \in BOOLEAN /\ socks_up' \in BOOLEAN /\ have_server' \in BOOLEAN
        /\ client' \in BOOLEAN /\ stalled' \in BOOLEAN
    BY <1>1, <1>3, Zenon DEF UdpInv, UdpTypes
  <2>4. silence' \in Nat /\ reconnect' \in Stopped .. RECONNECT_TIME
    BY <1>1, <2>2, Zenon
  <2> QED  BY <2>1, <2>3, <2>4, Zenon DEF UdpTypes
<1>5. QueueInv' /\ QuietInv'
  BY <1>1, <1>2, Zenon DEF UdpInv, QueueInv, QuietInv, queueVars
<1>6. SocksInv'
  <2>1. reconnect' # Stopped
    BY <1>1 DEF Stopped
  <2> QED  BY <1>1, <1>3, <2>1, Zenon DEF SocksInv, ReconnectsAlways
<1>7. SilenceInv'
  BY <1>1, Zenon DEF SilenceInv
<1> QED  BY <1>4, <1>5, <1>6, <1>7, Zenon DEF UdpInv

(* A step of the queue that leaves SOCKS and the gateway alone.             *)
LEMMA QueueStepKeepsUdpInv ==
  ASSUME UdpInv, QueueInv', keepalive_sending' \in BOOLEAN,
         UNCHANGED <<socksVars, client, silence, stalled, options>>,
         "udpgw" \in options,
         sending' # NoFlow => quiet' = Stopped,
         sending' = NoFlow => \/ sending = NoFlow /\ quiet' = quiet /\ toServer' = toServer
                              \/ quiet' = 0 /\ toServer' # <<>>
  PROVE  UdpInv'
<1>1. 0 \in Stopped .. KEEPALIVE_TIME /\ Stopped \in Stopped .. KEEPALIVE_TIME /\ 0 # Stopped
  BY ClientConstants DEF Stopped
<1>2. quiet' \in Stopped .. KEEPALIVE_TIME
  BY <1>1, Zenon DEF UdpInv, UdpTypes
<1>3. UdpTypes'
  BY <1>2, Zenon DEF UdpInv, UdpTypes, socksVars
<1>4. QuietInv'
  BY <1>1, Zenon DEF UdpInv, QuietInv
<1>5. SocksInv'
  BY Zenon DEF UdpInv, SocksInv, ReconnectsAlways, socksVars
<1>6. SilenceInv'
  BY Zenon DEF UdpInv, SilenceInv, socksVars
<1> QED  BY <1>3, <1>4, <1>5, <1>6, Zenon DEF UdpInv

(* A step that leaves the queue, SOCKS and the network alone, and after     *)
(* which the gateway has just heard of its client, as before, or not at     *)
(* all.                                                                     *)
LEMMA ServerStepKeepsUdpInv ==
  ASSUME UdpInv, UNCHANGED <<queueVars, socksVars, stalled, options>>,
         client' \in BOOLEAN, silence' \in Nat,
         \/ client' = FALSE
         \/ silence' = 0
         \/ client' = client /\ silence' = silence /\ toServer' = toServer
  PROVE  UdpInv'
<1>1. UdpTypes'
  BY Zenon DEF UdpInv, UdpTypes, queueVars, socksVars
<1>2. QueueInv' /\ QuietInv'
  BY Zenon DEF UdpInv, QueueInv, QuietInv, queueVars
<1>3. SocksInv'
  BY Zenon DEF UdpInv, SocksInv, ReconnectsAlways, socksVars
<1>4. SilenceInv'
  <2>1. CASE client' = FALSE
    BY <2>1, Zenon DEF SilenceInv
  <2>2. CASE client' = client /\ silence' = silence /\ toServer' = toServer
    BY <2>2, Zenon DEF UdpInv, SilenceInv, queueVars, socksVars
  <2>3. CASE silence' = 0
    <3> SUFFICES ASSUME have_server'
                 PROVE  silence' <= KEEPALIVE_TIME /\ (sending' = NoFlow => silence' <= quiet')
      BY Zenon DEF SilenceInv
    <3>1. have_server /\ sending' = sending /\ quiet' = quiet
      BY Zenon DEF queueVars, socksVars
    <3>2. "udpgw" \in options
      BY <3>1, Zenon DEF UdpInv, SocksInv, ReconnectsAlways, UdpTypes
    <3>3. sending = NoFlow => quiet # Stopped
      BY <3>2, Zenon DEF UdpInv, QuietInv
    <3>4. quiet \in Stopped .. KEEPALIVE_TIME
      BY Zenon DEF UdpInv, UdpTypes
    <3>5. 0 <= KEEPALIVE_TIME /\ (sending = NoFlow => 0 <= quiet)
      BY <3>3, <3>4, ClientConstants DEF Stopped
    <3> QED  BY <2>3, <3>1, <3>5, Zenon
  <2> QED  BY <2>1, <2>2, <2>3, Zenon
<1> QED  BY <1>1, <1>2, <1>3, <1>4, Zenon DEF UdpInv

(* The SOCKS handshake: the timer's attempt fails or stops it, and the      *)
(* gateway accepts when the handshake is over.                              *)
LEMMA ConnectKeepsUdpInv ==
  ASSUME UdpInv, clientConnects
  PROVE  UdpInv'
<1>1. CASE reconnect_timer_handler /\ UNCHANGED <<serverVars, streamVars, boundVars>>
  <2>1. reconnect # Stopped
    BY <1>1, ClientConstants DEF reconnect_timer_handler, Stopped
  <2>2. "udpgw" \in options /\ have_server = FALSE
    BY <2>1, Zenon DEF UdpInv, SocksInv, ReconnectsAlways, UdpTypes
  <2>3. UNCHANGED <<have_server, queueVars, client, silence, stalled, options>>
    BY <1>1, Zenon DEF reconnect_timer_handler, serverVars, streamVars, boundVars
  <2>4. \/ have_socks' = TRUE /\ socks_up' = FALSE /\ reconnect' = Stopped
        \/ have_socks' = FALSE /\ reconnect' = 0 /\ socks_up' = socks_up
    BY <1>1, Zenon DEF reconnect_timer_handler, try_connect
  <2>5. 0 \in Stopped .. RECONNECT_TIME /\ Stopped \in Stopped .. RECONNECT_TIME /\ 0 # Stopped
    BY ClientConstants DEF Stopped
  <2>6. UdpTypes'
    BY <2>3, <2>4, <2>5, Zenon DEF UdpInv, UdpTypes, queueVars
  <2>7. QueueInv' /\ QuietInv'
    BY <2>3, Zenon DEF UdpInv, QueueInv, QuietInv, queueVars
  <2>8. SocksInv'
    <3>1. have_server' = FALSE /\ "udpgw" \in options'
      BY <2>2, <2>3, Zenon
    <3>2. CASE have_socks' = TRUE /\ socks_up' = FALSE /\ reconnect' = Stopped
      BY <3>1, <3>2, Zenon DEF SocksInv, ReconnectsAlways
    <3>3. CASE have_socks' = FALSE /\ reconnect' = 0
      BY <2>5, <3>1, <3>3, Zenon DEF SocksInv, ReconnectsAlways
    <3> QED  BY <2>4, <3>2, <3>3, Zenon
  <2>9. SilenceInv'
    BY <2>2, <2>3, Zenon DEF SilenceInv
  <2> QED  BY <2>6, <2>7, <2>8, <2>9, Zenon DEF UdpInv
<1>2. CASE socksUp /\ listener_handler /\ UNCHANGED <<streamVars, boundVars>>
  <2>1. /\ have_socks' = have_socks /\ have_socks /\ reconnect' = reconnect
        /\ have_server' = TRUE /\ socks_up' = TRUE /\ client' = TRUE /\ silence' = 0
        /\ stalled' = stalled /\ options' = options /\ toServer' = toServer
    BY <1>2, Zenon DEF socksUp, listener_handler, streamVars, boundVars
  <2>2. UNCHANGED queueVars
    BY <1>2, Zenon DEF socksUp
  <2>3. "udpgw" \in options
    BY <2>1, Zenon DEF UdpInv, SocksInv
  <2>4. UdpTypes'
    <3>1. silence' \in Nat
      BY <2>1, Zenon
    <3> QED  BY <2>1, <2>2, <3>1, Zenon DEF UdpInv, UdpTypes, queueVars
  <2>5. QueueInv' /\ QuietInv'
    BY <2>1, <2>2, Zenon DEF UdpInv, QueueInv, QuietInv, queueVars
  <2>6. SocksInv'
    BY <2>1, <2>3, Zenon DEF UdpInv, SocksInv, ReconnectsAlways, UdpTypes
  <2>7. SilenceInv'
    <3>1. quiet \in Stopped .. KEEPALIVE_TIME /\ (sending = NoFlow => quiet # Stopped)
      BY <2>3, Zenon DEF UdpInv, UdpTypes, QuietInv
    <3>2. 0 <= KEEPALIVE_TIME /\ (sending = NoFlow => 0 <= quiet)
      BY <3>1, ClientConstants DEF Stopped
    <3> QED  BY <2>1, <2>2, <3>2, Zenon DEF SilenceInv, queueVars
  <2> QED  BY <2>4, <2>5, <2>6, <2>7, Zenon DEF UdpInv
<1>3. CASE socksUpFails /\ streamGone
  BY <1>3, DropKeepsUdpInv, Zenon DEF socksUpFails
<1> QED  BY <1>1, <1>2, <1>3, Zenon DEF clientConnects

(* Time passes while the network works only when all has arrived: the       *)
(* monitor's timer runs with the gateway's.                                 *)
LEMMA TickKeepsUdpInv ==
  ASSUME UdpInv, tick
  PROVE  UdpInv'
<1>1. UNCHANGED <<queue, sending, keepalive_sending, have_socks, socks_up, have_server,
                  client, toServer, stalled, options>>
  BY Zenon DEF tick, streamVars, boundVars
<1>2. quiet \in Stopped .. KEEPALIVE_TIME /\ reconnect \in Stopped .. RECONNECT_TIME /\ silence \in Nat
  BY Zenon DEF UdpInv, UdpTypes
<1>3. /\ quiet' = (IF quiet = Stopped THEN Stopped ELSE quiet + 1) /\ quiet < KEEPALIVE_TIME
      /\ reconnect' = (IF reconnect = Stopped THEN Stopped ELSE reconnect + 1)
      /\ reconnect < RECONNECT_TIME
      /\ silence' = silence + 1 \/ silence' = silence
  BY Zenon DEF tick
<1>4. /\ quiet' \in Stopped .. KEEPALIVE_TIME /\ reconnect' \in Stopped .. RECONNECT_TIME
      /\ silence' \in Nat
      /\ quiet' = Stopped <=> quiet = Stopped
      /\ reconnect' = Stopped <=> reconnect = Stopped
  BY <1>2, <1>3, ClientConstants DEF Stopped
<1>5. UdpTypes'
  BY <1>1, <1>4, Zenon DEF UdpInv, UdpTypes
<1>6. QueueInv' /\ QuietInv'
  BY <1>1, <1>4, Zenon DEF UdpInv, QueueInv, QuietInv
<1>7. SocksInv'
  BY <1>1, <1>4, Zenon DEF UdpInv, SocksInv, ReconnectsAlways
<1>8. SilenceInv'
  <2> SUFFICES ASSUME client, have_server, ~stalled
               PROVE  silence' <= KEEPALIVE_TIME /\ silence' <= quiet'
    BY <1>1, Zenon DEF SilenceInv
  <2>1. settled
    BY Zenon DEF tick
  <2>2. sending = NoFlow /\ toServer = <<>>
    BY <2>1, Zenon DEF settled
  <2>3. "udpgw" \in options
    BY Zenon DEF UdpInv, SocksInv, ReconnectsAlways, UdpTypes
  <2>4. silence <= quiet /\ quiet # Stopped
    BY <2>2, <2>3, Zenon DEF UdpInv, SilenceInv, QuietInv
  <2> QED  BY <1>2, <1>3, <2>4, ClientConstants DEF Stopped
<1> QED  BY <1>5, <1>6, <1>7, <1>8, Zenon DEF UdpInv

(* The invariant holds when a run starts, in Init and again in endRun.      *)
LEMMA InitUdpInv == Init => UdpInv
<1> SUFFICES ASSUME Init  PROVE UdpInv
  OBVIOUS
<1>1. /\ queue = [f \in AllFlows |-> <<>>] /\ sending = NoFlow /\ keepalive_sending = FALSE
      /\ have_server = FALSE /\ socks_up = FALSE
      /\ client = FALSE /\ silence = 0 /\ stalled = FALSE
  BY Zenon DEF Init, SocksUdpGwClient_Init, UdpGwClient_Init, ServerInit, AllFlows
<1>2. \/ "udpgw" \in options /\ quiet = 0 /\ have_socks = TRUE /\ reconnect = Stopped
      \/ "udpgw" \in options /\ quiet = 0 /\ have_socks = FALSE /\ reconnect = 0
      \/ "udpgw" \notin options /\ quiet = Stopped /\ have_socks = FALSE /\ reconnect = Stopped
  BY Zenon DEF Init, SocksUdpGwClient_Init
<1>3. /\ 0 \in Stopped .. KEEPALIVE_TIME /\ Stopped \in Stopped .. KEEPALIVE_TIME
      /\ 0 \in Stopped .. RECONNECT_TIME /\ Stopped \in Stopped .. RECONNECT_TIME
      /\ 0 # Stopped /\ 0 \in Nat
  BY ClientConstants DEF Stopped
<1>4. UdpTypes
  BY <1>1, <1>2, <1>3, Zenon DEF UdpTypes
<1>5. QueueInv
  <2>1. IsSeq(<<>>)
    BY DEF IsSeq
  <2>2. \A f \in AllFlows : queue[f] = <<>>
    BY <1>1, Zenon
  <2>3. queue = [f \in AllFlows |-> queue[f]]
    BY <1>1, Zenon
  <2>4. \A f \in AllFlows : IsSeq(queue[f])
    BY <2>1, <2>2, Zenon
  <2> QED  BY <1>1, <2>2, <2>3, <2>4, Zenon DEF QueueInv
<1>6. QuietInv /\ SocksInv
  BY <1>1, <1>2, <1>3, Zenon DEF QuietInv, SocksInv, ReconnectsAlways
<1>7. SilenceInv
  BY <1>1, Zenon DEF SilenceInv
<1> QED  BY <1>4, <1>5, <1>6, <1>7, Zenon DEF UdpInv

LEMMA EndKeepsUdpInv == endRun => UdpInv'
<1> SUFFICES ASSUME endRun  PROVE UdpInv'
  OBVIOUS
<1>1. /\ queue' = [f \in AllFlows |-> <<>>] /\ sending' = NoFlow /\ keepalive_sending' = FALSE
      /\ have_server' = FALSE /\ socks_up' = FALSE
      /\ client' = FALSE /\ silence' = 0 /\ stalled' = FALSE /\ options' = options
  BY Zenon DEF endRun, SocksUdpGwClient_Free, UdpGwClient_Free, client_free, AllFlows
<1>2. \/ "udpgw" \in options /\ quiet' = 0 /\ have_socks' = TRUE /\ reconnect' = Stopped
      \/ "udpgw" \in options /\ quiet' = 0 /\ have_socks' = FALSE /\ reconnect' = 0
      \/ "udpgw" \notin options /\ quiet' = Stopped /\ have_socks' = FALSE /\ reconnect' = Stopped
  BY Zenon DEF endRun, SocksUdpGwClient_Free
<1>3. /\ 0 \in Stopped .. KEEPALIVE_TIME /\ Stopped \in Stopped .. KEEPALIVE_TIME
      /\ 0 \in Stopped .. RECONNECT_TIME /\ Stopped \in Stopped .. RECONNECT_TIME
      /\ 0 # Stopped /\ 0 \in Nat
  BY ClientConstants DEF Stopped
<1>4. UdpTypes'
  BY <1>1, <1>2, <1>3, Zenon DEF UdpTypes
<1>5. QueueInv'
  <2>1. IsSeq(<<>>)
    BY DEF IsSeq
  <2>2. \A f \in AllFlows : queue'[f] = <<>>
    BY <1>1, Zenon
  <2>3. queue' = [f \in AllFlows |-> queue'[f]]
    BY <1>1, Zenon
  <2>4. \A f \in AllFlows : IsSeq(queue'[f])
    BY <2>1, <2>2, Zenon
  <2> QED  BY <1>1, <2>2, <2>3, <2>4, Zenon DEF QueueInv
<1>6. QuietInv' /\ SocksInv'
  BY <1>1, <1>2, <1>3, Zenon DEF QuietInv, SocksInv, ReconnectsAlways
<1>7. SilenceInv'
  BY <1>1, Zenon DEF SilenceInv
<1> QED  BY <1>4, <1>5, <1>6, <1>7, Zenon DEF UdpInv

(* A packet of an application: a DNS query leaves the gateway's client      *)
(* alone.                                                                   *)
LEMMA PacketKeepsUdpInv ==
  ASSUME UdpInv, NEW local, NEW remote, process_device_udp_packet(local, remote)
  PROVE  UdpInv'
<1>1. UNCHANGED <<client, silence, toServer, stalled, options>>
  BY Zenon DEF process_device_udp_packet, serverVars, streamVars
<1>2. CASE UNCHANGED clientVars
  BY <1>1, <1>2, ServerStepKeepsUdpInv, Zenon DEF clientVars, UdpInv, UdpTypes
<1>3. CASE "udpgw" \in options /\ UdpGwClient_SubmitPacket(<<local, remote>>)
  <2>1. UNCHANGED socksVars
    BY <1>3, Zenon DEF UdpGwClient_SubmitPacket
  <2>2. /\ QueueInv' /\ keepalive_sending' \in BOOLEAN
        /\ sending' = NoFlow => sending = NoFlow /\ quiet' = quiet
        /\ sending' # NoFlow => quiet' = Stopped
    BY <1>3, SubmitKeepsQueue, Zenon DEF UdpInv, UdpTypes, QuietInv
  <2> QED  BY <1>1, <1>3, <2>1, <2>2, QueueStepKeepsUdpInv, Zenon
<1> QED  BY <1>2, <1>3, Zenon DEF process_device_udp_packet

(* Every step keeps the invariant.                                          *)
LEMMA NextUdpInv == UdpInv /\ [Next]_vars => UdpInv'
<1> SUFFICES ASSUME UdpInv, [Next]_vars  PROVE UdpInv'
  OBVIOUS
<1> USE DEF serverVars, streamVars, boundVars, clientVars
<1>0. client \in BOOLEAN /\ silence \in Nat
  BY Zenon DEF UdpInv, UdpTypes
<1>1. ASSUME NEW local \in Locals, NEW remote \in Remotes, process_device_udp_packet(local, remote)
      PROVE  UdpInv'
  BY <1>1, PacketKeepsUdpInv, Zenon
<1>2. CASE dnsRelay
  BY <1>0, <1>2, ServerStepKeepsUdpInv, Zenon DEF dnsRelay
<1>3. CASE clientSends
  <2>1. output_handler_done /\ toServer' = Append(toServer, Head(queue[sending]))
    BY <1>3, Zenon DEF clientSends
  <2>2. UNCHANGED <<socksVars, client, silence, stalled, options>> /\ have_server
    BY <1>3, <2>1, Zenon DEF clientSends, output_handler_done
  <2>3. "udpgw" \in options
    BY <2>2, Zenon DEF UdpInv, SocksInv, ReconnectsAlways, UdpTypes
  <2>4. /\ QueueInv' /\ keepalive_sending' \in BOOLEAN
        /\ sending' = NoFlow => quiet' = 0
        /\ sending' # NoFlow => quiet' = Stopped
    BY <2>1, DoneKeepsQueue, Zenon DEF UdpInv, UdpTypes
  <2>5. toServer' # <<>>
    BY <2>1
  <2> QED  BY <2>2, <2>3, <2>4, <2>5, QueueStepKeepsUdpInv, Zenon
<1>4. CASE clientTimer
  <2>1. UNCHANGED <<socksVars, client, silence, stalled, options>>
    BY <1>4, Zenon DEF clientTimer, send_monitor_handler
  <2>2. QueueInv' /\ keepalive_sending' \in BOOLEAN /\ sending' # NoFlow /\ quiet' = Stopped
    BY <1>4, MonitorKeepsQueue, Zenon DEF clientTimer, UdpInv
  <2>3. quiet # Stopped
    BY <1>4, ClientConstants DEF clientTimer, send_monitor_handler, Stopped
  <2>4. "udpgw" \in options
    BY <2>3, Zenon DEF UdpInv, QuietInv
  <2> QED  BY <2>1, <2>2, <2>4, QueueStepKeepsUdpInv, Zenon
<1>5. CASE clientReceives
  BY <1>0, <1>5, ServerStepKeepsUdpInv, Zenon DEF clientReceives, recv_interface_handler_send
<1>6. CASE clientConnects
  BY <1>6, ConnectKeepsUdpInv, Zenon
<1>7. CASE clientLoses
  BY <1>7, DropKeepsUdpInv, Zenon DEF clientLoses, socksError
<1>8. CASE serverReceives
  BY <1>0, <1>8, ServerStepKeepsUdpInv, Zenon DEF serverReceives
<1>9. CASE socketEvent
  BY <1>0, <1>9, ServerStepKeepsUdpInv, Zenon
     DEF socketEvent, connection_udp_recv_if_handler_send, connection_dgram_handler_event
<1>10. CASE serverSends
  BY <1>0, <1>10, ServerStepKeepsUdpInv, Zenon DEF serverSends, send_done
<1>11. CASE client_disconnect_timer_handler \/ client_connection_handler
  <2>1. UNCHANGED <<queueVars, socksVars, stalled, options>> /\ client' = FALSE /\ silence' = 0
    BY <1>11, Zenon
       DEF client_disconnect_timer_handler, client_connection_handler, client_free
  <2>2. client' \in BOOLEAN /\ silence' \in Nat
    BY <2>1, Zenon
  <2> QED  BY <2>1, <2>2, ServerStepKeepsUdpInv, Zenon
<1>12. CASE networkStalls
  <2>1. UNCHANGED <<queueVars, socksVars, client, silence, options>> /\ stalled' = TRUE
    BY <1>12, Zenon DEF networkStalls
  <2> QED  BY <2>1, Zenon DEF UdpInv, UdpTypes, QueueInv, QuietInv, SocksInv, ReconnectsAlways,
                              SilenceInv, queueVars, socksVars
<1>13. CASE tick
  BY <1>13, TickKeepsUdpInv, Zenon
<1>14. CASE endRun
  BY <1>14, EndKeepsUdpInv, Zenon
<1>15. CASE UNCHANGED vars
  BY <1>0, <1>15, ServerStepKeepsUdpInv, Zenon DEF vars
<1> QED  BY <1>1, <1>2, <1>3, <1>4, <1>5, <1>6, <1>7, <1>8, <1>9, <1>10, <1>11, <1>12,
            <1>13, <1>14, <1>15, Zenon DEF Next

(* The client of the gateway has a SOCKS connection or its reconnect timer  *)
(* is running, not both, and a stream just when SOCKS is up, however        *)
(* connecting fails (SocksUdpGwClient.c).                                   *)
THEOREM AlwaysReconnects == Spec => []ReconnectsAlways
<1>1. Spec => []UdpInv
  BY InitUdpInv, NextUdpInv, PTL DEF Spec
<1>2. UdpInv => ReconnectsAlways
  BY Zenon DEF UdpInv, SocksInv
<1> QED  BY <1>1, <1>2, PTL

(* While the network works the gateway's disconnect timer does not expire,  *)
(* for any two times of which the keep-alive's is the shorter               *)
(* (send_monitor_handler, client_disconnect_timer_handler).                 *)
THEOREM WorkingClientIsKept == Spec => []KeptAlive
<1>1. Spec => []UdpInv
  BY InitUdpInv, NextUdpInv, PTL DEF Spec
<1>2. UdpInv => KeptAlive
  <2> SUFFICES ASSUME UdpInv, client, have_server, ~stalled
               PROVE  silence < CLIENT_DISCONNECT_TIMEOUT
    BY Zenon DEF KeptAlive
  <2>1. silence <= KEEPALIVE_TIME /\ silence \in Nat
    BY Zenon DEF UdpInv, UdpTypes, SilenceInv
  <2> QED  BY <2>1, UdpConstants, ClientConstants, ServerConstants
<1> QED  BY <1>1, <1>2, PTL
-----------------------------------------------------------------------------
(* The gateway does not disturb the DNS relay: a step of the composition is *)
(* one of the relay's or leaves it alone.                                   *)
LEMMA StepIsDnsStep == [Next]_vars => [DnsNext]_dnsVars
<1> SUFFICES ASSUME [Next]_vars  PROVE [DnsNext]_dnsVars
  OBVIOUS
<1>1. ASSUME NEW local \in Locals, NEW remote \in Remotes, process_device_udp_packet(local, remote)
      PROVE  [DnsNext]_dnsVars
  <2>1. local \in Apps
    BY UdpConstants, Zenon
  <2> QED  BY <1>1, <2>1, Zenon DEF process_device_udp_packet, DnsNext
<1>2. CASE dnsRelay \/ endRun
  BY <1>2, Zenon DEF dnsRelay, endRun, DnsNext
<1>3. CASE clientSends \/ clientTimer \/ clientReceives \/ clientLoses
  BY <1>3, Zenon DEF clientSends, clientTimer, clientReceives, clientLoses, streamGone
<1>4. CASE clientConnects
  BY <1>4, Zenon DEF clientConnects, streamGone
<1>5. CASE serverReceives \/ socketEvent \/ serverSends \/ networkStalls \/ tick
  BY <1>5, Zenon DEF serverReceives, socketEvent, serverSends, networkStalls, tick
<1>6. CASE client_disconnect_timer_handler \/ client_connection_handler
  BY <1>6, Zenon DEF client_disconnect_timer_handler, client_connection_handler
<1>7. CASE UNCHANGED vars
  BY <1>7, Zenon DEF vars
<1> QED  BY <1>1, <1>2, <1>3, <1>4, <1>5, <1>6, <1>7, Zenon DEF Next

(* tun2socks with the gateway implements the DNS relay on its own           *)
(* (process_device_udp_packet, udp_fd_handler).                             *)
THEOREM ImplementsDns == Spec => DnsSpec
<1>1. Init => DnsInit
  BY Zenon DEF Init
<1> QED  BY <1>1, StepIsDnsStep, PTL DEF Spec, DnsSpec

(* No application is sent more DNS answers for an id than it asked, with    *)
(* the gateway beside the relay (udp_fd_handler).                           *)
THEOREM UdpAnswersAreOwed == Spec => []AnswersWereAskedFor
  BY ImplementsDns, AnswersAreOwed, PTL
-----------------------------------------------------------------------------
(* The gateway's connections, and that one which is closing is the one      *)
(* whose packet is being sent.                                              *)
ServerInv ==
    /\ con = [o \in Objects |-> con[o]]
    /\ \A o \in Objects : con[o] = [x \in DOMAIN con[o] |-> con[o][x]] /\ "state" \in DOMAIN con[o]
    /\ Closing \subseteq {server_sending}

(* All memory is free before a client connects and after client_free.       *)
LEMMA FreedKeepsServerInv ==
  /\ con = [o \in Objects |-> FreeObject] => ServerInv
  /\ con' = [o \in Objects |-> FreeObject] => ServerInv'
  BY DEF ServerInv, Closing, FreeObject

(* connection_close leaves nothing closing but what is being sent.          *)
LEMMA CloseKeepsServerInv ==
  ASSUME ServerInv, NEW d, NEW cons, cons = connection_close(con, d)
  PROVE  /\ cons = [o \in Objects |-> cons[o]]
         /\ \A o \in Objects : /\ cons[o] = [x \in DOMAIN cons[o] |-> cons[o][x]]
                               /\ "state" \in DOMAIN cons[o]
                               /\ cons[o].state = "closing" => o = server_sending
<1>1. con = [o \in Objects |-> con[o]] /\ cons = connection_close(con, d)
  BY Zenon DEF ServerInv
<1>2. cons = [o \in Objects |-> cons[o]] /\ \A o \in Objects : o # d => cons[o] = con[o]
  BY <1>1, Zenon DEF connection_close
<1>3. d \in Objects => cons[d] = IF server_sending = d THEN [con[d] EXCEPT !.state = "closing"]
                                 ELSE FreeObject
  BY <1>1, Zenon DEF connection_close
<1>4. ASSUME NEW o \in Objects
      PROVE  /\ cons[o] = [x \in DOMAIN cons[o] |-> cons[o][x]] /\ "state" \in DOMAIN cons[o]
             /\ cons[o].state = "closing" => o = server_sending
  <2>1. CASE o # d
    BY <1>2, <2>1, Zenon DEF ServerInv, Closing
  <2>2. CASE o = d /\ server_sending = d
    BY <1>3, <2>2, Zenon DEF ServerInv
  <2>3. CASE o = d /\ server_sending # d
    BY <1>3, <2>3 DEF FreeObject
  <2> QED  BY <2>1, <2>2, <2>3, Zenon
<1> QED  BY <1>2, <1>4, Zenon

(* connection_init makes a live one.                                        *)
LEMMA MakeKeepsServerInv ==
  ASSUME NEW p, NEW rest, NEW list, connection_init_for(p, rest, list),
         server_sending' = server_sending,
         rest = [o \in Objects |-> rest[o]],
         \A o \in Objects : /\ rest[o] = [x \in DOMAIN rest[o] |-> rest[o][x]]
                            /\ "state" \in DOMAIN rest[o]
                            /\ rest[o].state = "closing" => o = server_sending
  PROVE  ServerInv'
<1> DEFINE new == Min({o \in Objects : rest[o].state = "free"})
<1>1. con' = rest \/ con' = [rest EXCEPT ![new] = connection(p)]
  BY Zenon DEF connection_init_for
<1> HIDE DEF new
<1>3. CASE con' = rest
  BY <1>3, Zenon DEF ServerInv, Closing
<1>4. CASE con' = [rest EXCEPT ![new] = connection(p)]
  <2>1. con' = [o \in Objects |-> con'[o]] /\ \A o \in Objects : o # new => con'[o] = rest[o]
    BY <1>4, Zenon
  <2>2. new \in Objects => con'[new] = connection(p)
    BY <1>4, Zenon
  <2>3. /\ connection(p) = [x \in DOMAIN connection(p) |-> connection(p)[x]]
        /\ "state" \in DOMAIN connection(p) /\ connection(p).state = "live"
    BY Zenon DEF connection
  <2>4. ASSUME NEW o \in Objects
        PROVE  /\ con'[o] = [x \in DOMAIN con'[o] |-> con'[o][x]] /\ "state" \in DOMAIN con'[o]
               /\ con'[o].state = "closing" => o = server_sending
    <3>1. CASE o = new
      BY <2>2, <2>3, <3>1, Zenon
    <3>2. CASE o # new
      BY <2>1, <3>2, Zenon
    <3> QED  BY <3>1, <3>2, Zenon
  <2> QED  BY <2>1, <2>4, Zenon DEF ServerInv, Closing
<1> QED  BY <1>1, <1>3, <1>4, Zenon

(* A packet for a new connection: connection_close if there is an old one,  *)
(* and connection_init.                                                     *)
LEMMA OpenKeepsServerInv ==
  ASSUME ServerInv, NEW p, openConnection(p), server_sending' = server_sending
  PROVE  ServerInv'
<1>1. CASE connection_init_for(p, con, server_list)
  <2>1. /\ con = [o \in Objects |-> con[o]]
        /\ \A o \in Objects : /\ con[o] = [x \in DOMAIN con[o] |-> con[o][x]]
                              /\ "state" \in DOMAIN con[o]
                              /\ con[o].state = "closing" => o = server_sending
    BY Zenon DEF ServerInv, Closing
  <2>2. PICK rest, list : rest = con /\ list = server_list
    OBVIOUS
  <2> QED  BY <1>1, <2>1, <2>2, MakeKeepsServerInv
<1>2. ASSUME NEW d, NEW list, connection_init_for(p, connection_close(con, d), list)
      PROVE  ServerInv'
  <2> DEFINE rest == connection_close(con, d)
  <2>1. /\ rest = [o \in Objects |-> rest[o]]
        /\ \A o \in Objects : /\ rest[o] = [x \in DOMAIN rest[o] |-> rest[o][x]]
                              /\ "state" \in DOMAIN rest[o]
                              /\ rest[o].state = "closing" => o = server_sending
    BY CloseKeepsServerInv
  <2> HIDE DEF rest
  <2>2. connection_init_for(p, rest, list)
    BY <1>2 DEF rest
  <2> QED  BY <2>1, <2>2, MakeKeepsServerInv, Zenon
<1> QED  BY <1>1, <1>2, Zenon DEF openConnection

(* A field of a connection changes that is not its state.                   *)
LEMMA FieldKeepsServerInv ==
  ASSUME ServerInv, NEW o, NEW v, NEW field \in {"users", "out"},
         con' = [con EXCEPT ![o] = [con[o] EXCEPT ![field] = v]]
  PROVE  /\ con' = [q \in Objects |-> con'[q]]
         /\ \A q \in Objects : /\ con'[q] = [x \in DOMAIN con'[q] |-> con'[q][x]]
                               /\ "state" \in DOMAIN con'[q]
                               /\ con'[q].state = con[q].state
<1>1. con = [q \in Objects |-> con[q]]
  BY Zenon DEF ServerInv
<1>2. con' = [q \in Objects |-> con'[q]] /\ \A q \in Objects : q # o => con'[q] = con[q]
  BY <1>1, Zenon
<1>3. o \in Objects => con'[o] = [con[o] EXCEPT ![field] = v]
  BY <1>1, Zenon
<1>4. ASSUME NEW q \in Objects
      PROVE  /\ con'[q] = [x \in DOMAIN con'[q] |-> con'[q][x]] /\ "state" \in DOMAIN con'[q]
             /\ con'[q].state = con[q].state
  <2>1. CASE q = o
    BY <1>3, <2>1, Zenon DEF ServerInv
  <2>2. CASE q # o
    BY <1>2, <2>2 DEF ServerInv
  <2> QED  BY <2>1, <2>2, Zenon
<1> QED  BY <1>2, <1>4, Zenon

(* send_done: connection_send_qflow_busy_handler frees the one that was     *)
(* closing, so that none is.                                                *)
LEMMA SendDoneKeepsServerInv ==
  ASSUME ServerInv, send_done
  PROVE  ServerInv'
<1> DEFINE d == server_sending
<1>1. con = [o \in Objects |-> con[o]]
  BY Zenon DEF ServerInv
<1>2. CASE d \in Objects /\ con[d].state = "closing"
  <2>1. con' = [con EXCEPT ![d] = FreeObject]
    BY <1>1, <1>2, Zenon DEF send_done
  <2>2. con' = [o \in Objects |-> con'[o]] /\ con'[d] = FreeObject
        /\ \A o \in Objects : o # d => con'[o] = con[o]
    BY <1>1, <1>2, <2>1, Zenon
  <2> QED  BY <2>2 DEF ServerInv, Closing, FreeObject
<1>3. CASE ~(d \in Objects /\ con[d].state = "closing")
  <2>1. \A o \in Objects : con[o].state # "closing"
    BY <1>3, Zenon DEF ServerInv, Closing
  <2>2. con' = [con EXCEPT ![d] = [con[d] EXCEPT !["out"] = Tail(con[d].out)]]
    <3>1. CASE d \in Objects
      <4>1. con' = [con EXCEPT ![d] = IF con[d].state = "closing" THEN FreeObject
                                      ELSE [con[d] EXCEPT !["out"] = Tail(con[d].out)]]
        BY Zenon DEF send_done
      <4>2. con[d].state # "closing"
        BY <1>3, <3>1, Zenon
      <4>3. (IF con[d].state = "closing" THEN FreeObject
             ELSE [con[d] EXCEPT !["out"] = Tail(con[d].out)])
            = [con[d] EXCEPT !["out"] = Tail(con[d].out)]
        BY <4>2, Zenon
      <4> QED  BY <4>1, <4>3, Zenon
    <3>2. CASE d \notin Objects
      <4>1. \A v : [con EXCEPT ![d] = v] = con
        BY <1>1, <3>2, Zenon
      <4> QED  BY <4>1, Zenon DEF send_done
    <3> QED  BY <3>1, <3>2, Zenon
  <2>3. /\ con' = [q \in Objects |-> con'[q]]
        /\ \A q \in Objects : /\ con'[q] = [x \in DOMAIN con'[q] |-> con'[q][x]]
                              /\ "state" \in DOMAIN con'[q]
                              /\ con'[q].state = con[q].state
    BY <2>2, FieldKeepsServerInv, Zenon
  <2> QED  BY <2>1, <2>3, Zenon DEF ServerInv, Closing
<1> QED  BY <1>2, <1>3, Zenon

(* Every step keeps the invariant of the gateway's connections.             *)
LEMMA NextServerInv == ServerInv /\ [Next]_vars => ServerInv'
<1> SUFFICES ASSUME ServerInv, [Next]_vars  PROVE ServerInv'
  OBVIOUS
<1>1. CASE UNCHANGED <<con, server_sending>>
  BY <1>1, Zenon DEF ServerInv, Closing
<1>2. CASE client_free \/ listener_handler
  BY <1>2, FreedKeepsServerInv, Zenon DEF client_free, listener_handler
<1>3. ASSUME NEW local \in Locals, NEW remote \in Remotes, process_device_udp_packet(local, remote)
      PROVE  ServerInv'
  BY <1>1, <1>3, Zenon DEF process_device_udp_packet, serverVars
<1>4. CASE dnsRelay \/ clientSends \/ clientTimer \/ clientReceives \/ networkStalls \/ tick
  BY <1>1, <1>4, Zenon
     DEF dnsRelay, clientSends, clientTimer, clientReceives, networkStalls, tick, serverVars
<1>5. CASE clientConnects \/ clientLoses
  BY <1>1, <1>2, <1>5, Zenon DEF clientConnects, clientLoses, streamGone, serverVars
<1>6. CASE serverReceives
  <2>1. server_sending' = server_sending
    BY <1>6, Zenon DEF serverReceives
  <2>2. ASSUME NEW p, openConnection(p)  PROVE ServerInv'
    BY <2>1, <2>2, OpenKeepsServerInv, Zenon
  <2>3. ASSUME NEW p, NEW o, connection_send_to_udp(p, o)  PROVE ServerInv'
    <3>1. CASE con' = con
      BY <1>1, <2>1, <3>1, Zenon
    <3>2. CASE con' = [con EXCEPT ![o].users = @ \union {p.local}]
      <4>1. con' = [con EXCEPT ![o] = [con[o] EXCEPT !["users"] = con[o].users \union {p.local}]]
        BY <3>2, Zenon
      <4>2. /\ con' = [q \in Objects |-> con'[q]]
            /\ \A q \in Objects : /\ con'[q] = [x \in DOMAIN con'[q] |-> con'[q][x]]
                                  /\ "state" \in DOMAIN con'[q]
                                  /\ con'[q].state = con[q].state
        BY <4>1, FieldKeepsServerInv, Zenon
      <4> QED  BY <2>1, <4>2, Zenon DEF ServerInv, Closing
    <3> QED  BY <2>3, <3>1, <3>2, Zenon DEF connection_send_to_udp
  <2> QED  BY <1>1, <1>6, <2>1, <2>2, <2>3, Zenon DEF serverReceives
<1>7. CASE socketEvent
  <2>1. ASSUME NEW o, connection_udp_recv_if_handler_send(o)  PROVE ServerInv'
    <3>1. server_sending' = server_sending \/ server_sending = NoCon
      BY <2>1, Zenon DEF connection_udp_recv_if_handler_send, server_schedule
    <3>2. \A q \in Objects : con[q].state = "closing" => q = server_sending'
      BY <3>1, ServerConstants DEF ServerInv, Closing, NoCon, Objects
    <3>3. CASE con' = con
      BY <3>2, <3>3, Zenon DEF ServerInv, Closing
    <3>4. ASSUME NEW r, con' = [con EXCEPT ![o].out = Append(@, r)]  PROVE ServerInv'
      <4>1. con' = [con EXCEPT ![o] = [con[o] EXCEPT !["out"] = Append(con[o].out, r)]]
        BY <3>4, Zenon
      <4>2. /\ con' = [q \in Objects |-> con'[q]]
            /\ \A q \in Objects : /\ con'[q] = [x \in DOMAIN con'[q] |-> con'[q][x]]
                                  /\ "state" \in DOMAIN con'[q]
                                  /\ con'[q].state = con[q].state
        BY <4>1, FieldKeepsServerInv, Zenon
      <4> QED  BY <3>2, <4>2, Zenon DEF ServerInv, Closing
    <3> QED  BY <2>1, <3>3, <3>4, Zenon DEF connection_udp_recv_if_handler_send
  <2>2. ASSUME NEW o, connection_dgram_handler_event(o)  PROVE ServerInv'
    <3>1. con' = connection_close(con, o) /\ server_sending' = server_sending
      BY <2>2, Zenon DEF connection_dgram_handler_event
    <3>2. /\ con' = [q \in Objects |-> con'[q]]
          /\ \A q \in Objects : /\ con'[q] = [x \in DOMAIN con'[q] |-> con'[q][x]]
                                /\ "state" \in DOMAIN con'[q]
                                /\ con'[q].state = "closing" => q = server_sending
      BY <3>1, CloseKeepsServerInv
    <3> QED  BY <3>1, <3>2, Zenon DEF ServerInv, Closing
  <2> QED  BY <1>7, <2>1, <2>2, Zenon DEF socketEvent
<1>8. CASE serverSends
  BY <1>8, SendDoneKeepsServerInv, Zenon DEF serverSends
<1>9. CASE client_disconnect_timer_handler \/ client_connection_handler \/ endRun
  BY <1>2, <1>9, Zenon DEF client_disconnect_timer_handler, client_connection_handler, endRun
<1>10. CASE UNCHANGED vars
  BY <1>1, <1>10, Zenon DEF vars, serverVars
<1> QED  BY <1>3, <1>4, <1>5, <1>6, <1>7, <1>8, <1>9, <1>10, Zenon DEF Next

(* A connection of the gateway that is closing is the one whose packet is   *)
(* being sent: the busy handler will free it, and there is at most one      *)
(* (connection_close, connection_send_qflow_busy_handler).                  *)
THEOREM ClosingIsSending == Spec => [](Closing \subseteq {server_sending})
<1>1. Init => ServerInv
  BY FreedKeepsServerInv, Zenon DEF Init, ServerInit
<1>2. ServerInv => Closing \subseteq {server_sending}
  BY Zenon DEF ServerInv
<1> QED  BY <1>1, <1>2, NextServerInv, PTL DEF Spec
-----------------------------------------------------------------------------
(* What is in a list.                                                       *)
Holds(list, x) == \E i \in 1 .. Len(list) : list[i] = x

(* LinkedList1_Remove takes one node out and leaves the others.             *)
LEMMA Removed ==
  ASSUME NEW S, NEW list \in Seq(S), NEW x, Holds(list, x)
  PROVE  /\ LinkedList1_Remove(list, x) \in Seq(S)
         /\ Len(LinkedList1_Remove(list, x)) = Len(list) - 1
         /\ \E at \in 1 .. Len(list) :
              /\ list[at] = x
              /\ \A i \in 1 .. at - 1 : LinkedList1_Remove(list, x)[i] = list[i]
              /\ \A i \in at .. Len(list) - 1 : LinkedList1_Remove(list, x)[i] = list[i + 1]
<1> DEFINE at == CHOOSE i \in DOMAIN list : list[i] = x
           R == [i \in 1 .. Len(list) - 1 |-> IF i < at THEN list[i] ELSE list[i + 1]]
<1>1. at \in 1 .. Len(list) /\ list[at] = x
  BY DEF Holds
<1>2. LinkedList1_Remove(list, x) = R
  BY DEF LinkedList1_Remove
<1> HIDE DEF at
<1>3. \A i \in 1 .. Len(list) - 1 : (IF i < at THEN list[i] ELSE list[i + 1]) \in S
  BY <1>1
<1>4. R \in Seq(S) /\ Len(R) = Len(list) - 1
  BY <1>1, <1>3
<1>5. \A i \in 1 .. at - 1 : R[i] = list[i]
  BY <1>1
<1>6. \A i \in at .. Len(list) - 1 : R[i] = list[i + 1]
  BY <1>1
<1> HIDE DEF R
<1> QED  BY <1>1, <1>2, <1>4, <1>5, <1>6, Zenon

(* Whoever was in the list and is not x still is.                           *)
LEMMA RemoveKeeps ==
  ASSUME NEW S, NEW list \in Seq(S), NEW x, Holds(list, x), NEW y
  PROVE  /\ Holds(LinkedList1_Remove(list, x), y) => Holds(list, y)
         /\ Holds(list, y) => y = x \/ Holds(LinkedList1_Remove(list, x), y)
<1> DEFINE R == LinkedList1_Remove(list, x)
<1>1. PICK at \in 1 .. Len(list) :
         /\ list[at] = x
         /\ \A i \in 1 .. at - 1 : R[i] = list[i]
         /\ \A i \in at .. Len(list) - 1 : R[i] = list[i + 1]
  BY Removed
<1>2. Len(R) = Len(list) - 1
  BY Removed
<1> HIDE DEF R
<1>3. ASSUME Holds(R, y)  PROVE Holds(list, y)
  <2>1. PICK i \in 1 .. Len(list) - 1 : R[i] = y
    BY <1>2, <1>3 DEF Holds
  <2>2. i \in 1 .. Len(list) /\ i + 1 \in 1 .. Len(list)
    OBVIOUS
  <2> QED  BY <1>1, <2>1, <2>2 DEF Holds
<1>4. ASSUME Holds(list, y), y # x  PROVE Holds(R, y)
  <2>1. PICK i \in 1 .. Len(list) : list[i] = y
    BY <1>4 DEF Holds
  <2>2. CASE i < at
    <3>1. i \in 1 .. Len(list) - 1 /\ R[i] = y
      BY <1>1, <2>1, <2>2
    <3> QED  BY <1>2, <3>1 DEF Holds
  <2>3. CASE i > at
    <3>1. i - 1 \in 1 .. Len(list) - 1 /\ R[i - 1] = y
      BY <1>1, <2>1, <2>3
    <3> QED  BY <1>2, <3>1 DEF Holds
  <2> QED  BY <1>1, <1>4, <2>1, <2>2, <2>3
<1> QED  BY <1>3, <1>4 DEF R

(* In a list without repetition x is gone, and there is still none.         *)
Distinct(list) == \A i, k \in 1 .. Len(list) : list[i] = list[k] => i = k

LEMMA RemoveDistinct ==
  ASSUME NEW S, NEW list \in Seq(S), NEW x, Holds(list, x), Distinct(list)
  PROVE  /\ Distinct(LinkedList1_Remove(list, x))
         /\ ~Holds(LinkedList1_Remove(list, x), x)
<1> DEFINE R == LinkedList1_Remove(list, x)
<1>1. PICK at \in 1 .. Len(list) :
         /\ list[at] = x
         /\ \A i \in 1 .. at - 1 : R[i] = list[i]
         /\ \A i \in at .. Len(list) - 1 : R[i] = list[i + 1]
  BY Removed
<1>2. Len(R) = Len(list) - 1
  BY Removed
<1> HIDE DEF R
<1>3. Distinct(R)
  BY <1>1, <1>2 DEF Distinct
<1>4. ~Holds(R, x)
  <2> SUFFICES ASSUME NEW i \in 1 .. Len(list) - 1, R[i] = x  PROVE FALSE
    BY <1>2 DEF Holds
  <2>1. CASE i < at
    BY <1>1, <2>1 DEF Distinct
  <2>2. CASE i >= at
    BY <1>1, <2>2 DEF Distinct
  <2> QED  BY <1>1, <2>1, <2>2
<1> QED  BY <1>3, <1>4 DEF R

(* LinkedList1_Append.                                                      *)
LEMMA AppendHolds ==
  ASSUME NEW S, NEW list \in Seq(S), NEW x \in S, NEW y
  PROVE  /\ LinkedList1_Append(list, x) \in Seq(S)
         /\ Len(LinkedList1_Append(list, x)) = Len(list) + 1
         /\ Holds(LinkedList1_Append(list, x), y) <=> Holds(list, y) \/ y = x
         /\ Distinct(list) /\ ~Holds(list, x) => Distinct(LinkedList1_Append(list, x))
<1> DEFINE A == Append(list, x)
<1>1. /\ A \in Seq(S) /\ Len(A) = Len(list) + 1 /\ A[Len(list) + 1] = x
      /\ \A i \in 1 .. Len(list) : A[i] = list[i]
  OBVIOUS
<1> HIDE DEF A
<1>2. ASSUME Holds(A, y), y # x  PROVE Holds(list, y)
  BY <1>1, <1>2 DEF Holds
<1>3. ASSUME Holds(list, y)  PROVE Holds(A, y)
  BY <1>1, <1>3 DEF Holds
<1>4. Holds(A, x)
  BY <1>1 DEF Holds
<1>5. Distinct(list) /\ ~Holds(list, x) => Distinct(A)
  BY <1>1 DEF Distinct, Holds
<1>6. LinkedList1_Append(list, x) = A
  BY DEF LinkedList1_Append, A
<1> QED  BY <1>1, <1>2, <1>3, <1>4, <1>5, <1>6

(* A node that is used moves to the end.                                    *)
LEMMA Moved ==
  ASSUME NEW S, NEW list \in Seq(S), NEW x \in S, Holds(list, x)
  PROVE  /\ moveToEnd(list, x) \in Seq(S)
         /\ Len(moveToEnd(list, x)) = Len(list)
         /\ \A y : Holds(moveToEnd(list, x), y) <=> Holds(list, y)
         /\ Distinct(list) => Distinct(moveToEnd(list, x))
<1> DEFINE R == LinkedList1_Remove(list, x)
<1>1. R \in Seq(S) /\ Len(R) = Len(list) - 1 /\ Len(list) \in Nat
  BY Removed
<1>2. \A y : (Holds(R, y) => Holds(list, y)) /\ (Holds(list, y) => y = x \/ Holds(R, y))
  BY RemoveKeeps
<1>3. Distinct(list) => Distinct(R) /\ ~Holds(R, x)
  BY RemoveDistinct
<1> HIDE DEF R
<1>4. /\ LinkedList1_Append(R, x) \in Seq(S) /\ Len(LinkedList1_Append(R, x)) = Len(R) + 1
      /\ Distinct(R) /\ ~Holds(R, x) => Distinct(LinkedList1_Append(R, x))
  BY <1>1, AppendHolds
<1>5. \A y : Holds(LinkedList1_Append(R, x), y) <=> Holds(R, y) \/ y = x
  BY <1>1, AppendHolds
<1>6. moveToEnd(list, x) = LinkedList1_Append(R, x)
  BY DEF moveToEnd, R
<1>7. Len(moveToEnd(list, x)) = Len(list)
  BY <1>1, <1>4, <1>6
<1> QED  BY <1>2, <1>3, <1>4, <1>5, <1>6, <1>7, Zenon
-----------------------------------------------------------------------------
(* The packets of a conid on their way to the gateway, w: Own are those of  *)
(* the conid, and Reb those of them with REBIND.  Up to the next REBIND     *)
(* they are all of one application.                                         *)
Chain(w, Own, Reb) ==
    \A i, k \in 1 .. Len(w) :
        /\ i < k /\ w[i] \in Own /\ w[k] \in Own
        /\ \A j \in i + 1 .. k : w[j] \notin Reb
        => w[i].local = w[k].local

(* Those that no REBIND follows are packets of the application that the     *)
(* conid serves now.                                                        *)
Ends(w, Own, Reb, l) ==
    \A i \in 1 .. Len(w) :
        w[i] \in Own /\ (\A j \in i + 1 .. Len(w) : w[j] \notin Reb) => w[i].local = l

(* Those before the first REBIND are packets of the application whose       *)
(* packets the socket has sent.                                             *)
Begins(w, Own, Reb, u) ==
    \A k \in 1 .. Len(w) :
        w[k] \in Own /\ (\A j \in 1 .. k : w[j] \notin Reb) => w[k].local = u

NoRebind(w, Reb) == \A j \in 1 .. Len(w) : w[j] \notin Reb

(* A packet with REBIND starts a new part of the way.                       *)
LEMMA RebindAppended ==
  ASSUME NEW P, NEW w \in Seq(P), NEW Own, NEW Reb, NEW p \in P, p \in Reb
  PROVE  /\ Chain(w, Own, Reb) => Chain(Append(w, p), Own, Reb)
         /\ Ends(Append(w, p), Own, Reb, p.local)
         /\ \A u : Begins(w, Own, Reb, u) => Begins(Append(w, p), Own, Reb, u)
         /\ ~NoRebind(Append(w, p), Reb)
<1> DEFINE v == Append(w, p)
<1>1. /\ Len(w) \in Nat /\ Len(v) = Len(w) + 1 /\ v[Len(w) + 1] = p
      /\ \A i \in 1 .. Len(w) : v[i] = w[i]
  OBVIOUS
<1> HIDE DEF v
<1>2. Chain(w, Own, Reb) => Chain(v, Own, Reb)
  <2> SUFFICES ASSUME Chain(w, Own, Reb), NEW i \in 1 .. Len(v), NEW k \in 1 .. Len(v),
                      i < k, v[i] \in Own, v[k] \in Own, \A j \in i + 1 .. k : v[j] \notin Reb
               PROVE  v[i].local = v[k].local
    BY DEF Chain
  <2>1. k # Len(w) + 1
    BY <1>1
  <2>2. i \in 1 .. Len(w) /\ k \in 1 .. Len(w) /\ \A j \in i + 1 .. k : v[j] = w[j]
    BY <1>1, <2>1
  <2> QED  BY <1>1, <2>2 DEF Chain
<1>3. Ends(v, Own, Reb, p.local)
  BY <1>1 DEF Ends
<1>4. ASSUME NEW u, Begins(w, Own, Reb, u)  PROVE Begins(v, Own, Reb, u)
  BY <1>1, <1>4 DEF Begins
<1>5. ~NoRebind(v, Reb)
  BY <1>1 DEF NoRebind
<1> QED  BY <1>2, <1>3, <1>4, <1>5 DEF v

(* Another packet of the application that the conid serves.                 *)
LEMMA OwnAppended ==
  ASSUME NEW P, NEW w \in Seq(P), NEW Own, NEW Reb, NEW p \in P, p \notin Reb,
         Chain(w, Own, Reb), Ends(w, Own, Reb, p.local)
  PROVE  /\ Chain(Append(w, p), Own, Reb)
         /\ Ends(Append(w, p), Own, Reb, p.local)
         /\ \A u : Begins(w, Own, Reb, u) /\ (NoRebind(w, Reb) => u = p.local)
                   => Begins(Append(w, p), Own, Reb, u)
         /\ NoRebind(Append(w, p), Reb) => NoRebind(w, Reb)
<1> DEFINE v == Append(w, p)
<1>1. /\ Len(w) \in Nat /\ Len(v) = Len(w) + 1 /\ v[Len(w) + 1] = p
      /\ \A i \in 1 .. Len(w) : v[i] = w[i]
  OBVIOUS
<1> HIDE DEF v
<1>2. Chain(v, Own, Reb)
  <2> SUFFICES ASSUME NEW i \in 1 .. Len(v), NEW k \in 1 .. Len(v),
                      i < k, v[i] \in Own, v[k] \in Own, \A j \in i + 1 .. k : v[j] \notin Reb
               PROVE  v[i].local = v[k].local
    BY DEF Chain
  <2>1. i \in 1 .. Len(w) /\ \A j \in i + 1 .. k : j \in 1 .. Len(w) => w[j] \notin Reb
    BY <1>1
  <2>2. CASE k = Len(w) + 1
    <3>1. \A j \in i + 1 .. Len(w) : w[j] \notin Reb
      BY <1>1, <2>1, <2>2
    <3> QED  BY <1>1, <2>1, <2>2, <3>1 DEF Ends
  <2>3. CASE k # Len(w) + 1
    <3>1. k \in 1 .. Len(w) /\ \A j \in i + 1 .. k : w[j] \notin Reb
      BY <1>1, <2>1, <2>3
    <3> QED  BY <1>1, <2>1, <3>1 DEF Chain
  <2> QED  BY <2>2, <2>3
<1>3. Ends(v, Own, Reb, p.local)
  <2> SUFFICES ASSUME NEW i \in 1 .. Len(v), v[i] \in Own, \A j \in i + 1 .. Len(v) : v[j] \notin Reb
               PROVE  v[i].local = p.local
    BY DEF Ends
  <2>1. CASE i = Len(w) + 1
    BY <1>1, <2>1
  <2>2. CASE i # Len(w) + 1
    <3>1. i \in 1 .. Len(w) /\ \A j \in i + 1 .. Len(w) : w[j] \notin Reb
      BY <1>1, <2>2
    <3> QED  BY <1>1, <3>1 DEF Ends
  <2> QED  BY <2>1, <2>2
<1>4. NoRebind(v, Reb) => NoRebind(w, Reb)
  BY <1>1 DEF NoRebind
<1>5. ASSUME NEW u, Begins(w, Own, Reb, u), NoRebind(w, Reb) => u = p.local
      PROVE  Begins(v, Own, Reb, u)
  <2> SUFFICES ASSUME NEW k \in 1 .. Len(v), v[k] \in Own, \A j \in 1 .. k : v[j] \notin Reb
               PROVE  v[k].local = u
    BY DEF Begins
  <2>1. CASE k = Len(w) + 1
    BY <1>1, <1>5, <2>1 DEF NoRebind
  <2>2. CASE k # Len(w) + 1
    <3>1. k \in 1 .. Len(w) /\ \A j \in 1 .. k : w[j] \notin Reb
      BY <1>1, <2>2
    <3> QED  BY <1>1, <1>5, <3>1 DEF Begins
  <2> QED  BY <2>1, <2>2
<1> QED  BY <1>2, <1>3, <1>4, <1>5 DEF v

(* A packet of another flow comes between those in the stream, s, and those *)
(* in the buffer, q.                                                        *)
LEMMA OtherInserted ==
  ASSUME NEW P, NEW s \in Seq(P), NEW q \in Seq(P), NEW Own, NEW Reb, Reb \subseteq Own,
         NEW p \in P, p \notin Own
  PROVE  /\ Chain(s \o q, Own, Reb) => Chain(Append(s, p) \o q, Own, Reb)
         /\ \A l : Ends(s \o q, Own, Reb, l) => Ends(Append(s, p) \o q, Own, Reb, l)
         /\ \A u : Begins(s \o q, Own, Reb, u) => Begins(Append(s, p) \o q, Own, Reb, u)
         /\ NoRebind(Append(s, p) \o q, Reb) => NoRebind(s \o q, Reb)
<1> DEFINE w == s \o q
           v == Append(s, p) \o q
           at == Len(s) + 1
           old(i) == IF i < at THEN i ELSE i - 1
           new(i) == IF i < at THEN i ELSE i + 1
<1>1. /\ Len(w) \in Nat /\ Len(v) = Len(w) + 1 /\ v[at] = p /\ at \in 1 .. Len(v)
      /\ \A i \in 1 .. Len(v) : i # at => old(i) \in 1 .. Len(w) /\ v[i] = w[old(i)]
  OBVIOUS
<1>2. \A i \in 1 .. Len(w) : new(i) \in 1 .. Len(v) /\ new(i) # at /\ w[i] = v[new(i)]
  BY <1>1
<1> HIDE DEF v, w
<1>3. v[at] \notin Own /\ v[at] \notin Reb
  BY <1>1
<1> HIDE DEF at
<1>4. at \in Nat
  BY DEF at
<1>5. Chain(w, Own, Reb) => Chain(v, Own, Reb)
  <2> SUFFICES ASSUME Chain(w, Own, Reb), NEW i \in 1 .. Len(v), NEW k \in 1 .. Len(v),
                      i < k, v[i] \in Own, v[k] \in Own, \A j \in i + 1 .. k : v[j] \notin Reb
               PROVE  v[i].local = v[k].local
    BY DEF Chain
  <2>1. i # at /\ k # at
    BY <1>3
  <2>2. old(i) \in 1 .. Len(w) /\ old(k) \in 1 .. Len(w) /\ old(i) < old(k)
        /\ v[i] = w[old(i)] /\ v[k] = w[old(k)]
    BY <1>1, <1>4, <2>1
  <2>3. \A j \in old(i) + 1 .. old(k) : w[j] \notin Reb
    <3> TAKE j \in old(i) + 1 .. old(k)
    <3>1. j \in 1 .. Len(w) /\ new(j) \in i + 1 .. k
      BY <1>4, <2>1, <2>2
    <3> QED  BY <1>2, <3>1
  <2> QED  BY <2>2, <2>3 DEF Chain
<1>6. ASSUME NEW l, Ends(w, Own, Reb, l)  PROVE Ends(v, Own, Reb, l)
  <2> SUFFICES ASSUME NEW i \in 1 .. Len(v), v[i] \in Own, \A j \in i + 1 .. Len(v) : v[j] \notin Reb
               PROVE  v[i].local = l
    BY DEF Ends
  <2>1. i # at /\ old(i) \in 1 .. Len(w) /\ v[i] = w[old(i)]
    BY <1>1, <1>3
  <2>2. \A j \in old(i) + 1 .. Len(w) : w[j] \notin Reb
    <3> TAKE j \in old(i) + 1 .. Len(w)
    <3>1. j \in 1 .. Len(w) /\ new(j) \in i + 1 .. Len(v)
      BY <1>1, <1>4, <2>1
    <3> QED  BY <1>2, <3>1
  <2> QED  BY <1>6, <2>1, <2>2 DEF Ends
<1>7. ASSUME NEW u, Begins(w, Own, Reb, u)  PROVE Begins(v, Own, Reb, u)
  <2> SUFFICES ASSUME NEW k \in 1 .. Len(v), v[k] \in Own, \A j \in 1 .. k : v[j] \notin Reb
               PROVE  v[k].local = u
    BY DEF Begins
  <2>1. k # at /\ old(k) \in 1 .. Len(w) /\ v[k] = w[old(k)]
    BY <1>1, <1>3
  <2>2. \A j \in 1 .. old(k) : w[j] \notin Reb
    <3> TAKE j \in 1 .. old(k)
    <3>1. j \in 1 .. Len(w) /\ new(j) \in 1 .. k
      BY <1>1, <1>4, <2>1
    <3> QED  BY <1>2, <3>1
  <2> QED  BY <1>7, <2>1, <2>2 DEF Begins
<1>8. NoRebind(v, Reb) => NoRebind(w, Reb)
  BY <1>2 DEF NoRebind
<1> QED  BY <1>5, <1>6, <1>7, <1>8 DEF v, w

(* The first packet arrives.  What follows is on the same way, and if the   *)
(* packet is one of the conid a new socket for it begins that way.          *)
LEMMA FirstGone ==
  ASSUME NEW P, NEW w \in Seq(P), w # <<>>, NEW Own, NEW Reb, Reb \subseteq Own,
         Chain(w, Own, Reb), NEW l, Ends(w, Own, Reb, l)
  PROVE  /\ Chain(Tail(w), Own, Reb) /\ Ends(Tail(w), Own, Reb, l)
         /\ Head(w) \in Own => /\ Begins(Tail(w), Own, Reb, Head(w).local)
                               /\ NoRebind(Tail(w), Reb) => Head(w).local = l
<1> DEFINE v == Tail(w)
<1>1. /\ Len(w) \in Nat /\ Len(w) > 0 /\ Len(v) = Len(w) - 1 /\ Head(w) = w[1]
      /\ \A i \in 1 .. Len(v) : v[i] = w[i + 1]
  OBVIOUS
<1> HIDE DEF v
<1>2. \A m, n \in 1 .. Len(w) : (\A j \in m .. n - 1 : v[j] \notin Reb)
                                 => \A j \in m + 1 .. n : w[j] \notin Reb
  <2> SUFFICES ASSUME NEW m \in 1 .. Len(w), NEW n \in 1 .. Len(w),
                      \A j \in m .. n - 1 : v[j] \notin Reb, NEW j \in m + 1 .. n
               PROVE  w[j] \notin Reb
    OBVIOUS
  <2>1. j - 1 \in m .. n - 1 /\ j - 1 \in 1 .. Len(v) /\ (j - 1) + 1 = j
    BY <1>1
  <2> QED  BY <1>1, <2>1
<1>3. Chain(v, Own, Reb)
  <2> SUFFICES ASSUME NEW i \in 1 .. Len(v), NEW k \in 1 .. Len(v),
                      i < k, v[i] \in Own, v[k] \in Own, \A j \in i + 1 .. k : v[j] \notin Reb
               PROVE  v[i].local = v[k].local
    BY DEF Chain
  <2>1. i + 1 \in 1 .. Len(w) /\ k + 1 \in 1 .. Len(w) /\ k = (k + 1) - 1 /\ i + 1 < k + 1
        /\ v[i] = w[i + 1] /\ v[k] = w[k + 1]
    BY <1>1
  <2>2. \A j \in (i + 1) + 1 .. k + 1 : w[j] \notin Reb
    BY <1>2, <2>1
  <2> QED  BY <2>1, <2>2 DEF Chain
<1>4. Ends(v, Own, Reb, l)
  <2> SUFFICES ASSUME NEW i \in 1 .. Len(v), v[i] \in Own, \A j \in i + 1 .. Len(v) : v[j] \notin Reb
               PROVE  v[i].local = l
    BY DEF Ends
  <2>1. i + 1 \in 1 .. Len(w) /\ Len(w) \in 1 .. Len(w) /\ v[i] = w[i + 1] /\ Len(v) = Len(w) - 1
    BY <1>1
  <2>2. \A j \in (i + 1) + 1 .. Len(w) : w[j] \notin Reb
    BY <1>2, <2>1
  <2> QED  BY <2>1, <2>2 DEF Ends
<1>5. ASSUME w[1] \in Own  PROVE Begins(v, Own, Reb, w[1].local)
  <2> SUFFICES ASSUME NEW k \in 1 .. Len(v), v[k] \in Own, \A j \in 1 .. k : v[j] \notin Reb
               PROVE  v[k].local = w[1].local
    BY DEF Begins
  <2>1. 1 \in 1 .. Len(w) /\ k + 1 \in 1 .. Len(w) /\ k = (k + 1) - 1 /\ 1 < k + 1
        /\ v[k] = w[k + 1]
    BY <1>1
  <2>2. \A j \in 1 + 1 .. k + 1 : w[j] \notin Reb
    BY <1>2, <2>1
  <2> QED  BY <1>5, <2>1, <2>2 DEF Chain
<1>6. ASSUME w[1] \in Own, NoRebind(v, Reb)  PROVE w[1].local = l
  <2>1. 1 \in 1 .. Len(w) /\ Len(w) \in 1 .. Len(w) /\ Len(v) = Len(w) - 1
    BY <1>1
  <2>2. \A j \in 1 + 1 .. Len(w) : w[j] \notin Reb
    BY <1>2, <1>6, <2>1 DEF NoRebind
  <2> QED  BY <1>6, <2>1, <2>2 DEF Ends
<1> QED  BY <1>1, <1>3, <1>4, <1>5, <1>6 DEF v

(* A socket that stays open goes on along the way, and the packet is one of *)
(* its application.                                                         *)
LEMMA FirstGoneForSocket ==
  ASSUME NEW P, NEW w \in Seq(P), w # <<>>, NEW Own, NEW Reb, Reb \subseteq Own,
         NEW u, Begins(w, Own, Reb, u), Head(w) \notin Reb
  PROVE  /\ Begins(Tail(w), Own, Reb, u)
         /\ NoRebind(Tail(w), Reb) => NoRebind(w, Reb)
         /\ Head(w) \in Own => Head(w).local = u
<1> DEFINE v == Tail(w)
<1>1. /\ Len(w) \in Nat /\ Len(w) > 0 /\ Len(v) = Len(w) - 1 /\ Head(w) = w[1]
      /\ \A i \in 1 .. Len(v) : v[i] = w[i + 1]
  OBVIOUS
<1> HIDE DEF v
<1>2. \A n \in 1 .. Len(w) : (\A j \in 1 .. n - 1 : v[j] \notin Reb) => \A j \in 1 .. n : w[j] \notin Reb
  <2> SUFFICES ASSUME NEW n \in 1 .. Len(w), \A j \in 1 .. n - 1 : v[j] \notin Reb, NEW j \in 1 .. n
               PROVE  w[j] \notin Reb
    OBVIOUS
  <2>1. CASE j = 1
    BY <1>1, <2>1
  <2>2. CASE j # 1
    <3>1. j - 1 \in 1 .. n - 1 /\ j - 1 \in 1 .. Len(v) /\ (j - 1) + 1 = j
      BY <1>1, <2>2
    <3> QED  BY <1>1, <3>1
  <2> QED  BY <2>1, <2>2
<1>3. Begins(v, Own, Reb, u)
  <2> SUFFICES ASSUME NEW k \in 1 .. Len(v), v[k] \in Own, \A j \in 1 .. k : v[j] \notin Reb
               PROVE  v[k].local = u
    BY DEF Begins
  <2>1. k + 1 \in 1 .. Len(w) /\ k = (k + 1) - 1 /\ v[k] = w[k + 1]
    BY <1>1
  <2>2. \A j \in 1 .. k + 1 : w[j] \notin Reb
    BY <1>2, <2>1
  <2> QED  BY <2>1, <2>2 DEF Begins
<1>4. NoRebind(v, Reb) => NoRebind(w, Reb)
  <2>1. Len(w) \in 1 .. Len(w) /\ Len(v) = Len(w) - 1
    BY <1>1
  <2> QED  BY <1>2, <2>1 DEF NoRebind
<1>5. w[1] \in Own => w[1].local = u
  BY <1>1 DEF Begins
<1> QED  BY <1>1, <1>3, <1>4, <1>5 DEF v

(* The stream is gone, and only the buffer is left.                         *)
LEMMA StreamLost ==
  ASSUME NEW P, NEW s \in Seq(P), NEW q \in Seq(P), NEW Own, NEW Reb,
         Chain(s \o q, Own, Reb), NEW l, Ends(s \o q, Own, Reb, l)
  PROVE  Chain(q, Own, Reb) /\ Ends(q, Own, Reb, l)
<1> DEFINE w == s \o q
           n == Len(s)
<1>1. /\ n \in Nat /\ Len(q) \in Nat /\ Len(w) = n + Len(q)
      /\ \A i \in 1 .. Len(q) : w[n + i] = q[i]
  OBVIOUS
<1> HIDE DEF w, n
<1>2. \A i \in 1 .. Len(q) : \A k \in 1 .. Len(q) :
        (\A j \in i + 1 .. k : q[j] \notin Reb) => \A j \in (n + i) + 1 .. n + k : w[j] \notin Reb
  <2> SUFFICES ASSUME NEW i \in 1 .. Len(q), NEW k \in 1 .. Len(q),
                      \A j \in i + 1 .. k : q[j] \notin Reb, NEW j \in (n + i) + 1 .. n + k
               PROVE  w[j] \notin Reb
    OBVIOUS
  <2>1. j - n \in i + 1 .. k /\ j - n \in 1 .. Len(q) /\ n + (j - n) = j
    BY <1>1
  <2> QED  BY <1>1, <2>1
<1>3. Chain(q, Own, Reb)
  <2> SUFFICES ASSUME NEW i \in 1 .. Len(q), NEW k \in 1 .. Len(q),
                      i < k, q[i] \in Own, q[k] \in Own, \A j \in i + 1 .. k : q[j] \notin Reb
               PROVE  q[i].local = q[k].local
    BY DEF Chain
  <2>1. n + i \in 1 .. Len(w) /\ n + k \in 1 .. Len(w) /\ n + i < n + k
    BY <1>1
  <2>2. q[i] = w[n + i] /\ q[k] = w[n + k]
    BY <1>1
  <2>3. \A j \in (n + i) + 1 .. n + k : w[j] \notin Reb
    BY <1>2
  <2> QED  BY <2>1, <2>2, <2>3 DEF Chain, w
<1>4. Ends(q, Own, Reb, l)
  <2> SUFFICES ASSUME NEW i \in 1 .. Len(q), q[i] \in Own, \A j \in i + 1 .. Len(q) : q[j] \notin Reb
               PROVE  q[i].local = l
    BY DEF Ends
  <2>1. n + i \in 1 .. Len(w) /\ q[i] = w[n + i] /\ Len(q) \in 1 .. Len(q) /\ Len(w) = n + Len(q)
    BY <1>1
  <2>2. \A j \in (n + i) + 1 .. Len(w) : w[j] \notin Reb
    BY <1>2, <2>1
  <2> QED  BY <2>1, <2>2 DEF Ends, w
<1> QED  BY <1>3, <1>4

(* A packet leaves the buffer for the stream: the way is the same.          *)
LEMMA WayIsSame ==
  ASSUME NEW P, NEW s \in Seq(P), NEW q \in Seq(P), q # <<>>
  PROVE  Append(s, Head(q)) \o Tail(q) = s \o q
  OBVIOUS

(* ... and a packet at the end of the buffer is at the end of the way; the  *)
(* first of the stream is the first of the way.                             *)
LEMMA WayEnds ==
  ASSUME NEW P, NEW s \in Seq(P), NEW q \in Seq(P), NEW p \in P
  PROVE  /\ s \o Append(q, p) = Append(s \o q, p)
         /\ s # <<>> => Tail(s) \o q = Tail(s \o q) /\ Head(s \o q) = Head(s) /\ s \o q # <<>>
         /\ <<>> \o q = q
  OBVIOUS
-----------------------------------------------------------------------------
(* Whose packets a conid may carry: until it is taken from one pair for     *)
(* another, those of the application that it serves.                        *)
Asked(c, users) == c \in reused \/ (conaddr[c] # NoAddr /\ users = {conaddr[c][1]})

DataPackets == [flags : SUBSET {"REBIND"}, conid : Conids, local : Locals, remote : Remotes]
Own(c) == {p \in DataPackets : p.conid = c}
Reb(c) == {p \in Own(c) : "REBIND" \in p.flags}
AskedPackets(c) == {p \in Own(c) : Asked(c, {p.local})}
Packets == {p \in DataPackets : Asked(p.conid, {p.local})} \union {keepalive_packet}
Answers ==
    {m \in [conid : Conids, remote : Remotes, users : SUBSET Locals] : Asked(m.conid, m.users)}
Connections ==
    {r \in [state : {"live", "closing"}, conid : Conids, orig_addr : Remotes,
            users : SUBSET Locals, out : Seq(Answers)] : Asked(r.conid, r.users)}

(* The client: the conids in the list are those that are taken.             *)
ConaddrInv ==
    /\ conaddr \in [Conids -> ConAddrs \union {NoAddr}]
    /\ connections_list \in Seq(Conids) /\ next_conid \in Conids
    /\ \A c \in Conids : Holds(connections_list, c) <=> conaddr[c] # NoAddr
(* What is queued and under way.                                            *)
QueuesInv ==
    /\ \A c \in Conids : queue[c] \in Seq(AskedPackets(c))
    /\ queue[KeepaliveFlow] \in Seq({keepalive_packet})
StreamInv == toServer \in Seq(Packets) /\ toClient \in Seq(Answers)
(* The gateway's connections, and what is sent.                             *)
ConnectionsOk(cons, o) ==
    /\ cons \in [Objects -> Connections \union {FreeObject}]
    /\ o # NoCon => o \in Objects /\ cons[o] \in Connections /\ cons[o].out # <<>>
(* Those in the list are the live ones, with one conid each.                *)
ListOk(cons, list) ==
    /\ list \in Seq(Objects) /\ Distinct(list)
    /\ Len(list) <= max_connections_for_client
    /\ \A o \in Objects : Holds(list, o) <=> cons[o].state = "live"
    /\ \A o, q \in Objects :
         cons[o].state = "live" /\ cons[q].state = "live" /\ cons[o].conid = cons[q].conid => o = q

AskInv ==
    /\ ConaddrInv /\ QueuesInv /\ StreamInv
    /\ ConnectionsOk(con, server_sending) /\ ListOk(con, server_list)

(* A connection that is in use is none that is free.                        *)
LEMMA NotFree ==
  /\ FreeObject \notin Connections /\ FreeObject.state = "free"
  /\ \A r \in Connections : r.state \in {"live", "closing"}
  /\ \A r \in Connections \union {FreeObject} : r.state # "free" => r \in Connections
<1>1. FreeObject.state = "free"
  BY DEF FreeObject
<1>2. \A r \in Connections : r.state \in {"live", "closing"}
  BY DEF Connections
<1> QED  BY <1>1, <1>2

(* The fields of a connection change within their types.                    *)
LEMMA ClosingConnection ==
  ASSUME NEW r \in Connections
  PROVE  /\ [r EXCEPT !.state = "closing"] \in Connections
         /\ [r EXCEPT !.state = "closing"].state = "closing"
         /\ [r EXCEPT !.state = "closing"].out = r.out
  BY DEF Connections

LEMMA OutConnection ==
  ASSUME NEW r \in Connections, NEW q \in Seq(Answers)
  PROVE  /\ [r EXCEPT !.out = q] \in Connections
         /\ [r EXCEPT !.out = q].state = r.state /\ [r EXCEPT !.out = q].conid = r.conid
         /\ [r EXCEPT !.out = q].users = r.users /\ [r EXCEPT !.out = q].out = q
  BY DEF Connections

LEMMA UsedConnection ==
  ASSUME NEW r \in Connections, NEW l \in Locals, Asked(r.conid, {l})
  PROVE  /\ [r EXCEPT !.users = r.users \union {l}] \in Connections
         /\ [r EXCEPT !.users = r.users \union {l}].state = r.state
         /\ [r EXCEPT !.users = r.users \union {l}].conid = r.conid
         /\ [r EXCEPT !.users = r.users \union {l}].users = r.users \union {l}
         /\ [r EXCEPT !.users = r.users \union {l}].out = r.out
<1>1. /\ r \in [state : {"live", "closing"}, conid : Conids, orig_addr : Remotes,
                users : SUBSET Locals, out : Seq(Answers)]
      /\ Asked(r.conid, r.users)
  BY DEF Connections
<1>2. Asked(r.conid, r.users \union {l})
  BY <1>1 DEF Asked
<1> DEFINE v == [r EXCEPT !.users = r.users \union {l}]
<1>3. /\ v \in [state : {"live", "closing"}, conid : Conids, orig_addr : Remotes,
                users : SUBSET Locals, out : Seq(Answers)]
      /\ v.state = r.state /\ v.conid = r.conid /\ v.users = r.users \union {l} /\ v.out = r.out
  BY <1>1
<1> HIDE DEF v
<1>4. v \in Connections
  BY <1>2, <1>3, Zenon DEF Connections
<1> QED  BY <1>3, <1>4 DEF v

LEMMA NewConnection ==
  ASSUME NEW p \in Packets, p # keepalive_packet
  PROVE  /\ connection(p) \in Connections /\ connection(p).state = "live"
         /\ connection(p).conid = p.conid /\ connection(p).users = {p.local}
<1>1. p \in DataPackets /\ Asked(p.conid, {p.local})
  BY DEF Packets
<1> DEFINE v == connection(p)
<1>2. v.state = "live" /\ v.conid = p.conid /\ v.users = {p.local}
  BY DEF connection
<1>3. v \in [state : {"live", "closing"}, conid : Conids, orig_addr : Remotes,
             users : SUBSET Locals, out : Seq(Answers)]
  BY <1>1 DEF connection, DataPackets
<1> HIDE DEF v
<1>4. v \in Connections
  BY <1>1, <1>2, <1>3, Zenon DEF Connections
<1> QED  BY <1>2, <1>4 DEF v

(* What a socket receives is an answer to those who used it.                *)
LEMMA NewAnswer ==
  ASSUME NEW r \in Connections
  PROVE  [conid |-> r.conid, remote |-> r.orig_addr, users |-> r.users] \in Answers
  BY DEF Connections, Answers

(* A packet that connection_send is given.                                  *)
LEMMA NewPacket ==
  ASSUME NEW c \in Conids, NEW a \in ConAddrs, NEW flags \in SUBSET {"REBIND"}
  PROVE  /\ Packet(flags, c, a) \in Own(c) /\ Packet(flags, c, a).local = a[1]
         /\ Packet(flags, c, a) \in Reb(c) <=> "REBIND" \in flags
         /\ Packet(flags, c, a).flags = flags
  BY DEF Packet, Own, Reb, DataPackets, ConAddrs
-----------------------------------------------------------------------------
(* All memory is free before a client connects and after client_free.       *)
LEMMA FreedIsOk ==
  ASSUME NEW cons, cons = [o \in Objects |-> FreeObject]
  PROVE  ConnectionsOk(cons, NoCon) /\ ListOk(cons, <<>>)
<1>1. ConnectionsOk(cons, NoCon)
  BY DEF ConnectionsOk
<1>2. <<>> \in Seq(Objects) /\ Len(<<>>) = 0 /\ 0 <= max_connections_for_client
  BY ServerConstants
<1>3. Distinct(<<>>) /\ \A o \in Objects : ~Holds(<<>>, o)
  BY <1>2 DEF Distinct, Holds
<1>4. \A o \in Objects : cons[o].state # "live"
  BY NotFree
<1> QED  BY <1>1, <1>2, <1>3, <1>4, Zenon DEF ListOk

(* connection_close and LinkedList1_Remove.                                 *)
LEMMA CloseIsOk ==
  ASSUME ConnectionsOk(con, server_sending), ListOk(con, server_list),
         NEW d \in Objects, con[d].state = "live",
         NEW cons, cons = connection_close(con, d),
         NEW list, list = LinkedList1_Remove(server_list, d)
  PROVE  /\ ConnectionsOk(cons, server_sending) /\ ListOk(cons, list)
         /\ Len(list) < max_connections_for_client
         /\ \A o \in Objects : cons[o].state = "live" => o # d /\ cons[o] = con[o]
<1>0. con[d] \in Connections
  BY NotFree DEF ConnectionsOk
<1>1. /\ cons \in [Objects -> Connections \union {FreeObject}]
      /\ \A o \in Objects : o # d => cons[o] = con[o]
      /\ cons[d] = IF server_sending = d THEN [con[d] EXCEPT !.state = "closing"] ELSE FreeObject
  BY <1>0, ClosingConnection DEF connection_close, ConnectionsOk
<1>2. cons[d].state # "live"
  BY <1>0, <1>1, ClosingConnection, NotFree
<1>3. ConnectionsOk(cons, server_sending)
  <2>1. CASE server_sending = d
    BY <1>0, <1>1, <2>1, ClosingConnection DEF ConnectionsOk
  <2>2. CASE server_sending # d
    BY <1>1, <2>2 DEF ConnectionsOk
  <2> QED  BY <2>1, <2>2
<1>4. Holds(server_list, d) /\ server_list \in Seq(Objects) /\ Distinct(server_list)
  BY Zenon DEF ListOk
<1>5. list \in Seq(Objects) /\ Len(list) = Len(server_list) - 1 /\ Distinct(list) /\ ~Holds(list, d)
  BY <1>4, Removed, RemoveDistinct
<1>6. \A o \in Objects : o # d => (Holds(list, o) <=> Holds(server_list, o))
  BY <1>4, RemoveKeeps, Zenon
<1>7. Len(list) < max_connections_for_client
  <2>1. Len(server_list) \in Nat
    BY <1>4
  <2>2. Len(server_list) <= max_connections_for_client /\ max_connections_for_client \in Nat
    BY ServerConstants, Zenon DEF ListOk
  <2>3. \A n \in Nat : n <= max_connections_for_client => n - 1 < max_connections_for_client
    BY <2>2
  <2> QED  BY <1>5, <2>1, <2>2, <2>3, Zenon
<1>8. \A o \in Objects : Holds(list, o) <=> cons[o].state = "live"
  BY <1>1, <1>2, <1>5, <1>6, Zenon DEF ListOk
<1>9. \A o, q \in Objects :
         cons[o].state = "live" /\ cons[q].state = "live" /\ cons[o].conid = cons[q].conid => o = q
  <2> SUFFICES ASSUME NEW o \in Objects, NEW q \in Objects, cons[o].state = "live",
                      cons[q].state = "live", cons[o].conid = cons[q].conid
               PROVE  o = q
    BY Zenon
  <2>1. cons[o] = con[o] /\ cons[q] = con[q]
    BY <1>1, <1>2, Zenon
  <2>2. con[o].state = "live" /\ con[q].state = "live" /\ con[o].conid = con[q].conid
    BY <2>1, Zenon
  <2> QED  BY <2>2, Zenon DEF ListOk
<1>10. Len(list) <= max_connections_for_client
  BY <1>4, <1>5, <1>7, ServerConstants
<1>11. ListOk(cons, list)
  BY <1>5, <1>8, <1>9, <1>10, Zenon DEF ListOk
<1> QED  BY <1>1, <1>2, <1>3, <1>7, <1>11, Zenon

(* The connections with r for the one that o was.                           *)
Put(cons, o, r) == [cons EXCEPT ![o] = r]
Differ(cons, made, o, r) == made[o] = r /\ \A q \in Objects : q # o => made[q] = cons[q]

(* No connection has this conid.                                            *)
NoneLive(cons, conid) == \A o \in Objects : cons[o].state = "live" => cons[o].conid # conid

(* connection_init, given an object that is free.                           *)
LEMMA MakeIsOk ==
  ASSUME NEW cons, NEW list, ConnectionsOk(cons, server_sending), ListOk(cons, list),
         Len(list) < max_connections_for_client,
         NEW p \in Packets, p # keepalive_packet, NoneLive(cons, p.conid),
         NEW new \in Objects, cons[new].state = "free"
  PROVE  /\ ConnectionsOk(Put(cons, new, connection(p)), server_sending)
         /\ ListOk(Put(cons, new, connection(p)), LinkedList1_Append(list, new))
         /\ Differ(cons, Put(cons, new, connection(p)), new, connection(p))
<1> DEFINE made == Put(cons, new, connection(p))
<1>0. made = [cons EXCEPT ![new] = connection(p)]
  BY DEF Put
<1> HIDE DEF made
<1>1. /\ made \in [Objects -> Connections \union {FreeObject}]
      /\ made[new] = connection(p) /\ \A o \in Objects : o # new => made[o] = cons[o]
  BY <1>0, NewConnection DEF ConnectionsOk
<1>2. server_sending # new
  <2>1. NoCon # new
    BY ServerConstants DEF NoCon, Objects
  <2> QED  BY <2>1, NotFree DEF ConnectionsOk
<1>3. ConnectionsOk(made, server_sending)
  BY <1>1, <1>2, Zenon DEF ConnectionsOk
<1> DEFINE long == LinkedList1_Append(list, new)
<1>4. list \in Seq(Objects) /\ Distinct(list) /\ ~Holds(list, new)
  <2>1. cons[new].state # "live"
    OBVIOUS
  <2> QED  BY <2>1, Zenon DEF ListOk
<1>5. long \in Seq(Objects) /\ Len(long) = Len(list) + 1 /\ Distinct(long)
  BY <1>4, AppendHolds
<1>6. \A o \in Objects : Holds(long, o) <=> Holds(list, o) \/ o = new
  BY <1>4, AppendHolds, Zenon
<1> HIDE DEF long
<1>7. Len(long) <= max_connections_for_client
  <2>1. Len(list) \in Nat /\ max_connections_for_client \in Nat
    BY <1>4, ServerConstants
  <2>2. \A n \in Nat : n < max_connections_for_client => n + 1 <= max_connections_for_client
    BY <2>1
  <2> QED  BY <1>5, <2>1, <2>2, Zenon
<1>8. made[new].state = "live" /\ made[new].conid = p.conid
  BY <1>1, NewConnection
<1>9. \A o \in Objects : Holds(long, o) <=> made[o].state = "live"
  BY <1>1, <1>6, <1>8, Zenon DEF ListOk
<1>10. \A o, q \in Objects :
         made[o].state = "live" /\ made[q].state = "live" /\ made[o].conid = made[q].conid => o = q
  <2>1. \A o \in Objects : o # new /\ made[o].state = "live" => made[o].conid # p.conid
    BY <1>1, Zenon DEF NoneLive
  <2> SUFFICES ASSUME NEW o \in Objects, NEW q \in Objects, made[o].state = "live",
                      made[q].state = "live", made[o].conid = made[q].conid, o # q
               PROVE  FALSE
    BY Zenon
  <2>2. o # new /\ q # new
    BY <1>8, <2>1, Zenon
  <2>3. made[o] = cons[o] /\ made[q] = cons[q]
    BY <1>1, <2>2, Zenon
  <2> QED  BY <2>3, Zenon DEF ListOk
<1>11. ListOk(made, long)
  BY <1>5, <1>7, <1>9, <1>10, Zenon DEF ListOk
<1> QED  BY <1>1, <1>3, <1>11, Zenon DEF long, made, Differ

(* A connection is used: a field changes that is neither its state nor its  *)
(* conid, and it moves to the end of the list.                              *)
LEMMA UseIsOk ==
  ASSUME ConnectionsOk(con, server_sending), ListOk(con, server_list),
         NEW o \in Objects, con[o].state = "live",
         NEW r \in Connections, r.state = "live", r.conid = con[o].conid,
         con[o].out # <<>> => r.out # <<>>
  PROVE  /\ ConnectionsOk(Put(con, o, r), server_sending)
         /\ ListOk(Put(con, o, r), moveToEnd(server_list, o))
         /\ Differ(con, Put(con, o, r), o, r)
<1> DEFINE cons == Put(con, o, r)
<1>0. cons = [con EXCEPT ![o] = r]
  BY DEF Put
<1> HIDE DEF cons
<1>1. /\ cons \in [Objects -> Connections \union {FreeObject}]
      /\ cons[o] = r /\ \A q \in Objects : q # o => cons[q] = con[q]
  BY <1>0 DEF ConnectionsOk
<1>2. ConnectionsOk(cons, server_sending)
  BY <1>1, Zenon DEF ConnectionsOk
<1>3. Holds(server_list, o) /\ server_list \in Seq(Objects) /\ Distinct(server_list)
  BY Zenon DEF ListOk
<1> DEFINE list == moveToEnd(server_list, o)
<1>4. /\ list \in Seq(Objects) /\ Len(list) = Len(server_list) /\ Distinct(list)
      /\ \A y : Holds(list, y) <=> Holds(server_list, y)
  BY <1>3, Moved, Zenon
<1> HIDE DEF list
<1>5. \A q \in Objects : cons[q].state = "live" <=> con[q].state = "live"
  BY <1>1, Zenon
<1>6. \A q \in Objects : cons[q].conid = con[q].conid
  BY <1>1, Zenon
<1>7. ListOk(cons, list)
  <2>1. Len(list) <= max_connections_for_client
    BY <1>4, Zenon DEF ListOk
  <2>2. \A q \in Objects : Holds(list, q) <=> cons[q].state = "live"
    BY <1>4, <1>5, Zenon DEF ListOk
  <2>3. \A p, q \in Objects :
          cons[p].state = "live" /\ cons[q].state = "live" /\ cons[p].conid = cons[q].conid => p = q
    <3> SUFFICES ASSUME NEW p \in Objects, NEW q \in Objects, cons[p].state = "live",
                        cons[q].state = "live", cons[p].conid = cons[q].conid
                 PROVE  p = q
      BY Zenon
    <3>1. con[p].state = "live" /\ con[q].state = "live" /\ con[p].conid = con[q].conid
      BY <1>5, <1>6
    <3> QED  BY <3>1, Zenon DEF ListOk
  <2> QED  BY <1>4, <2>1, <2>2, <2>3, Zenon DEF ListOk
<1> QED  BY <1>1, <1>2, <1>7, Zenon DEF list, cons, Differ

(* Only the list changes: the packet found no room.                         *)
LEMMA MoveIsOk ==
  ASSUME ListOk(con, server_list), NEW o \in Objects, con[o].state = "live"
  PROVE  ListOk(con, moveToEnd(server_list, o))
<1>3. Holds(server_list, o) /\ server_list \in Seq(Objects) /\ Distinct(server_list)
  BY Zenon DEF ListOk
<1> DEFINE list == moveToEnd(server_list, o)
<1>4. /\ list \in Seq(Objects) /\ Len(list) = Len(server_list) /\ Distinct(list)
      /\ \A y : Holds(list, y) <=> Holds(server_list, y)
  BY <1>3, Moved, Zenon
<1> HIDE DEF list
<1>7. ListOk(con, list)
  BY <1>4, Zenon DEF ListOk
<1> QED  BY <1>7, Zenon DEF list

(* Another connection is sent next: one that has a packet.                  *)
LEMMA NextSending ==
  ASSUME NEW cons, ConnectionsOk(cons, NoCon), NEW s \in server_schedule(NoCon, cons)
  PROVE  ConnectionsOk(cons, s)
<1>1. s = NoCon \/ (s \in Objects /\ cons[s].state # "free" /\ cons[s].out # <<>>)
  BY Zenon DEF server_schedule
<1>2. ASSUME s \in Objects, cons[s].state # "free"  PROVE cons[s] \in Connections
  BY <1>2, NotFree DEF ConnectionsOk
<1> QED  BY <1>1, <1>2, Zenon DEF ConnectionsOk
-----------------------------------------------------------------------------
(* find_unused_conid finds one while the list is shorter than               *)
(* max_connections.                                                         *)
ConidIsFree ==
    Len(connections_list) < max_connections =>
        find_unused_conid \in Conids /\ conaddr[find_unused_conid] = NoAddr

(* connection_send leaves the other flows alone.                            *)
LEMMA SendDoes ==
  ASSUME QueueInv, NEW c \in Conids, NEW p, connection_send(c, p)
  PROVE  /\ \A f \in AllFlows : f # c => queue'[f] = queue[f]
         /\ \/ queue'[c] = Append(queue[c], p) /\ rebind_lost' = rebind_lost
            \/ /\ queue'[c] = queue[c]
               /\ rebind_lost' = IF "REBIND" \in p.flags THEN rebind_lost \union {c} ELSE rebind_lost
<1>1. queue = [f \in AllFlows |-> queue[f]] /\ c \in AllFlows
  BY Zenon DEF QueueInv, AllFlows
<1>2. CASE queue' = [queue EXCEPT ![c] = Append(@, p)] /\ rebind_lost' = rebind_lost
  BY <1>1, <1>2, Zenon
<1>3. CASE /\ queue' = queue
           /\ rebind_lost' = IF "REBIND" \in p.flags THEN rebind_lost \union {c} ELSE rebind_lost
  BY <1>3, Zenon
<1> QED  BY <1>2, <1>3, Zenon DEF connection_send

(* UdpGwClient_SubmitPacket fails, or sends for a conid that serves the     *)
(* pair from now on: the packet has REBIND unless it did so before, and a   *)
(* conid that served another pair is reused.                                *)
SubmitFails ==
    /\ UNCHANGED <<conaddr, connections_list, reused, queue, rebind_lost>>
    /\ next_conid' \in Conids
SubmitSends(c, flags, a) ==
    /\ connection_send(c, Packet(flags, c, a))
    /\ conaddr' = [conaddr EXCEPT ![c] = a]
    /\ connections_list' \in Seq(Conids) /\ next_conid' \in Conids
    /\ \A d \in Conids : Holds(connections_list', d) <=> Holds(connections_list, d) \/ d = c
    /\ \/ flags = {} /\ conaddr[c] = a /\ reused' = reused
       \/ flags = {"REBIND"} /\ conaddr[c] = NoAddr /\ reused' = reused
       \/ flags = {"REBIND"} /\ reused' = reused \union {c}

LEMMA AddrIsAddr == \A a \in ConAddrs : a # NoAddr
<1> TAKE a \in ConAddrs
<1>1. PICK l, r : a = <<l, r>>
  BY DEF ConAddrs
<1>2. <<l, r>> # <<>>
  OBVIOUS
<1> QED  BY <1>1, <1>2, Zenon DEF NoAddr

LEMMA FoundSends ==
  ASSUME ConaddrInv, NEW a \in ConAddrs, NEW c \in Conids, conaddr[c] = a,
         connections_list' = moveToEnd(connections_list, c),
         connection_send(c, Packet({}, c, a)), UNCHANGED <<conaddr, next_conid, reused>>
  PROVE  SubmitSends(c, {}, a)
<1>1. conaddr[c] # NoAddr
  BY AddrIsAddr, Zenon
<1>2. Holds(connections_list, c) /\ connections_list \in Seq(Conids) /\ next_conid' \in Conids
  BY <1>1, Zenon DEF ConaddrInv
<1>3. /\ connections_list' \in Seq(Conids)
      /\ \A d \in Conids : Holds(connections_list', d) <=> Holds(connections_list, d) \/ d = c
  <2>1. /\ moveToEnd(connections_list, c) \in Seq(Conids)
        /\ \A y : Holds(moveToEnd(connections_list, c), y) <=> Holds(connections_list, y)
    BY <1>2, Moved, Zenon
  <2> QED  BY <1>2, <2>1, Zenon
<1>4. conaddr' = [conaddr EXCEPT ![c] = a]
  BY DEF ConaddrInv
<1> QED  BY <1>2, <1>3, <1>4, Zenon DEF SubmitSends

LEMMA ReuseSends ==
  ASSUME ConaddrInv, NEW a \in ConAddrs, Len(connections_list) = max_connections,
         reuse_connection(a)
  PROVE  \E c \in Conids : SubmitSends(c, {"REBIND"}, a)
<1> DEFINE c == Head(connections_list)
<1>1. connections_list \in Seq(Conids) /\ next_conid \in Conids
  BY Zenon DEF ConaddrInv
<1>2. c \in Conids /\ Holds(connections_list, c)
  BY <1>1, ClientConstants DEF Holds
<1>3. /\ conaddr' = [conaddr EXCEPT ![c] = a]
      /\ connections_list' = moveToEnd(connections_list, c)
      /\ connection_send(c, Packet({"REBIND"}, c, a))
      /\ reused' = reused \union {c} /\ next_conid' = next_conid
  BY Zenon DEF reuse_connection
<1> HIDE DEF c
<1>4. /\ connections_list' \in Seq(Conids)
      /\ \A d \in Conids : Holds(connections_list', d) <=> Holds(connections_list, d) \/ d = c
  <2>1. /\ moveToEnd(connections_list, c) \in Seq(Conids)
        /\ \A y : Holds(moveToEnd(connections_list, c), y) <=> Holds(connections_list, y)
    BY <1>1, <1>2, Moved, Zenon
  <2> QED  BY <1>2, <1>3, <2>1, Zenon
<1> QED  BY <1>1, <1>2, <1>3, <1>4, Zenon DEF SubmitSends

LEMMA InitSends ==
  ASSUME ConaddrInv, NEW a \in ConAddrs, Len(connections_list) < max_connections, ConidIsFree,
         connection_init(a)
  PROVE  SubmitFails \/ \E c \in Conids : SubmitSends(c, {"REBIND"}, a)
<1>1. connections_list \in Seq(Conids) /\ next_conid \in Conids
  BY Zenon DEF ConaddrInv
<1>2. CASE UNCHANGED <<connectionVars, queueVars>>
  BY <1>1, <1>2, Zenon DEF SubmitFails, connectionVars, queueVars
<1> DEFINE c == find_unused_conid
<1>3. c \in Conids /\ conaddr[c] = NoAddr
  BY Zenon DEF ConidIsFree
<1>4. CASE next_conid' = c /\ UNCHANGED <<conaddr, connections_list, reused, queueVars>>
  BY <1>3, <1>4, Zenon DEF SubmitFails, queueVars
<1>5. CASE /\ next_conid' = c
           /\ conaddr' = [conaddr EXCEPT ![c] = a]
           /\ connections_list' = LinkedList1_Append(connections_list, c)
           /\ connection_send(c, Packet({"REBIND"}, c, a))
           /\ UNCHANGED reused
  <2> HIDE DEF c
  <2>1. connections_list' \in Seq(Conids)
    BY <1>1, <1>3, <1>5, AppendHolds
  <2>2. \A d \in Conids : Holds(connections_list', d) <=> Holds(connections_list, d) \/ d = c
    BY <1>1, <1>3, <1>5, AppendHolds, Zenon
  <2>3. SubmitSends(c, {"REBIND"}, a)
    BY <1>3, <1>5, <2>1, <2>2, Zenon DEF SubmitSends
  <2> QED  BY <1>3, <2>3, Zenon
<1> QED  BY <1>2, <1>4, <1>5, Zenon DEF connection_init

LEMMA SubmitDoes ==
  ASSUME ConaddrInv, NEW a \in ConAddrs, ConidIsFree, UdpGwClient_SubmitPacket(a)
  PROVE  SubmitFails \/ \E c \in Conids : \E flags \in {{}, {"REBIND"}} : SubmitSends(c, flags, a)
<1>1. CASE \E c \in Conids :
            /\ conaddr[c] = a
            /\ connections_list' = moveToEnd(connections_list, c)
            /\ connection_send(c, Packet({}, c, a))
            /\ UNCHANGED <<conaddr, next_conid, reused>>
  BY <1>1, FoundSends, Zenon
<1>2. CASE Len(connections_list) = max_connections /\ reuse_connection(a)
  BY <1>2, ReuseSends, Zenon
<1>3. CASE Len(connections_list) < max_connections /\ connection_init(a)
  BY <1>3, InitSends, Zenon
<1> QED  BY <1>1, <1>2, <1>3, Zenon DEF UdpGwClient_SubmitPacket

(* What was asked for stays so when a conid is given to another pair.       *)
LEMMA AskedGrows ==
  ASSUME ConaddrInv, NEW c \in Conids, NEW flags, NEW a \in ConAddrs, SubmitSends(c, flags, a)
  PROVE  /\ \A d \in Conids : \A users : Asked(d, users) => Asked(d, users)'
         /\ Asked(c, {a[1]})'
         /\ ConaddrInv'
<1>0. a # NoAddr
  BY AddrIsAddr, Zenon
<1>1. /\ conaddr \in [Conids -> ConAddrs \union {NoAddr}]
      /\ conaddr' = [conaddr EXCEPT ![c] = a]
  BY Zenon DEF ConaddrInv, SubmitSends
<1>2. /\ conaddr' \in [Conids -> ConAddrs \union {NoAddr}] /\ conaddr'[c] = a
      /\ \A d \in Conids : d # c => conaddr'[d] = conaddr[d]
  BY <1>1
<1>3. \/ conaddr[c] = a /\ reused' = reused
      \/ conaddr[c] = NoAddr /\ reused' = reused
      \/ reused' = reused \union {c}
  BY Zenon DEF SubmitSends
<1>4. ASSUME NEW d \in Conids, NEW users, Asked(d, users)  PROVE Asked(d, users)'
  <2>1. CASE d = c
    BY <1>2, <1>3, <1>4, <2>1, Zenon DEF Asked
  <2>2. CASE d # c
    BY <1>2, <1>3, <1>4, <2>2, Zenon DEF Asked
  <2> QED  BY <2>1, <2>2, Zenon
<1>5. Asked(c, {a[1]})'
  BY <1>0, <1>2, Zenon DEF Asked
<1>6. \A d \in Conids : Holds(connections_list', d) <=> conaddr'[d] # NoAddr
  <2> TAKE d \in Conids
  <2>1. Holds(connections_list', d) <=> Holds(connections_list, d) \/ d = c
    BY Zenon DEF SubmitSends
  <2>2. Holds(connections_list, d) <=> conaddr[d] # NoAddr
    BY Zenon DEF ConaddrInv
  <2> QED  BY <1>0, <1>2, <2>1, <2>2, Zenon
<1>7. connections_list' \in Seq(Conids) /\ next_conid' \in Conids
  BY Zenon DEF SubmitSends
<1>8. ConaddrInv'
  BY <1>2, <1>6, <1>7, Zenon DEF ConaddrInv
<1> QED  BY <1>4, <1>5, <1>8, Zenon

(* So everything that is queued, under way or connected keeps its type.     *)
LEMMA TypesGrow ==
  ASSUME \A d \in Conids : \A users : Asked(d, users) => Asked(d, users)'
  PROVE  /\ \A c \in Conids : AskedPackets(c) \subseteq AskedPackets(c)'
         /\ Packets \subseteq Packets' /\ Answers \subseteq Answers'
         /\ Connections \subseteq Connections'
<1>1. ASSUME NEW c \in Conids, NEW p \in AskedPackets(c)  PROVE p \in AskedPackets(c)'
  BY Zenon DEF AskedPackets, Own, DataPackets
<1>2. ASSUME NEW p \in Packets  PROVE p \in Packets'
  <2>1. CASE p = keepalive_packet
    BY <2>1, Zenon DEF Packets, keepalive_packet
  <2>2. CASE p # keepalive_packet
    <3>1. p \in DataPackets /\ Asked(p.conid, {p.local})
      BY <2>2, Zenon DEF Packets
    <3>2. p.conid \in Conids
      BY <3>1 DEF DataPackets
    <3>3. Asked(p.conid, {p.local})' /\ p \in DataPackets'
      BY <3>1, <3>2, Zenon DEF DataPackets
    <3> QED  BY <3>3, Zenon DEF Packets
  <2> QED  BY <2>1, <2>2, Zenon
<1>3. ASSUME NEW m \in Answers  PROVE m \in Answers'
  <2>1. m \in [conid : Conids, remote : Remotes, users : SUBSET Locals] /\ Asked(m.conid, m.users)
    BY Zenon DEF Answers
  <2>2. m.conid \in Conids
    BY <2>1
  <2>3. Asked(m.conid, m.users)'
    BY <2>1, <2>2, Zenon
  <2> QED  BY <2>1, <2>3, Zenon DEF Answers
<1>4. ASSUME NEW r \in Connections  PROVE r \in Connections'
  <2>1. r \in [state : {"live", "closing"}, conid : Conids, orig_addr : Remotes,
               users : SUBSET Locals, out : Seq(Answers)]
        /\ Asked(r.conid, r.users)
    BY Zenon DEF Connections
  <2>2. r.conid \in Conids /\ r.out \in Seq(Answers)
    BY <2>1
  <2>3. r.out \in Seq(Answers')
    BY <1>3, <2>2
  <2>4. r \in [state : {"live", "closing"}, conid : Conids, orig_addr : Remotes,
               users : SUBSET Locals, out : Seq(Answers')]
    BY <2>1, <2>3
  <2>5. Asked(r.conid, r.users)'
    BY <2>1, <2>2, Zenon
  <2> QED  BY <2>4, <2>5, Zenon DEF Connections
<1> QED  BY <1>1, <1>2, <1>3, <1>4, Zenon
-----------------------------------------------------------------------------
(* A step that gives no conid to another pair changes no type.              *)
LEMMA TypesSame ==
  ASSUME UNCHANGED <<conaddr, reused>>
  PROVE  /\ \A c : AskedPackets(c)' = AskedPackets(c)
         /\ Packets' = Packets /\ Answers' = Answers /\ Connections' = Connections
<1>1. \A c, users : Asked(c, users)' <=> Asked(c, users)
  BY Zenon DEF Asked
<1>2. \A c : AskedPackets(c)' = AskedPackets(c)
  BY <1>1, Zenon DEF AskedPackets, Own, DataPackets
<1>3. Packets' = Packets
  BY <1>1, Zenon DEF Packets, DataPackets, keepalive_packet
<1>4. Answers' = Answers
  BY <1>1, Zenon DEF Answers
<1>5. Connections' = Connections
  BY <1>1, <1>4, Zenon DEF Connections
<1> QED  BY <1>2, <1>3, <1>4, <1>5, Zenon

LEMMA ClientSame ==
  ASSUME ConaddrInv, UNCHANGED <<conaddr, connections_list, next_conid>>
  PROVE  ConaddrInv'
  BY Zenon DEF ConaddrInv
LEMMA QueuesSame ==
  ASSUME QueuesInv, UNCHANGED <<conaddr, reused, queue>>
  PROVE  QueuesInv'
  BY TypesSame, Zenon DEF QueuesInv, keepalive_packet
LEMMA StreamSame ==
  ASSUME UNCHANGED <<conaddr, reused>>, toServer' \in Seq(Packets), toClient' \in Seq(Answers)
  PROVE  StreamInv'
  BY TypesSame, Zenon DEF StreamInv
LEMMA ServerSame ==
  ASSUME UNCHANGED <<conaddr, reused>>,
         ConnectionsOk(con', server_sending'), ListOk(con', server_list')
  PROVE  ConnectionsOk(con, server_sending)' /\ ListOk(con, server_list)'
<1>1. Connections' = Connections
  BY TypesSame, Zenon
<1>2. ConnectionsOk(con, server_sending)'
  BY <1>1, Zenon DEF ConnectionsOk, FreeObject
<1>3. ListOk(con, server_list)'
  BY Zenon DEF ListOk, Distinct, Holds
<1> QED  BY <1>2, <1>3, Zenon

(* A longer type of sequences.                                              *)
LEMMA SeqGrows ==
  ASSUME NEW S, NEW T, S \subseteq T, NEW q \in Seq(S)
  PROVE  q \in Seq(T)
  OBVIOUS
LEMMA SeqAppend ==
  ASSUME NEW S, NEW q \in Seq(S), NEW p \in S
  PROVE  Append(q, p) \in Seq(S)
  OBVIOUS
LEMMA SeqTail ==
  ASSUME NEW S, NEW q \in Seq(S), q # <<>>
  PROVE  Tail(q) \in Seq(S) /\ Head(q) \in S
  OBVIOUS

(* A packet of an application (UdpGwClient_SubmitPacket).                   *)
LEMMA SubmitKeepsAsk ==
  ASSUME AskInv, QueueInv, ConidIsFree, NEW a \in ConAddrs, UdpGwClient_SubmitPacket(a),
         UNCHANGED <<con, server_sending, server_list, toServer, toClient>>
  PROVE  AskInv'
<1>0. /\ ConaddrInv /\ QueuesInv /\ StreamInv
      /\ ConnectionsOk(con, server_sending) /\ ListOk(con, server_list)
  BY Zenon DEF AskInv
<1>1. CASE SubmitFails
  <2>1. UNCHANGED <<conaddr, connections_list, reused, queue>> /\ next_conid' \in Conids
    BY <1>1, Zenon DEF SubmitFails
  <2>2. ConaddrInv'
    BY <1>0, <2>1, Zenon DEF ConaddrInv
  <2>3. QueuesInv'
    BY <1>0, <2>1, QueuesSame, Zenon
  <2>4. StreamInv'
    BY <1>0, <2>1, StreamSame, Zenon DEF StreamInv
  <2>5. ConnectionsOk(con', server_sending') /\ ListOk(con', server_list')
    BY <1>0, Zenon
  <2>6. ConnectionsOk(con, server_sending)' /\ ListOk(con, server_list)'
    BY <2>1, <2>5, ServerSame, Zenon
  <2> QED  BY <2>2, <2>3, <2>4, <2>6, Zenon DEF AskInv
<1>2. ASSUME NEW c \in Conids, NEW flags \in {{}, {"REBIND"}}, SubmitSends(c, flags, a)
      PROVE  AskInv'
  <2>1. /\ \A d \in Conids : \A users : Asked(d, users) => Asked(d, users)'
        /\ Asked(c, {a[1]})' /\ ConaddrInv'
    BY <1>0, <1>2, AskedGrows, Zenon
  <2>2. /\ \A d \in Conids : AskedPackets(d) \subseteq AskedPackets(d)'
        /\ Packets \subseteq Packets' /\ Answers \subseteq Answers'
        /\ Connections \subseteq Connections'
    BY <2>1, TypesGrow, Zenon
  <2> DEFINE p == Packet(flags, c, a)
  <2>3. p \in Own(c) /\ p.local = a[1]
    BY NewPacket
  <2> HIDE DEF p
  <2>4. p \in AskedPackets(c)'
    BY <2>1, <2>3, Zenon DEF AskedPackets, Own, DataPackets
  <2>5. /\ \A f \in AllFlows : f # c => queue'[f] = queue[f]
        /\ queue'[c] = Append(queue[c], p) \/ queue'[c] = queue[c]
    BY <1>2, SendDoes, Zenon DEF SubmitSends, p
  <2>6. QueuesInv'
    <3>1. ASSUME NEW d \in Conids  PROVE queue'[d] \in Seq(AskedPackets(d)')
      <4>1. queue[d] \in Seq(AskedPackets(d)')
        BY <1>0, <2>2, SeqGrows, Zenon DEF QueuesInv
      <4>2. CASE d = c
        <5>1. p \in AskedPackets(d)'
          BY <2>4, <4>2, Zenon
        <5>2. Append(queue[d], p) \in Seq(AskedPackets(d)')
          BY <4>1, <5>1, SeqAppend, Zenon
        <5>3. queue'[d] = Append(queue[d], p) \/ queue'[d] = queue[d]
          BY <2>5, <4>2, Zenon
        <5> QED  BY <4>1, <5>2, <5>3, Zenon
      <4>3. CASE d # c
        BY <2>5, <4>1, <4>3, Zenon DEF AllFlows
      <4> QED  BY <4>2, <4>3, Zenon
    <3>2. KeepaliveFlow # c
      BY ClientConstants DEF KeepaliveFlow, Conids
    <3>3. queue'[KeepaliveFlow] \in Seq({keepalive_packet})
      BY <1>0, <2>5, <3>2, FlowsAreFlows, Zenon DEF QueuesInv
    <3> QED  BY <3>1, <3>3, Zenon DEF QueuesInv, keepalive_packet
  <2>7. StreamInv'
    BY <1>0, <2>2, SeqGrows, Zenon DEF StreamInv
  <2>8. ConnectionsOk(con, server_sending)'
    <3>1. con' \in [Objects -> Connections' \union {FreeObject}]
      BY <1>0, <2>2 DEF ConnectionsOk
    <3> QED  BY <1>0, <2>2, <3>1, Zenon DEF ConnectionsOk, FreeObject
  <2>9. ListOk(con, server_list)'
    <3>1. ListOk(con', server_list')
      BY <1>0, Zenon
    <3> QED  BY <3>1, Zenon DEF ListOk, Distinct, Holds
  <2> QED  BY <2>1, <2>6, <2>7, <2>8, <2>9, Zenon DEF AskInv
<1> QED  BY <1>0, <1>1, <1>2, SubmitDoes, Zenon

(* A packet leaves a flow for the stream (output_handler_done).             *)
LEMMA DoneKeepsAsk ==
  ASSUME AskInv, QueueInv, clientSends
  PROVE  /\ AskInv'
         /\ sending \in AllFlows /\ queue[sending] # <<>>
         /\ queue' = [queue EXCEPT ![sending] = Tail(queue[sending])]
         /\ Head(queue[sending]) \in Packets
         /\ \A c \in Conids : c # sending => Head(queue[sending]) \notin Own(c)
<1>0. /\ ConaddrInv /\ QueuesInv /\ StreamInv
      /\ ConnectionsOk(con, server_sending) /\ ListOk(con, server_list)
  BY Zenon DEF AskInv
<1>1. /\ sending # NoFlow /\ toServer' = Append(toServer, Head(queue[sending]))
      /\ queue' = [queue EXCEPT ![sending] = Tail(queue[sending])]
      /\ UNCHANGED <<conaddr, connections_list, next_conid, reused>>
      /\ UNCHANGED <<con, server_sending, server_list, toClient>>
  BY Zenon DEF clientSends, output_handler_done, connectionVars, serverVars
<1>2. sending \in AllFlows /\ queue[sending] # <<>> /\ queue = [f \in AllFlows |-> queue[f]]
  BY <1>1, Zenon DEF QueueInv
<1> DEFINE p == Head(queue[sending])
<1>3. /\ p \in Packets /\ \A c \in Conids : c # sending => p \notin Own(c)
      /\ \A c \in Conids : queue'[c] \in Seq(AskedPackets(c))
      /\ queue'[KeepaliveFlow] \in Seq({keepalive_packet})
  <2>1. CASE sending \in Conids
    <3>1. queue[sending] \in Seq(AskedPackets(sending))
      BY <1>0, <2>1, Zenon DEF QueuesInv
    <3>2. p \in AskedPackets(sending) /\ Tail(queue[sending]) \in Seq(AskedPackets(sending))
      BY <1>2, <3>1
    <3> HIDE DEF p
    <3>3. p \in DataPackets /\ p.conid = sending /\ Asked(sending, {p.local})
      BY <3>2, Zenon DEF AskedPackets, Own
    <3>4. p \in Packets
      BY <3>3, Zenon DEF Packets
    <3>5. \A c \in Conids : c # sending => p \notin Own(c)
      BY <3>3, Zenon DEF Own
    <3>6. \A c \in Conids : queue'[c] \in Seq(AskedPackets(c))
      BY <1>0, <1>1, <1>2, <2>1, <3>2, Zenon DEF QueuesInv, AllFlows
    <3>7. KeepaliveFlow # sending
      BY <2>1, ClientConstants DEF KeepaliveFlow, Conids
    <3>8. queue'[KeepaliveFlow] \in Seq({keepalive_packet})
      BY <1>0, <1>1, <1>2, <3>7, FlowsAreFlows, Zenon DEF QueuesInv
    <3> QED  BY <3>4, <3>5, <3>6, <3>8, Zenon
  <2>2. CASE sending = KeepaliveFlow
    <3>1. queue[sending] \in Seq({keepalive_packet})
      BY <1>0, <2>2, Zenon DEF QueuesInv
    <3>2. p = keepalive_packet /\ Tail(queue[sending]) \in Seq({keepalive_packet})
      BY <1>2, <3>1
    <3> HIDE DEF p
    <3>3. p \in Packets
      BY <3>2, Zenon DEF Packets
    <3>4. keepalive_packet \notin DataPackets
      BY DEF keepalive_packet, DataPackets
    <3>5. \A c \in Conids : p \notin Own(c)
      BY <3>2, <3>4, Zenon DEF Own
    <3>6. KeepaliveFlow \notin Conids
      BY ClientConstants DEF KeepaliveFlow, Conids
    <3>7. \A c \in Conids : queue'[c] \in Seq(AskedPackets(c))
      BY <1>0, <1>1, <1>2, <2>2, <3>6, Zenon DEF QueuesInv, AllFlows
    <3>8. queue'[KeepaliveFlow] \in Seq({keepalive_packet})
      BY <1>1, <1>2, <2>2, <3>2, Zenon
    <3> QED  BY <3>3, <3>5, <3>7, <3>8, Zenon
  <2> QED  BY <1>2, <2>1, <2>2, Zenon DEF AllFlows
<1> HIDE DEF p
<1>6. QueuesInv'
  BY <1>1, <1>3, TypesSame, Zenon DEF QueuesInv, keepalive_packet
<1>7. toServer' \in Seq(Packets) /\ toClient' \in Seq(Answers)
  BY <1>0, <1>1, <1>3, SeqAppend, Zenon DEF StreamInv, p
<1>8. StreamInv' /\ ConaddrInv'
  BY <1>0, <1>1, <1>7, StreamSame, ClientSame, Zenon
<1>9. ConnectionsOk(con', server_sending') /\ ListOk(con', server_list')
  BY <1>0, <1>1, Zenon
<1>10. ConnectionsOk(con, server_sending)' /\ ListOk(con, server_list)'
  BY <1>1, <1>9, ServerSame, Zenon
<1> QED  BY <1>1, <1>2, <1>3, <1>6, <1>8, <1>10, Zenon DEF AskInv, p
-----------------------------------------------------------------------------
(* Nothing is closing but what is being sent.                               *)
AreSending(cons) == \A o \in Objects : cons[o].state = "closing" => o = server_sending

(* connection_init finds memory: one of Objects is free when at most one    *)
(* connection is closing.                                                   *)
ObjectIsFree ==
    \A cons, list :
        /\ ListOk(cons, list) /\ cons \in [Objects -> Connections \union {FreeObject}]
        /\ AreSending(cons)
        => Min({o \in Objects : cons[o].state = "free"}) \in {o \in Objects : cons[o].state = "free"}

(* What a packet that opens a connection leaves: the live connections of    *)
(* other conids, and the new one.                                           *)
Opened(p, cons) ==
    \A o \in Objects : con'[o].state = "live" =>
        \/ cons[o].state = "live" /\ con'[o] = cons[o] /\ cons[o].conid # p.conid
        \/ con'[o] = connection(p)

(* connection_close leaves nothing closing but what is being sent.          *)
LEMMA ClosedAreSending ==
  ASSUME ServerInv, NEW d
  PROVE  AreSending(con) /\ AreSending(connection_close(con, d))
<1> DEFINE cons == connection_close(con, d)
<1>1. /\ cons = [o \in Objects |-> cons[o]]
      /\ \A o \in Objects : /\ cons[o] = [x \in DOMAIN cons[o] |-> cons[o][x]]
                            /\ "state" \in DOMAIN cons[o]
                            /\ cons[o].state = "closing" => o = server_sending
  BY CloseKeepsServerInv
<1> HIDE DEF cons
<1>2. AreSending(cons)
  BY <1>1 DEF AreSending
<1>3. AreSending(con)
  BY Zenon DEF ServerInv, Closing, AreSending
<1> QED  BY <1>2, <1>3 DEF cons

LEMMA InitForDoes ==
  ASSUME NEW cons, NEW list, ConnectionsOk(cons, server_sending), ListOk(cons, list),
         Len(list) < max_connections_for_client, ObjectIsFree,
         AreSending(cons),
         NEW p \in Packets, p # keepalive_packet,
         NoneLive(cons, p.conid),
         connection_init_for(p, cons, list)
  PROVE  ConnectionsOk(con', server_sending) /\ ListOk(con', server_list') /\ Opened(p, cons)
<1>1. CASE con' = cons /\ server_list' = list
  <2>1. PICK c2, l2 : c2 = con' /\ l2 = server_list'
    OBVIOUS
  <2>2. ConnectionsOk(c2, server_sending) /\ ListOk(c2, l2)
    BY <1>1, <2>1, Zenon
  <2> QED  BY <1>1, <2>1, <2>2, Zenon DEF Opened, NoneLive
<1> DEFINE new == Min({o \in Objects : cons[o].state = "free"})
<1>2. CASE con' = [cons EXCEPT ![new] = connection(p)] /\ server_list' = LinkedList1_Append(list, new)
  <2>1. new \in Objects /\ cons[new].state = "free"
    <3>1. cons \in [Objects -> Connections \union {FreeObject}]
      BY Zenon DEF ConnectionsOk
    <3> QED  BY <3>1, Zenon DEF ObjectIsFree
  <2> HIDE DEF new
  <2>2. /\ ConnectionsOk(con', server_sending) /\ ListOk(con', LinkedList1_Append(list, new))
        /\ con'[new] = connection(p) /\ \A o \in Objects : o # new => con'[o] = cons[o]
    <3>1. /\ ConnectionsOk(Put(cons, new, connection(p)), server_sending)
          /\ ListOk(Put(cons, new, connection(p)), LinkedList1_Append(list, new))
          /\ Differ(cons, Put(cons, new, connection(p)), new, connection(p))
      BY <2>1, MakeIsOk, Zenon
    <3>2. con' = Put(cons, new, connection(p))
      BY <1>2, Zenon DEF Put
    <3> QED  BY <3>1, <3>2, Zenon DEF Differ
  <2>3. Opened(p, cons)
    BY <2>2, Zenon DEF Opened, NoneLive
  <2> QED  BY <1>2, <2>2, <2>3, Zenon
<1> QED  BY <1>1, <1>2, Zenon DEF connection_init_for

LEMMA OpenDoes ==
  ASSUME ConnectionsOk(con, server_sending), ListOk(con, server_list), ServerInv, ObjectIsFree,
         NEW p \in Packets, p # keepalive_packet, openConnection(p)
  PROVE  ConnectionsOk(con', server_sending) /\ ListOk(con', server_list') /\ Opened(p, con)
<1>0. AreSending(con)
  BY ClosedAreSending, Zenon
<1> DEFINE old == find_connection(p.conid)
<1>1. old = {o \in Objects : con[o].state = "live" /\ con[o].conid = p.conid}
  BY Zenon DEF find_connection, Live
<1>2. toClose(p) = IF old = {} /\ Len(server_list) = max_connections_for_client
                   THEN {Head(server_list)} ELSE old
  BY Zenon DEF toClose
<1> HIDE DEF old
<1>3. Len(server_list) \in Nat /\ Len(server_list) <= max_connections_for_client
      /\ server_list \in Seq(Objects)
  BY DEF ListOk
<1>4. CASE toClose(p) = {} /\ connection_init_for(p, con, server_list)
  <2>1. old = {} /\ Len(server_list) # max_connections_for_client
    BY <1>2, <1>4, Zenon
  <2>2. Len(server_list) < max_connections_for_client
    BY <1>3, <2>1, ServerConstants
  <2>3. NoneLive(con, p.conid)
    BY <1>1, <2>1, Zenon DEF NoneLive
  <2>4. PICK cons, list : cons = con /\ list = server_list
    OBVIOUS
  <2>5. /\ ConnectionsOk(cons, server_sending) /\ ListOk(cons, list)
        /\ Len(list) < max_connections_for_client
        /\ AreSending(cons) /\ NoneLive(cons, p.conid)
        /\ connection_init_for(p, cons, list)
    BY <1>0, <1>4, <2>2, <2>3, <2>4, Zenon
  <2>6. ConnectionsOk(con', server_sending) /\ ListOk(con', server_list') /\ Opened(p, cons)
    BY <2>5, InitForDoes, Zenon
  <2> QED  BY <2>4, <2>6, Zenon
<1>5. ASSUME NEW d \in toClose(p),
             connection_init_for(p, connection_close(con, d), LinkedList1_Remove(server_list, d))
      PROVE  ConnectionsOk(con', server_sending) /\ ListOk(con', server_list') /\ Opened(p, con)
  <2>1. d \in Objects /\ con[d].state = "live"
        /\ \A o \in Objects : o # d /\ con[o].state = "live" => con[o].conid # p.conid
    <3>1. CASE d \in old
      <4>1. d \in Objects /\ con[d].state = "live" /\ con[d].conid = p.conid
        BY <1>1, <3>1, Zenon
      <4> QED  BY <4>1, Zenon DEF ListOk
    <3>2. CASE old = {} /\ Len(server_list) = max_connections_for_client /\ d = Head(server_list)
      <4>1. d \in Objects /\ Holds(server_list, d)
        BY <1>3, <3>2, ServerConstants DEF Holds
      <4>2. con[d].state = "live"
        BY <4>1, Zenon DEF ListOk
      <4> QED  BY <1>1, <3>2, <4>1, <4>2, Zenon
    <3> QED  BY <1>2, <1>5, <3>1, <3>2, Zenon
  <2>2. PICK cons, list : cons = connection_close(con, d) /\ list = LinkedList1_Remove(server_list, d)
    OBVIOUS
  <2>3. /\ ConnectionsOk(cons, server_sending) /\ ListOk(cons, list)
        /\ Len(list) < max_connections_for_client
        /\ \A o \in Objects : cons[o].state = "live" => o # d /\ cons[o] = con[o]
    <3>1. d \in Objects /\ con[d].state = "live"
      BY <2>1, Zenon
    <3> QED  BY <2>2, <3>1, CloseIsOk, Zenon
  <2>4. AreSending(cons)
    BY <2>2, ClosedAreSending, Zenon
  <2>5. NoneLive(cons, p.conid)
    BY <2>1, <2>3, Zenon DEF NoneLive
  <2>6. connection_init_for(p, cons, list)
    BY <1>5, <2>2, Zenon
  <2>7. ConnectionsOk(con', server_sending) /\ ListOk(con', server_list') /\ Opened(p, cons)
    BY <2>3, <2>4, <2>5, <2>6, InitForDoes, Zenon
  <2>8. Opened(p, con)
    BY <2>3, <2>7, Zenon DEF Opened
  <2> QED  BY <2>7, <2>8, Zenon
<1> QED  BY <1>4, <1>5, Zenon DEF openConnection

(* A packet for a connection that stays open.                               *)
LEMMA UdpSendDoes ==
  ASSUME ConnectionsOk(con, server_sending), ListOk(con, server_list),
         NEW p \in Packets, p # keepalive_packet, NEW o \in Objects, con[o].state = "live",
         con[o].conid = p.conid, connection_send_to_udp(p, o)
  PROVE  /\ ConnectionsOk(con', server_sending) /\ ListOk(con', server_list')
         /\ \A q \in Objects : q # o => con'[q] = con[q]
         /\ con'[o].state = "live" /\ con'[o].conid = con[o].conid
         /\ con'[o].users = con[o].users \/ con'[o].users = con[o].users \union {p.local}
<1>1. server_list' = moveToEnd(server_list, o)
  BY Zenon DEF connection_send_to_udp
<1>2. CASE con' = con
  <2>1. ListOk(con, moveToEnd(server_list, o))
    BY MoveIsOk, Zenon
  <2> QED  BY <1>1, <1>2, <2>1, Zenon
<1>3. CASE con' = [con EXCEPT ![o].users = @ \union {p.local}]
  <2>1. con[o] \in Connections
    BY NotFree DEF ConnectionsOk
  <2>2. p.local \in Locals /\ Asked(con[o].conid, {p.local})
    BY DEF Packets, DataPackets
  <2>3. PICK r : r = [con[o] EXCEPT !.users = con[o].users \union {p.local}]
    OBVIOUS
  <2>4. /\ r \in Connections /\ r.state = "live" /\ r.conid = con[o].conid
        /\ r.users = con[o].users \union {p.local} /\ (con[o].out # <<>> => r.out # <<>>)
    BY <2>1, <2>2, <2>3, UsedConnection
  <2>5. con' = Put(con, o, r)
    BY <1>3, <2>3, Zenon DEF Put
  <2>6. /\ ConnectionsOk(Put(con, o, r), server_sending)
        /\ ListOk(Put(con, o, r), moveToEnd(server_list, o))
        /\ Differ(con, Put(con, o, r), o, r)
    BY <2>4, UseIsOk, Zenon
  <2>7. /\ ConnectionsOk(con', server_sending) /\ ListOk(con', server_list')
        /\ con'[o] = r /\ \A q \in Objects : q # o => con'[q] = con[q]
    BY <1>1, <2>5, <2>6, Zenon DEF Differ
  <2> QED  BY <2>4, <2>7, Zenon
<1> QED  BY <1>2, <1>3, Zenon DEF connection_send_to_udp
-----------------------------------------------------------------------------
(* No connection gets another user or another conid.                        *)
SameUsers ==
    \A q \in Objects : con'[q].state = "live" =>
        con[q].state = "live" /\ con'[q].conid = con[q].conid /\ con'[q].users = con[q].users

(* connection_udp_recv_if_handler_send: a packet came in on a socket.       *)
LEMMA ReceiveDoes ==
  ASSUME ConnectionsOk(con, server_sending), ListOk(con, server_list),
         NEW o, connection_udp_recv_if_handler_send(o)
  PROVE  ConnectionsOk(con', server_sending') /\ ListOk(con', server_list') /\ SameUsers
<1>0. o \in Objects /\ con[o].state = "live"
  BY Zenon DEF connection_udp_recv_if_handler_send, Live
<1>1. con[o] \in Connections
  BY <1>0, NotFree DEF ConnectionsOk
<1> DEFINE m == [conid |-> con[o].conid, remote |-> con[o].orig_addr, users |-> con[o].users]
<1>2. /\ server_list' = moveToEnd(server_list, o)
      /\ con' = [con EXCEPT ![o].out = Append(con[o].out, m)] \/ con' = con
      /\ server_sending' \in server_schedule(server_sending, con')
  BY Zenon DEF connection_udp_recv_if_handler_send
<1>3. m \in Answers
  BY <1>1, NewAnswer, Zenon
<1> HIDE DEF m
<1>4. ConnectionsOk(con', server_sending) /\ ListOk(con', server_list') /\ SameUsers
  <2>1. CASE con' = con
    <3>1. ListOk(con, moveToEnd(server_list, o))
      BY <1>0, MoveIsOk, Zenon
    <3> QED  BY <1>2, <2>1, <3>1, Zenon DEF SameUsers
  <2>2. CASE con' = [con EXCEPT ![o].out = Append(con[o].out, m)]
    <3>1. con[o].out \in Seq(Answers)
      BY <1>1 DEF Connections
    <3>2. Append(con[o].out, m) \in Seq(Answers) /\ Append(con[o].out, m) # <<>>
      BY <1>3, <3>1
    <3>3. PICK q : q = Append(con[o].out, m)
      BY Zenon
    <3>4. PICK r : r = [con[o] EXCEPT !.out = q]
      BY Zenon
    <3>5. /\ r \in Connections /\ r.state = "live" /\ r.conid = con[o].conid
          /\ r.users = con[o].users /\ r.out # <<>>
      <4>1. q \in Seq(Answers) /\ q # <<>>
        BY <3>2, <3>3, Zenon
      <4>2. /\ [con[o] EXCEPT !.out = q] \in Connections
            /\ [con[o] EXCEPT !.out = q].state = con[o].state
            /\ [con[o] EXCEPT !.out = q].conid = con[o].conid
            /\ [con[o] EXCEPT !.out = q].users = con[o].users
            /\ [con[o] EXCEPT !.out = q].out = q
        BY <1>1, <4>1, OutConnection, Zenon
      <4> QED  BY <1>0, <3>4, <4>1, <4>2, Zenon
    <3>6. con' = Put(con, o, r)
      BY <2>2, <3>3, <3>4, Zenon DEF Put
    <3>7. /\ ConnectionsOk(Put(con, o, r), server_sending)
          /\ ListOk(Put(con, o, r), moveToEnd(server_list, o))
          /\ Differ(con, Put(con, o, r), o, r)
      BY <1>0, <3>5, UseIsOk, Zenon
    <3>8. SameUsers
      <4>1. con'[o] = r /\ \A x \in Objects : x # o => con'[x] = con[x]
        BY <3>6, <3>7, Zenon DEF Differ
      <4> QED  BY <1>0, <3>5, <4>1, Zenon DEF SameUsers
    <3> QED  BY <1>2, <3>6, <3>7, <3>8, Zenon
  <2> QED  BY <1>2, <2>1, <2>2, Zenon
<1>5. ConnectionsOk(con', server_sending')
  <2>1. CASE server_sending # NoCon
    <3>1. server_sending' = server_sending
      BY <1>2, <2>1, Zenon DEF server_schedule
    <3> QED  BY <1>4, <3>1, Zenon
  <2>2. CASE server_sending = NoCon
    <3>1. ConnectionsOk(con', NoCon) /\ server_sending' \in server_schedule(NoCon, con')
      BY <1>2, <1>4, <2>2, Zenon
    <3> QED  BY <3>1, NextSending, Zenon
  <2> QED  BY <2>1, <2>2, Zenon
<1> QED  BY <1>4, <1>5, Zenon

(* connection_dgram_handler_event: the socket failed.                       *)
LEMMA ErrorDoes ==
  ASSUME ConnectionsOk(con, server_sending), ListOk(con, server_list),
         NEW o, connection_dgram_handler_event(o)
  PROVE  ConnectionsOk(con', server_sending') /\ ListOk(con', server_list') /\ SameUsers
<1>0. o \in Objects /\ con[o].state = "live"
  BY Zenon DEF connection_dgram_handler_event, Live
<1>1. /\ con' = connection_close(con, o) /\ server_list' = LinkedList1_Remove(server_list, o)
      /\ server_sending' = server_sending
  BY Zenon DEF connection_dgram_handler_event
<1>2. PICK cons, list : cons = connection_close(con, o) /\ list = LinkedList1_Remove(server_list, o)
  BY Zenon
<1>3. /\ ConnectionsOk(cons, server_sending) /\ ListOk(cons, list)
      /\ \A q \in Objects : cons[q].state = "live" => q # o /\ cons[q] = con[q]
  BY <1>0, <1>2, CloseIsOk
<1>4. con' = cons /\ server_list' = list
  BY <1>1, <1>2, Zenon
<1>5. SameUsers
  BY <1>3, <1>4, Zenon DEF SameUsers
<1> QED  BY <1>1, <1>3, <1>4, <1>5, Zenon

(* send_done: what is sent is an answer, and a closing connection is freed. *)
LEMMA SendDoneDoes ==
  ASSUME ConnectionsOk(con, server_sending), ListOk(con, server_list), send_done
  PROVE  /\ ConnectionsOk(con', server_sending') /\ ListOk(con', server_list') /\ SameUsers
         /\ Head(con[server_sending].out) \in Answers
<1> DEFINE d == server_sending
<1>0. d \in Objects /\ con[d] \in Connections /\ con[d].out # <<>>
  BY Zenon DEF send_done, ConnectionsOk
<1>1. con[d].out \in Seq(Answers) /\ con[d].state \in {"live", "closing"}
  BY <1>0 DEF Connections
<1>2. Head(con[d].out) \in Answers /\ Tail(con[d].out) \in Seq(Answers)
  BY <1>0, <1>1, SeqTail, Zenon
<1>3. /\ con' = [con EXCEPT ![d] = IF con[d].state = "closing" THEN FreeObject
                                   ELSE [con[d] EXCEPT !.out = Tail(con[d].out)]]
      /\ server_sending' \in server_schedule(NoCon, con') /\ server_list' = server_list
  BY Zenon DEF send_done
<1>4. con \in [Objects -> Connections \union {FreeObject}]
  BY Zenon DEF ConnectionsOk
<1>5. PICK r : r = IF con[d].state = "closing" THEN FreeObject
                   ELSE [con[d] EXCEPT !.out = Tail(con[d].out)]
  BY Zenon
<1>6. r \in Connections \union {FreeObject} /\ (r.state = "live" <=> con[d].state = "live")
      /\ (r.state = "live" => r.conid = con[d].conid /\ r.users = con[d].users)
  <2>1. CASE con[d].state = "closing"
    BY <1>5, <2>1, NotFree
  <2>2. CASE con[d].state = "live"
    <3>1. r = [con[d] EXCEPT !.out = Tail(con[d].out)]
      BY <1>5, <2>2
    <3> QED  BY <1>0, <1>2, <2>2, <3>1, OutConnection
  <2> QED  BY <1>1, <2>1, <2>2
<1>7. con'[d] = r /\ \A q \in Objects : q # d => con'[q] = con[q]
  BY <1>0, <1>3, <1>4, <1>5, Zenon
<1>8. con' \in [Objects -> Connections \union {FreeObject}]
  BY <1>0, <1>3, <1>4, <1>5, <1>6
<1> HIDE DEF d
<1>9. \A q \in Objects : con'[q].state = "live" <=> con[q].state = "live"
  BY <1>6, <1>7, Zenon
<1>10. SameUsers
  BY <1>6, <1>7, Zenon DEF SameUsers
<1>11. ListOk(con', server_list')
  <2>1. \A p, q \in Objects :
          con'[p].state = "live" /\ con'[q].state = "live" /\ con'[p].conid = con'[q].conid => p = q
    <3> SUFFICES ASSUME NEW p \in Objects, NEW q \in Objects, con'[p].state = "live",
                        con'[q].state = "live", con'[p].conid = con'[q].conid
                 PROVE  p = q
      BY Zenon
    <3>1. con[p].state = "live" /\ con[q].state = "live" /\ con[p].conid = con[q].conid
      BY <1>10 DEF SameUsers
    <3> QED  BY <3>1, Zenon DEF ListOk
  <2>2. \A q \in Objects : Holds(server_list', q) <=> con'[q].state = "live"
    BY <1>3, <1>9, Zenon DEF ListOk
  <2> QED  BY <1>3, <2>1, <2>2, Zenon DEF ListOk
<1>12. ConnectionsOk(con', NoCon)
  BY <1>8, Zenon DEF ConnectionsOk
<1>13. ConnectionsOk(con', server_sending')
  BY <1>3, <1>12, NextSending, Zenon
<1> QED  BY <1>2, <1>10, <1>11, <1>13, Zenon DEF d
-----------------------------------------------------------------------------
(* The packets of a conid on their way change hands at a REBIND only, and   *)
(* those that no REBIND follows are l's.                                    *)
WayOk(w, c, l) == Chain(w, Own(c), Reb(c)) /\ Ends(w, Own(c), Reb(c), l)
(* A socket of the conid has one user, whose packets begin the way; if no   *)
(* REBIND is under way that is l.                                           *)
SocketOk(w, c, l, users) ==
    \E u : /\ users = {u} /\ Begins(w, Own(c), Reb(c), u)
           /\ NoRebind(w, Reb(c)) => u = l

(* This holds of every conid whose packet with REBIND found room.           *)
WayInv ==
    \A c \in Conids : c \notin rebind_lost =>
        /\ WayOk(toServer \o queue[c], c, conaddr[c][1])
        /\ \A o \in Objects : con[o].state = "live" /\ con[o].conid = c =>
             SocketOk(toServer \o queue[c], c, conaddr[c][1], con[o].users)

AnyPackets == DataPackets \union {keepalive_packet}

LEMMA WaySeqs ==
  ASSUME AskInv
  PROVE  /\ toServer \in Seq(AnyPackets) /\ \A c \in Conids : queue[c] \in Seq(AnyPackets)
         /\ \A c \in Conids : Own(c) \subseteq AnyPackets /\ Reb(c) \subseteq Own(c)
<1>1. Packets \subseteq AnyPackets
  BY Zenon DEF Packets, AnyPackets
<1>2. \A c \in Conids : AskedPackets(c) \subseteq AnyPackets
  BY Zenon DEF AskedPackets, Own, AnyPackets
<1>3. toServer \in Seq(Packets) /\ \A c \in Conids : queue[c] \in Seq(AskedPackets(c))
  BY Zenon DEF AskInv, StreamInv, QueuesInv
<1>4. toServer \in Seq(AnyPackets)
  BY <1>1, <1>3, SeqGrows, Zenon
<1>5. \A c \in Conids : queue[c] \in Seq(AnyPackets)
  BY <1>2, <1>3, SeqGrows, Zenon
<1>6. \A c \in Conids : Own(c) \subseteq AnyPackets /\ Reb(c) \subseteq Own(c)
  BY Zenon DEF Own, Reb, AnyPackets
<1> QED  BY <1>4, <1>5, <1>6, Zenon

(* Nothing is under way and no socket is open.                              *)
LEMMA WayFreed ==
  ASSUME NEW c, NEW l
  PROVE  WayOk(<<>> \o <<>>, c, l)
<1>1. <<>> \o <<>> = <<>> /\ Len(<<>>) = 0 /\ 1 .. 0 = {}
  OBVIOUS
<1>2. Chain(<<>>, Own(c), Reb(c)) /\ Ends(<<>>, Own(c), Reb(c), l)
  BY <1>1 DEF Chain, Ends
<1> QED  BY <1>1, <1>2, Zenon DEF WayOk

(* What WayInv says of the next state.                                      *)
LEMMA WayPrimed ==
  ASSUME \A c \in Conids : c \notin rebind_lost' =>
           /\ WayOk(toServer' \o queue'[c], c, conaddr'[c][1])
           /\ \A o \in Objects : con'[o].state = "live" /\ con'[o].conid = c =>
                SocketOk(toServer' \o queue'[c], c, conaddr'[c][1], con'[o].users)
  PROVE  WayInv'
<1> SUFFICES ASSUME NEW c \in Conids, c \notin rebind_lost'
             PROVE  /\ WayOk(toServer \o queue[c], c, conaddr[c][1])'
                    /\ \A o \in Objects : con'[o].state = "live" /\ con'[o].conid = c =>
                         SocketOk(toServer \o queue[c], c, conaddr[c][1], con[o].users)'
  BY Zenon DEF WayInv
<1>1. WayOk(toServer \o queue[c], c, conaddr[c][1])'
  BY Zenon DEF WayOk, Chain, Ends, Own, Reb, DataPackets
<1>2. ASSUME NEW o \in Objects, con'[o].state = "live" /\ con'[o].conid = c
      PROVE  SocketOk(toServer \o queue[c], c, conaddr[c][1], con[o].users)'
  <2>1. SocketOk(toServer' \o queue'[c], c, conaddr'[c][1], con'[o].users)
    BY <1>2, Zenon
  <2> QED  BY <2>1, Zenon DEF SocketOk, Begins, NoRebind, Own, Reb, DataPackets
<1> QED  BY <1>1, <1>2, Zenon

(* A step that leaves the way alone.                                        *)
LEMMA WaySame ==
  ASSUME WayInv, SameUsers, UNCHANGED <<toServer, conaddr, rebind_lost>>,
         \A c \in Conids : queue'[c] = queue[c]
  PROVE  WayInv'
<1> SUFFICES ASSUME NEW c \in Conids, c \notin rebind_lost
             PROVE  /\ WayOk(toServer \o queue[c], c, conaddr[c][1])
                    /\ \A o \in Objects : con'[o].state = "live" /\ con'[o].conid = c =>
                         SocketOk(toServer \o queue[c], c, conaddr[c][1], con'[o].users)
  BY WayPrimed, Zenon
<1>1. /\ WayOk(toServer \o queue[c], c, conaddr[c][1])
      /\ \A o \in Objects : con[o].state = "live" /\ con[o].conid = c =>
           SocketOk(toServer \o queue[c], c, conaddr[c][1], con[o].users)
  BY Zenon DEF WayInv
<1> QED  BY <1>1, Zenon DEF SameUsers

(* The stream is gone, and the gateway has freed the client.                *)
LEMMA WayLost ==
  ASSUME AskInv, WayInv, toServer' = <<>>, \A o \in Objects : con'[o].state # "live",
         UNCHANGED <<queue, conaddr, rebind_lost>>
  PROVE  WayInv'
<1> SUFFICES ASSUME NEW c \in Conids, c \notin rebind_lost
             PROVE  WayOk(<<>> \o queue[c], c, conaddr[c][1])
  BY WayPrimed, Zenon
<1>1. Chain(toServer \o queue[c], Own(c), Reb(c)) /\ Ends(toServer \o queue[c], Own(c), Reb(c), conaddr[c][1])
  BY Zenon DEF WayInv, WayOk
<1>2. toServer \in Seq(AnyPackets) /\ queue[c] \in Seq(AnyPackets)
  BY WaySeqs, Zenon
<1>3. Chain(queue[c], Own(c), Reb(c)) /\ Ends(queue[c], Own(c), Reb(c), conaddr[c][1])
  BY <1>1, <1>2, StreamLost, Zenon
<1>4. <<>> \o queue[c] = queue[c]
  BY <1>2
<1> QED  BY <1>3, <1>4, Zenon DEF WayOk

(* A packet leaves a flow's buffer for the stream.                          *)
LEMMA WayDone ==
  ASSUME AskInv, QueueInv, WayInv, clientSends
  PROVE  WayInv'
<1> DEFINE p == Head(queue[sending])
<1>1. /\ sending \in AllFlows /\ queue[sending] # <<>>
      /\ queue' = [queue EXCEPT ![sending] = Tail(queue[sending])]
      /\ p \in Packets /\ \A c \in Conids : c # sending => p \notin Own(c)
  BY DoneKeepsAsk, Zenon
<1>2. /\ toServer' = Append(toServer, p)
      /\ UNCHANGED <<conaddr, rebind_lost, con>>
  BY Zenon DEF clientSends, output_handler_done, connectionVars, serverVars
<1>3. queue = [f \in AllFlows |-> queue[f]]
  BY Zenon DEF QueueInv
<1>4. p \in AnyPackets
  BY <1>1, Zenon DEF Packets, AnyPackets
<1> SUFFICES ASSUME NEW c \in Conids, c \notin rebind_lost
             PROVE  /\ WayOk(toServer' \o queue'[c], c, conaddr[c][1])
                    /\ \A o \in Objects : con[o].state = "live" /\ con[o].conid = c =>
                         SocketOk(toServer' \o queue'[c], c, conaddr[c][1], con[o].users)
  BY <1>2, WayPrimed, Zenon
<1>5. /\ WayOk(toServer \o queue[c], c, conaddr[c][1])
      /\ \A o \in Objects : con[o].state = "live" /\ con[o].conid = c =>
           SocketOk(toServer \o queue[c], c, conaddr[c][1], con[o].users)
  BY Zenon DEF WayInv
<1>6. toServer \in Seq(AnyPackets) /\ queue[c] \in Seq(AnyPackets) /\ Reb(c) \subseteq Own(c)
  BY WaySeqs, Zenon
<1>7. CASE c = sending
  <2>1. queue'[c] = Tail(queue[c]) /\ p = Head(queue[c]) /\ queue[c] # <<>>
    BY <1>1, <1>3, <1>7, Zenon
  <2>2. Append(toServer, Head(queue[c])) \o Tail(queue[c]) = toServer \o queue[c]
    BY <1>6, <2>1, WayIsSame, Zenon
  <2>3. toServer' \o queue'[c] = toServer \o queue[c]
    BY <1>2, <2>1, <2>2, Zenon
  <2> QED  BY <1>5, <2>3, Zenon
<1>8. CASE c # sending
  <2>1. queue'[c] = queue[c]
    BY <1>1, <1>3, <1>8, Zenon DEF AllFlows
  <2>2. p \notin Own(c)
    BY <1>1, <1>8, Zenon
  <2> DEFINE w == toServer \o queue[c]
             v == Append(toServer, p) \o queue[c]
  <2> HIDE DEF p
  <2>3. /\ Chain(w, Own(c), Reb(c)) => Chain(v, Own(c), Reb(c))
        /\ \A l : Ends(w, Own(c), Reb(c), l) => Ends(v, Own(c), Reb(c), l)
        /\ \A u : Begins(w, Own(c), Reb(c), u) => Begins(v, Own(c), Reb(c), u)
        /\ NoRebind(v, Reb(c)) => NoRebind(w, Reb(c))
    BY <1>4, <1>6, <2>2, OtherInserted, Zenon
  <2>4. toServer' \o queue'[c] = v
    BY <1>2, <2>1, Zenon DEF p
  <2> HIDE DEF w, v
  <2>5. WayOk(v, c, conaddr[c][1])
    BY <1>5, <2>3, Zenon DEF WayOk, w
  <2>6. \A users : SocketOk(w, c, conaddr[c][1], users) => SocketOk(v, c, conaddr[c][1], users)
    BY <2>3, Zenon DEF SocketOk
  <2> QED  BY <1>5, <2>4, <2>5, <2>6, Zenon DEF w
<1> QED  BY <1>7, <1>8, Zenon

(* A packet of an application is queued, or finds no room.                  *)
LEMMA WaySubmit ==
  ASSUME AskInv, QueueInv, WayInv, UNCHANGED <<con, toServer>>,
         NEW a \in ConAddrs, NEW d \in Conids, NEW flags \in {{}, {"REBIND"}}, SubmitSends(d, flags, a)
  PROVE  WayInv'
<1> DEFINE p == Packet(flags, d, a)
<1>1. p \in Own(d) /\ p.local = a[1] /\ (p \in Reb(d) <=> "REBIND" \in flags) /\ p.flags = flags
  BY NewPacket
<1> HIDE DEF p
<1>2. /\ \A f \in AllFlows : f # d => queue'[f] = queue[f]
      /\ \/ queue'[d] = Append(queue[d], p) /\ rebind_lost' = rebind_lost
         \/ /\ queue'[d] = queue[d]
            /\ rebind_lost' = IF "REBIND" \in flags THEN rebind_lost \union {d} ELSE rebind_lost
  BY <1>1, SendDoes, Zenon DEF SubmitSends, p
<1>3. /\ conaddr \in [Conids -> ConAddrs \union {NoAddr}]
      /\ conaddr' = [conaddr EXCEPT ![d] = a]
  BY Zenon DEF SubmitSends, AskInv, ConaddrInv
<1>4. conaddr'[d] = a /\ \A c \in Conids : c # d => conaddr'[c] = conaddr[c]
  BY <1>3, Zenon
<1>5. flags = {} => conaddr[d] = a
  BY Zenon DEF SubmitSends
<1> SUFFICES ASSUME NEW c \in Conids, c \notin rebind_lost'
             PROVE  /\ WayOk(toServer \o queue'[c], c, conaddr'[c][1])
                    /\ \A o \in Objects : con[o].state = "live" /\ con[o].conid = c =>
                         SocketOk(toServer \o queue'[c], c, conaddr'[c][1], con[o].users)
  BY WayPrimed, Zenon
<1>6. c \notin rebind_lost
  BY <1>2, Zenon
<1> DEFINE w == toServer \o queue[c]
<1>7. /\ WayOk(w, c, conaddr[c][1])
      /\ \A o \in Objects : con[o].state = "live" /\ con[o].conid = c =>
           SocketOk(w, c, conaddr[c][1], con[o].users)
  BY <1>6, Zenon DEF WayInv
<1>8. CASE c # d
  <2>1. queue'[c] = queue[c] /\ conaddr'[c] = conaddr[c]
    BY <1>2, <1>4, <1>8, Zenon DEF AllFlows
  <2> QED  BY <1>7, <2>1, Zenon
<1>9. CASE c = d /\ queue'[d] = queue[d]
             /\ rebind_lost' = IF "REBIND" \in flags THEN rebind_lost \union {d} ELSE rebind_lost
  <2>1. flags = {}
    BY <1>9, Zenon
  <2> QED  BY <1>4, <1>5, <1>7, <1>9, <2>1, Zenon
<1>10. CASE c = d /\ queue'[d] = Append(queue[d], p)
  <2>1. /\ toServer \in Seq(AnyPackets) /\ queue[c] \in Seq(AnyPackets)
        /\ Own(c) \subseteq AnyPackets /\ Reb(c) \subseteq Own(c)
    BY WaySeqs, Zenon
  <2>2. p \in AnyPackets /\ p \in Own(c)
    BY <1>1, <1>10, <2>1, Zenon
  <2> DEFINE v == Append(w, p)
  <2>3. toServer \o queue'[c] = v
    <3>1. toServer \o Append(queue[c], p) = Append(toServer \o queue[c], p)
      BY <2>1, <2>2, WayEnds
    <3> QED  BY <1>10, <3>1, Zenon
  <2>4. w \in Seq(AnyPackets)
    BY <2>1
  <2>5. Chain(w, Own(c), Reb(c)) /\ Ends(w, Own(c), Reb(c), conaddr[c][1])
    BY <1>7, Zenon DEF WayOk
  <2>6. conaddr'[c][1] = p.local
    BY <1>1, <1>4, <1>10, Zenon
  <2> HIDE DEF w
  <2>7. CASE flags = {"REBIND"}
    <3>1. p \in Reb(c)
      BY <1>1, <1>10, <2>7, Zenon
    <3>2. /\ Chain(v, Own(c), Reb(c)) /\ Ends(v, Own(c), Reb(c), p.local)
          /\ \A u : Begins(w, Own(c), Reb(c), u) => Begins(v, Own(c), Reb(c), u)
          /\ ~NoRebind(v, Reb(c))
      BY <2>2, <2>4, <2>5, <3>1, RebindAppended, Zenon
    <3> HIDE DEF v
    <3>3. WayOk(v, c, p.local)
      BY <3>2, Zenon DEF WayOk
    <3>4. \A users : SocketOk(w, c, conaddr[c][1], users) => SocketOk(v, c, p.local, users)
      BY <3>2, Zenon DEF SocketOk
    <3> QED  BY <1>7, <2>3, <2>6, <3>3, <3>4, Zenon
  <2>8. CASE flags = {}
    <3>1. p \notin Reb(c)
      BY <1>1, <1>10, <2>8, Zenon
    <3>2. conaddr[c][1] = p.local
      BY <1>1, <1>5, <1>10, <2>8, Zenon
    <3>3. Ends(w, Own(c), Reb(c), p.local)
      BY <2>5, <3>2, Zenon
    <3>4. /\ Chain(v, Own(c), Reb(c)) /\ Ends(v, Own(c), Reb(c), p.local)
          /\ \A u : Begins(w, Own(c), Reb(c), u) /\ (NoRebind(w, Reb(c)) => u = p.local)
                    => Begins(v, Own(c), Reb(c), u)
          /\ NoRebind(v, Reb(c)) => NoRebind(w, Reb(c))
      BY <2>2, <2>4, <2>5, <3>1, <3>3, OwnAppended, Zenon
    <3> HIDE DEF v
    <3>5. WayOk(v, c, p.local)
      BY <3>4, Zenon DEF WayOk
    <3>6. \A users : SocketOk(w, c, p.local, users) => SocketOk(v, c, p.local, users)
      BY <3>4, Zenon DEF SocketOk
    <3> QED  BY <1>7, <2>3, <2>6, <3>2, <3>5, <3>6, Zenon
  <2> QED  BY <2>7, <2>8, Zenon
<1> QED  BY <1>2, <1>8, <1>9, <1>10, Zenon
-----------------------------------------------------------------------------
(* Only the keep-alive has the flag KEEPALIVE.                              *)
LEMMA KeepaliveFlag ==
  ASSUME NEW p \in Packets
  PROVE  /\ "KEEPALIVE" \in p.flags <=> p = keepalive_packet
         /\ p # keepalive_packet => p \in DataPackets
         /\ p = keepalive_packet => p \notin DataPackets
<1>1. CASE p = keepalive_packet
  BY <1>1 DEF keepalive_packet, DataPackets
<1>2. CASE p # keepalive_packet
  <2>1. p \in DataPackets
    BY <1>2, Zenon DEF Packets
  <2>2. p.flags \in SUBSET {"REBIND"}
    BY <2>1 DEF DataPackets
  <2> QED  BY <1>2, <2>1, <2>2
<1> QED  BY <1>1, <1>2, Zenon

(* A packet that another conid sent, or that has no REBIND, leaves a socket *)
(* as it is; the way of every conid goes on.                                *)
LEMMA WayGoesOn ==
  ASSUME AskInv, WayInv, toServer # <<>>, NEW c \in Conids, c \notin rebind_lost
  PROVE  /\ WayOk(Tail(toServer) \o queue[c], c, conaddr[c][1])
         /\ Head(toServer) \in Own(c) =>
              SocketOk(Tail(toServer) \o queue[c], c, conaddr[c][1], {Head(toServer).local})
         /\ \A o \in Objects : con[o].state = "live" /\ con[o].conid = c /\ Head(toServer) \notin Reb(c) =>
              /\ SocketOk(Tail(toServer) \o queue[c], c, conaddr[c][1], con[o].users)
              /\ Head(toServer) \in Own(c) => con[o].users = {Head(toServer).local}
<1> DEFINE w == toServer \o queue[c]
           p == Head(toServer)
           l == conaddr[c][1]
<1>1. toServer \in Seq(AnyPackets) /\ queue[c] \in Seq(AnyPackets) /\ Reb(c) \subseteq Own(c)
  BY WaySeqs, Zenon
<1>2. /\ Tail(toServer) \o queue[c] = Tail(w) /\ Head(w) = p /\ w # <<>>
      /\ w \in Seq(AnyPackets)
  BY <1>1, WayEnds
<1>3. /\ WayOk(w, c, l)
      /\ \A o \in Objects : con[o].state = "live" /\ con[o].conid = c => SocketOk(w, c, l, con[o].users)
  BY Zenon DEF WayInv
<1> HIDE DEF w, p, l
<1>4. Chain(w, Own(c), Reb(c)) /\ Ends(w, Own(c), Reb(c), l)
  BY <1>3, Zenon DEF WayOk
<1>5. /\ Chain(Tail(w), Own(c), Reb(c)) /\ Ends(Tail(w), Own(c), Reb(c), l)
      /\ Head(w) \in Own(c) => /\ Begins(Tail(w), Own(c), Reb(c), Head(w).local)
                               /\ NoRebind(Tail(w), Reb(c)) => Head(w).local = l
  BY <1>1, <1>2, <1>4, FirstGone, Zenon
<1>6. WayOk(Tail(w), c, l)
  BY <1>5, Zenon DEF WayOk
<1>7. p \in Own(c) => SocketOk(Tail(w), c, l, {p.local})
  BY <1>2, <1>5, Zenon DEF SocketOk
<1>8. ASSUME NEW o \in Objects, con[o].state = "live", con[o].conid = c, p \notin Reb(c)
      PROVE  SocketOk(Tail(w), c, l, con[o].users) /\ (p \in Own(c) => con[o].users = {p.local})
  <2>1. PICK u : /\ con[o].users = {u} /\ Begins(w, Own(c), Reb(c), u)
                 /\ NoRebind(w, Reb(c)) => u = l
    BY <1>3, <1>8, Zenon DEF SocketOk
  <2>2. /\ Begins(Tail(w), Own(c), Reb(c), u)
        /\ NoRebind(Tail(w), Reb(c)) => NoRebind(w, Reb(c))
        /\ Head(w) \in Own(c) => Head(w).local = u
    BY <1>1, <1>2, <1>8, <2>1, FirstGoneForSocket, Zenon
  <2> QED  BY <1>2, <2>1, <2>2, Zenon DEF SocketOk
<1> QED  BY <1>2, <1>6, <1>7, <1>8, Zenon DEF p, l

(* The gateway has received a packet: what is known of the connections.     *)
Received(p) ==
    \A o \in Objects : con'[o].state = "live" =>
        \/ /\ con[o].state = "live" /\ con'[o].conid = con[o].conid /\ con'[o].users = con[o].users
           /\ con[o].conid # p.conid \/ p \notin DataPackets \/ "REBIND" \notin p.flags
        \/ /\ con[o].state = "live" /\ con'[o].conid = con[o].conid
           /\ con'[o].users = con[o].users \union {p.local}
           /\ "REBIND" \notin p.flags /\ p \in DataPackets /\ con[o].conid = p.conid
        \/ p \in DataPackets /\ con'[o].conid = p.conid /\ con'[o].users = {p.local}

LEMMA ReceivesDoes ==
  ASSUME AskInv, ServerInv, ObjectIsFree, serverReceives
  PROVE  /\ AskInv' /\ Received(Head(toServer))
         /\ toServer # <<>> /\ toServer' = Tail(toServer)
         /\ UNCHANGED <<conaddr, rebind_lost, queue>>
<1> DEFINE p == Head(toServer)
<1>0. /\ ConaddrInv /\ QueuesInv /\ StreamInv
      /\ ConnectionsOk(con, server_sending) /\ ListOk(con, server_list)
  BY Zenon DEF AskInv
<1>1. /\ toServer # <<>> /\ toServer' = Tail(toServer)
      /\ UNCHANGED <<conaddr, connections_list, next_conid, reused, queue, rebind_lost>>
      /\ UNCHANGED <<server_sending, toClient>>
  BY Zenon DEF serverReceives, clientVars, connectionVars, queueVars
<1>2. p \in Packets /\ Tail(toServer) \in Seq(Packets)
  BY <1>0, <1>1, SeqTail, Zenon DEF StreamInv
<1>3. \/ "KEEPALIVE" \in p.flags /\ UNCHANGED <<con, server_list>>
      \/ "KEEPALIVE" \notin p.flags /\ openConnection(p)
      \/ /\ "KEEPALIVE" \notin p.flags
         /\ \E o \in find_connection(p.conid) : ~closeOld(p, o) /\ connection_send_to_udp(p, o)
  BY Zenon DEF serverReceives
<1> HIDE DEF p
<1>4. /\ "KEEPALIVE" \in p.flags <=> p = keepalive_packet
      /\ p # keepalive_packet => p \in DataPackets
      /\ p = keepalive_packet => p \notin DataPackets
  BY <1>2, KeepaliveFlag, Zenon
<1>5. ConnectionsOk(con', server_sending) /\ ListOk(con', server_list') /\ Received(p)
  <2>1. CASE "KEEPALIVE" \in p.flags /\ UNCHANGED <<con, server_list>>
    <3>1. p \notin DataPackets
      BY <1>4, <2>1, Zenon
    <3>2. Received(p)
      BY <2>1, <3>1, Zenon DEF Received
    <3> QED  BY <1>0, <2>1, <3>2, Zenon
  <2>2. CASE "KEEPALIVE" \notin p.flags /\ openConnection(p)
    <3>1. p # keepalive_packet /\ p \in DataPackets
      BY <1>4, <2>2, Zenon
    <3>2. ConnectionsOk(con', server_sending) /\ ListOk(con', server_list') /\ Opened(p, con)
      BY <1>0, <1>2, <2>2, <3>1, OpenDoes, Zenon
    <3>3. connection(p).conid = p.conid /\ connection(p).users = {p.local}
      BY DEF connection
    <3>4. Received(p)
      BY <3>1, <3>2, <3>3, Zenon DEF Received, Opened
    <3> QED  BY <3>2, <3>4, Zenon
  <2>3. ASSUME "KEEPALIVE" \notin p.flags, NEW o \in find_connection(p.conid),
               ~closeOld(p, o), connection_send_to_udp(p, o)
        PROVE  ConnectionsOk(con', server_sending) /\ ListOk(con', server_list') /\ Received(p)
    <3>1. p # keepalive_packet /\ p \in DataPackets /\ "REBIND" \notin p.flags
      BY <1>4, <2>3, Zenon DEF closeOld
    <3>2. o \in Objects /\ con[o].state = "live" /\ con[o].conid = p.conid
      BY Zenon DEF find_connection, Live
    <3>3. /\ ConnectionsOk(con', server_sending) /\ ListOk(con', server_list')
          /\ \A q \in Objects : q # o => con'[q] = con[q]
          /\ con'[o].state = "live" /\ con'[o].conid = con[o].conid
          /\ con'[o].users = con[o].users \/ con'[o].users = con[o].users \union {p.local}
      BY <1>0, <1>2, <2>3, <3>1, <3>2, UdpSendDoes, Zenon
    <3>4. Received(p)
      BY <3>1, <3>2, <3>3, Zenon DEF Received
    <3> QED  BY <3>3, <3>4, Zenon
  <2> QED  BY <1>3, <2>1, <2>2, <2>3, Zenon
<1>6. ConnectionsOk(con', server_sending')
  BY <1>1, <1>5, Zenon
<1>7. ConnectionsOk(con, server_sending)' /\ ListOk(con, server_list)'
  BY <1>1, <1>5, <1>6, ServerSame, Zenon
<1>8. ConaddrInv' /\ QueuesInv'
  BY <1>0, <1>1, ClientSame, QueuesSame, Zenon
<1>9. StreamInv'
  BY <1>0, <1>1, <1>2, StreamSame, Zenon DEF StreamInv
<1> QED  BY <1>1, <1>5, <1>7, <1>8, <1>9, Zenon DEF AskInv, p

LEMMA WayReceives ==
  ASSUME AskInv, WayInv, NEW p, p = Head(toServer), Received(p),
         toServer # <<>>, toServer' = Tail(toServer), UNCHANGED <<conaddr, rebind_lost, queue>>
  PROVE  WayInv'
<1> SUFFICES ASSUME NEW c \in Conids, c \notin rebind_lost
             PROVE  /\ WayOk(Tail(toServer) \o queue[c], c, conaddr[c][1])
                    /\ \A o \in Objects : con'[o].state = "live" /\ con'[o].conid = c =>
                         SocketOk(Tail(toServer) \o queue[c], c, conaddr[c][1], con'[o].users)
  BY WayPrimed, Zenon
<1> DEFINE v == Tail(toServer) \o queue[c]
           l == conaddr[c][1]
<1>1. /\ WayOk(v, c, l)
      /\ p \in Own(c) => SocketOk(v, c, l, {p.local})
      /\ \A o \in Objects : con[o].state = "live" /\ con[o].conid = c /\ p \notin Reb(c) =>
           /\ SocketOk(v, c, l, con[o].users)
           /\ p \in Own(c) => con[o].users = {p.local}
  BY WayGoesOn, Zenon
<1> HIDE DEF v, l
<1>2. ASSUME NEW o \in Objects, con'[o].state = "live", con'[o].conid = c
      PROVE  SocketOk(v, c, l, con'[o].users)
  <2>1. CASE /\ con[o].state = "live" /\ con'[o].conid = con[o].conid /\ con'[o].users = con[o].users
             /\ con[o].conid # p.conid \/ p \notin DataPackets \/ "REBIND" \notin p.flags
    <3>1. p \notin Reb(c)
      BY <1>2, <2>1, Zenon DEF Reb, Own
    <3> QED  BY <1>1, <1>2, <2>1, <3>1, Zenon
  <2>2. CASE /\ con[o].state = "live" /\ con'[o].conid = con[o].conid
             /\ con'[o].users = con[o].users \union {p.local}
             /\ "REBIND" \notin p.flags /\ p \in DataPackets /\ con[o].conid = p.conid
    <3>1. p \notin Reb(c) /\ p \in Own(c)
      BY <1>2, <2>2, Zenon DEF Reb, Own
    <3>2. con[o].users = {p.local} /\ SocketOk(v, c, l, con[o].users)
      BY <1>1, <1>2, <2>2, <3>1, Zenon
    <3>3. con'[o].users = con[o].users
      BY <2>2, <3>2, Zenon
    <3> QED  BY <3>2, <3>3, Zenon
  <2>3. CASE p \in DataPackets /\ con'[o].conid = p.conid /\ con'[o].users = {p.local}
    <3>1. p \in Own(c)
      BY <1>2, <2>3, Zenon DEF Own
    <3> QED  BY <1>1, <2>3, <3>1, Zenon
  <2> QED  BY <1>2, <2>1, <2>2, <2>3, Zenon DEF Received
<1> QED  BY <1>1, <1>2, Zenon DEF v, l
-----------------------------------------------------------------------------
(* A step of the gateway, of the stream to the client, or of the client's   *)
(* timers: no packet joins or leaves the way.                               *)
LEMMA OtherStepKeepsFlow ==
  ASSUME AskInv, WayInv, UNCHANGED <<conaddr, reused, rebind_lost, toServer>>,
         ConaddrInv', QueuesInv', \A c \in Conids : queue'[c] = queue[c],
         toClient' \in Seq(Answers),
         ConnectionsOk(con', server_sending'), ListOk(con', server_list'), SameUsers
  PROVE  AskInv' /\ WayInv'
<1>1. ConnectionsOk(con, server_sending)' /\ ListOk(con, server_list)'
  BY ServerSame, Zenon
<1>2. StreamInv'
  BY StreamSame, Zenon DEF AskInv, StreamInv
<1>3. WayInv'
  BY WaySame, Zenon
<1> QED  BY <1>1, <1>2, <1>3, Zenon DEF AskInv

(* ... of the gateway only.                                                 *)
LEMMA ServerStepKeepsFlow ==
  ASSUME AskInv, WayInv, UNCHANGED <<conaddr, connections_list, next_conid, reused, queue, rebind_lost>>,
         UNCHANGED toServer, toClient' \in Seq(Answers),
         ConnectionsOk(con', server_sending'), ListOk(con', server_list'), SameUsers
  PROVE  AskInv' /\ WayInv'
<1>1. ConaddrInv' /\ QueuesInv'
  BY ClientSame, QueuesSame, Zenon DEF AskInv
<1>2. \A c \in Conids : queue'[c] = queue[c]
  BY Zenon
<1> QED  BY <1>1, <1>2, OtherStepKeepsFlow, Zenon

Freed == con' = [o \in Objects |-> FreeObject] /\ server_list' = <<>> /\ server_sending' = NoCon

LEMMA FreedServer ==
  ASSUME Freed
  PROVE  /\ ConnectionsOk(con', server_sending') /\ ListOk(con', server_list')
         /\ SameUsers /\ \A o \in Objects : con'[o].state # "live"
<1>1. PICK cons : cons = con'
  BY Zenon
<1>2. cons = [o \in Objects |-> FreeObject] /\ server_list' = <<>> /\ server_sending' = NoCon
  BY <1>1, Zenon DEF Freed
<1>3. ConnectionsOk(cons, NoCon) /\ ListOk(cons, <<>>)
  BY <1>2, FreedIsOk, Zenon
<1>4. \A o \in Objects : cons[o].state # "live"
  BY <1>2, NotFree
<1> QED  BY <1>1, <1>2, <1>3, <1>4, Zenon DEF SameUsers

(* The stream is gone.                                                      *)
LEMMA LostKeepsFlow ==
  ASSUME AskInv, WayInv, dropSocks, streamGone
  PROVE  AskInv' /\ WayInv'
<1>1. /\ UNCHANGED <<conaddr, connections_list, next_conid, reused, queue, rebind_lost>>
      /\ toServer' = <<>> /\ toClient' = <<>> /\ Freed
  BY Zenon DEF dropSocks, streamGone, client_free, Freed, connectionVars, queueVars
<1>2. /\ ConnectionsOk(con', server_sending') /\ ListOk(con', server_list')
      /\ \A o \in Objects : con'[o].state # "live"
  BY <1>1, FreedServer, Zenon
<1>3. ConnectionsOk(con, server_sending)' /\ ListOk(con, server_list)'
  BY <1>1, <1>2, ServerSame, Zenon
<1>4. ConaddrInv' /\ QueuesInv'
  BY <1>1, ClientSame, QueuesSame, Zenon DEF AskInv
<1>5. <<>> \in Seq(Packets) /\ <<>> \in Seq(Answers)
  OBVIOUS
<1>6. StreamInv'
  BY <1>1, <1>5, StreamSame, Zenon
<1>7. WayInv'
  BY <1>1, <1>2, WayLost, Zenon
<1> QED  BY <1>3, <1>4, <1>6, <1>7, Zenon DEF AskInv

(* The keep-alive is in a flow of its own.                                  *)
LEMMA TimerKeepsFlow ==
  ASSUME AskInv, WayInv, QueueInv, clientTimer
  PROVE  AskInv' /\ WayInv'
<1>0. /\ ConaddrInv /\ QueuesInv /\ StreamInv
      /\ ConnectionsOk(con, server_sending) /\ ListOk(con, server_list)
  BY Zenon DEF AskInv
<1>1. /\ UNCHANGED <<conaddr, connections_list, next_conid, reused, rebind_lost>>
      /\ UNCHANGED <<toServer, toClient, con, server_sending, server_list>>
      /\ queue' = queue \/ queue' = [queue EXCEPT ![KeepaliveFlow] = <<keepalive_packet>>]
  BY Zenon DEF clientTimer, send_monitor_handler, connectionVars, serverVars, streamVars
<1>2. queue = [f \in AllFlows |-> queue[f]]
  BY Zenon DEF QueueInv
<1>3. KeepaliveFlow \notin Conids /\ KeepaliveFlow \in AllFlows
  BY ClientConstants DEF KeepaliveFlow, Conids, AllFlows
<1>4. \A c \in Conids : queue'[c] = queue[c]
  BY <1>1, <1>2, <1>3, Zenon DEF AllFlows
<1>5. <<keepalive_packet>> \in Seq({keepalive_packet})
  OBVIOUS
<1>6. queue'[KeepaliveFlow] \in Seq({keepalive_packet})
  BY <1>0, <1>1, <1>2, <1>3, <1>5, Zenon DEF QueuesInv
<1>7. QueuesInv'
  BY <1>0, <1>1, <1>4, <1>6, TypesSame, Zenon DEF QueuesInv, keepalive_packet
<1>8. ConaddrInv'
  BY <1>0, <1>1, ClientSame, Zenon
<1>9. ConnectionsOk(con', server_sending') /\ ListOk(con', server_list') /\ SameUsers
      /\ toClient' \in Seq(Answers)
  BY <1>0, <1>1, Zenon DEF SameUsers, StreamInv
<1> QED  BY <1>1, <1>4, <1>7, <1>8, <1>9, OtherStepKeepsFlow, Zenon

(* An answer reaches the client: the conid's connection was used.           *)
LEMMA AnswerKeepsFlow ==
  ASSUME AskInv, WayInv, clientReceives
  PROVE  AskInv' /\ WayInv'
<1> DEFINE m == Head(toClient)
<1>0. /\ ConaddrInv /\ QueuesInv /\ StreamInv
      /\ ConnectionsOk(con, server_sending) /\ ListOk(con, server_list)
  BY Zenon DEF AskInv
<1>1. /\ toClient # <<>> /\ toClient' = Tail(toClient)
      /\ UNCHANGED <<conaddr, next_conid, reused, queue, rebind_lost>>
      /\ UNCHANGED <<toServer, con, server_sending, server_list>>
      /\ connections_list' = IF accepts(m) THEN moveToEnd(connections_list, m.conid)
                             ELSE connections_list
  BY Zenon DEF clientReceives, recv_interface_handler_send, queueVars, serverVars
<1>2. m \in Answers /\ toClient' \in Seq(Answers)
  BY <1>0, <1>1, SeqTail, Zenon DEF StreamInv
<1> HIDE DEF m
<1>3. m.conid \in Conids
  BY <1>2 DEF Answers
<1>4. connections_list \in Seq(Conids)
  BY <1>0, Zenon DEF ConaddrInv
<1>5. connections_list' \in Seq(Conids) /\ \A y : Holds(connections_list', y) <=> Holds(connections_list, y)
  <2>1. CASE accepts(m)
    <3>1. Holds(connections_list, m.conid)
      BY <1>0, <1>3, <2>1, Zenon DEF ConaddrInv, accepts
    <3>2. /\ moveToEnd(connections_list, m.conid) \in Seq(Conids)
          /\ \A y : Holds(moveToEnd(connections_list, m.conid), y) <=> Holds(connections_list, y)
      BY <1>3, <1>4, <3>1, Moved, Zenon
    <3>3. connections_list' = moveToEnd(connections_list, m.conid)
      BY <1>1, <2>1, Zenon
    <3> QED  BY <3>2, <3>3, Zenon
  <2>2. CASE ~accepts(m)
    <3>1. connections_list' = connections_list
      BY <1>1, <2>2, Zenon
    <3> QED  BY <1>4, <3>1, Zenon
  <2> QED  BY <2>1, <2>2, Zenon
<1>6. ConaddrInv'
  BY <1>0, <1>1, <1>5, Zenon DEF ConaddrInv
<1>7. QueuesInv'
  BY <1>0, <1>1, QueuesSame, Zenon
<1>8. ConnectionsOk(con', server_sending') /\ ListOk(con', server_list') /\ SameUsers
  BY <1>0, <1>1, Zenon DEF SameUsers
<1>9. \A c \in Conids : queue'[c] = queue[c]
  BY <1>1, Zenon
<1> QED  BY <1>1, <1>2, <1>6, <1>7, <1>8, <1>9, OtherStepKeepsFlow, Zenon

(* The run ends, and the next one starts with nothing.                      *)
Empty ==
    /\ conaddr = [c \in Conids |-> NoAddr] /\ connections_list = <<>> /\ next_conid = 0
    /\ queue = [f \in Conids \union {KeepaliveFlow} |-> <<>>]
    /\ toServer = <<>> /\ toClient = <<>>
    /\ con = [o \in Objects |-> FreeObject] /\ server_list = <<>> /\ server_sending = NoCon

LEMMA EmptyFlow == Empty => AskInv /\ WayInv
<1> SUFFICES ASSUME Empty  PROVE AskInv /\ WayInv
  OBVIOUS
<1>0. /\ conaddr = [c \in Conids |-> NoAddr] /\ connections_list = <<>> /\ next_conid = 0
      /\ queue = [f \in Conids \union {KeepaliveFlow} |-> <<>>]
      /\ toServer = <<>> /\ toClient = <<>>
      /\ con = [o \in Objects |-> FreeObject] /\ server_list = <<>> /\ server_sending = NoCon
  BY Zenon DEF Empty
<1>1. ConaddrInv
  <2>1. 0 \in Conids
    BY ClientConstants DEF Conids
  <2>2. \A c \in Conids : ~Holds(<<>>, c)
    BY DEF Holds
  <2>3. <<>> \in Seq(Conids) /\ conaddr \in [Conids -> ConAddrs \union {NoAddr}]
        /\ \A c \in Conids : conaddr[c] = NoAddr
    BY <1>0
  <2> QED  BY <2>1, <2>2, <2>3, <1>0, Zenon DEF ConaddrInv
<1>2. \A f \in AllFlows : queue[f] = <<>>
  BY <1>0 DEF AllFlows
<1>3. QueuesInv
  <2>1. \A S : <<>> \in Seq(S)
    OBVIOUS
  <2>2. queue[KeepaliveFlow] = <<>> /\ \A c \in Conids : queue[c] = <<>>
    BY <1>2, FlowsAreFlows, Zenon DEF AllFlows
  <2> QED  BY <2>1, <2>2, Zenon DEF QueuesInv
<1>4. StreamInv
  BY <1>0 DEF StreamInv
<1>5. ConnectionsOk(con, server_sending) /\ ListOk(con, server_list)
  BY <1>0, FreedIsOk, Zenon
<1>6. \A o \in Objects : con[o].state # "live"
  BY <1>0, NotFree
<1>7. WayInv
  <2> SUFFICES ASSUME NEW c \in Conids  PROVE WayOk(toServer \o queue[c], c, conaddr[c][1])
    BY <1>6, Zenon DEF WayInv
  <2>1. queue[c] = <<>>
    BY <1>2, Zenon DEF AllFlows
  <2>2. WayOk(<<>> \o <<>>, c, conaddr[c][1])
    BY WayFreed, Zenon
  <2> QED  BY <1>0, <2>1, <2>2, Zenon
<1> QED  BY <1>1, <1>3, <1>4, <1>5, <1>7, Zenon DEF AskInv

LEMMA EmptiedFlow == Empty' => AskInv' /\ WayInv'
  BY EmptyFlow, PTL

(* A packet of an application.                                              *)
LEMMA PacketKeepsFlow ==
  ASSUME AskInv, WayInv, QueueInv, ConidIsFree,
         NEW local \in Locals, NEW remote \in Remotes, process_device_udp_packet(local, remote)
  PROVE  AskInv' /\ WayInv'
<1>0. UNCHANGED <<con, server_sending, server_list, toServer, toClient>>
  BY Zenon DEF process_device_udp_packet, serverVars, streamVars
<1>1. /\ ConaddrInv /\ QueuesInv /\ StreamInv
      /\ ConnectionsOk(con, server_sending) /\ ListOk(con, server_list)
  BY Zenon DEF AskInv
<1>2. ConnectionsOk(con', server_sending') /\ ListOk(con', server_list') /\ SameUsers
      /\ toClient' \in Seq(Answers)
  BY <1>0, <1>1, Zenon DEF SameUsers, StreamInv
<1>3. CASE UNCHANGED clientVars
  BY <1>0, <1>2, <1>3, ServerStepKeepsFlow, Zenon DEF clientVars, connectionVars, queueVars
<1> DEFINE a == <<local, remote>>
<1>4. CASE UdpGwClient_SubmitPacket(a)
  <2>1. a \in ConAddrs
    BY DEF ConAddrs
  <2> HIDE DEF a
  <2>2. AskInv'
    BY <1>0, <1>4, <2>1, SubmitKeepsAsk, Zenon
  <2>3. CASE SubmitFails
    <3>1. UNCHANGED <<toServer, conaddr, rebind_lost>> /\ \A c \in Conids : queue'[c] = queue[c]
      BY <1>0, <2>3, Zenon DEF SubmitFails
    <3> QED  BY <1>2, <2>2, <3>1, WaySame, Zenon
  <2>4. ASSUME NEW c \in Conids, NEW flags \in {{}, {"REBIND"}}, SubmitSends(c, flags, a)
        PROVE  WayInv'
    BY <1>0, <2>1, <2>4, WaySubmit, Zenon
  <2> QED  BY <1>1, <1>4, <2>1, <2>2, <2>3, <2>4, SubmitDoes, Zenon
<1> QED  BY <1>3, <1>4, Zenon DEF process_device_udp_packet

(* Every step.                                                              *)
LEMMA NextKeepsFlow ==
  ASSUME AskInv, WayInv, QueueInv, ServerInv, ConidIsFree, ObjectIsFree, [Next]_vars
  PROVE  AskInv' /\ WayInv'
<1>0. /\ ConaddrInv /\ QueuesInv /\ StreamInv
      /\ ConnectionsOk(con, server_sending) /\ ListOk(con, server_list)
  BY Zenon DEF AskInv
<1>1. CASE /\ UNCHANGED <<conaddr, connections_list, next_conid, reused, queue, rebind_lost>>
           /\ UNCHANGED <<toServer, toClient, con, server_sending, server_list>>
  <2>1. ConnectionsOk(con', server_sending') /\ ListOk(con', server_list') /\ SameUsers
        /\ toClient' \in Seq(Answers)
    BY <1>0, <1>1, Zenon DEF SameUsers, StreamInv
  <2> QED  BY <1>1, <2>1, ServerStepKeepsFlow, Zenon
<1>2. CASE /\ UNCHANGED <<conaddr, connections_list, next_conid, reused, queue, rebind_lost>>
           /\ UNCHANGED <<toServer, toClient>> /\ Freed
  <2>1. ConnectionsOk(con', server_sending') /\ ListOk(con', server_list') /\ SameUsers
        /\ toClient' \in Seq(Answers)
    BY <1>0, <1>2, FreedServer, Zenon DEF StreamInv
  <2> QED  BY <1>2, <2>1, ServerStepKeepsFlow, Zenon
<1>3. ASSUME NEW local \in Locals, NEW remote \in Remotes, process_device_udp_packet(local, remote)
      PROVE  AskInv' /\ WayInv'
  BY <1>3, PacketKeepsFlow, Zenon
<1>4. CASE clientSends
  BY <1>4, DoneKeepsAsk, WayDone, Zenon
<1>5. CASE clientTimer
  BY <1>5, TimerKeepsFlow, Zenon
<1>6. CASE clientReceives
  BY <1>6, AnswerKeepsFlow, Zenon
<1>7. CASE clientLoses \/ (socksUpFails /\ streamGone)
  BY <1>7, LostKeepsFlow, Zenon DEF clientLoses, socksError, socksUpFails
<1>8. CASE clientConnects
  <2>1. CASE reconnect_timer_handler /\ UNCHANGED <<dnsVars, serverVars, streamVars, boundVars>>
    BY <1>1, <2>1, Zenon DEF reconnect_timer_handler, serverVars, streamVars, connectionVars, queueVars
  <2>2. CASE socksUp /\ listener_handler /\ UNCHANGED <<dnsVars, streamVars, boundVars>>
    BY <1>2, <2>2, Zenon DEF socksUp, listener_handler, streamVars, connectionVars, queueVars, Freed
  <2> QED  BY <1>7, <1>8, <2>1, <2>2, Zenon DEF clientConnects
<1>9. CASE serverReceives
  <2>1. /\ AskInv' /\ Received(Head(toServer))
        /\ toServer # <<>> /\ toServer' = Tail(toServer)
        /\ UNCHANGED <<conaddr, rebind_lost, queue>>
    BY <1>9, ReceivesDoes, Zenon
  <2> QED  BY <2>1, WayReceives, Zenon
<1>10. CASE socketEvent
  <2>1. /\ UNCHANGED <<conaddr, connections_list, next_conid, reused, queue, rebind_lost>>
        /\ UNCHANGED toServer /\ toClient' \in Seq(Answers)
    BY <1>0, <1>10, Zenon DEF socketEvent, clientVars, connectionVars, queueVars, streamVars, StreamInv
  <2>2. ConnectionsOk(con', server_sending') /\ ListOk(con', server_list') /\ SameUsers
    BY <1>0, <1>10, ReceiveDoes, ErrorDoes, Zenon DEF socketEvent
  <2> QED  BY <2>1, <2>2, ServerStepKeepsFlow, Zenon
<1>11. CASE serverSends
  <2>1. /\ UNCHANGED <<conaddr, connections_list, next_conid, reused, queue, rebind_lost>>
        /\ UNCHANGED toServer /\ toClient' = Append(toClient, Head(con[server_sending].out))
        /\ send_done
    BY <1>11, Zenon DEF serverSends, clientVars, connectionVars, queueVars
  <2>2. /\ ConnectionsOk(con', server_sending') /\ ListOk(con', server_list') /\ SameUsers
        /\ Head(con[server_sending].out) \in Answers
    BY <1>0, <2>1, SendDoneDoes, Zenon
  <2>3. toClient' \in Seq(Answers)
    BY <1>0, <2>1, <2>2, SeqAppend, Zenon DEF StreamInv
  <2> QED  BY <2>1, <2>2, <2>3, ServerStepKeepsFlow, Zenon
<1>12. CASE client_disconnect_timer_handler \/ client_connection_handler
  BY <1>2, <1>12, Zenon
     DEF client_disconnect_timer_handler, client_connection_handler, client_free, clientVars,
         connectionVars, queueVars, streamVars, Freed
<1>13. CASE networkStalls
  BY <1>1, <1>13, Zenon DEF networkStalls, clientVars, connectionVars, queueVars, serverVars
<1>14. CASE tick
  BY <1>1, <1>14, Zenon DEF tick, connectionVars, streamVars
<1>15. CASE endRun
  <2>1. Empty'
    BY <1>15, Zenon DEF endRun, SocksUdpGwClient_Free, UdpGwClient_Free, client_free, Empty,
                        Conids, KeepaliveFlow, NoAddr, Objects, FreeObject, NoCon
  <2> QED  BY <2>1, EmptiedFlow, Zenon
<1>16. CASE dnsRelay
  BY <1>1, <1>16, Zenon DEF dnsRelay, clientVars, connectionVars, queueVars, serverVars, streamVars
<1>17. CASE UNCHANGED vars
  BY <1>1, <1>17, Zenon DEF vars, clientVars, connectionVars, queueVars, serverVars, streamVars
<1> QED  BY <1>3, <1>4, <1>5, <1>6, <1>7, <1>8, <1>9, <1>10, <1>11, <1>12, <1>13, <1>14, <1>15,
            <1>16, <1>17, Zenon DEF Next
=============================================================================
