---------------------------- MODULE UdpGwClient ----------------------------
(***************************************************************************)
(* The client of the UDP gateway: UdpGwClient.c and its owner              *)
(* SocksUdpGwClient.c.  Every pair of a local and a remote address gets a  *)
(* connection with a small number, the conid; when all are taken the least *)
(* recently used one is given to the new pair.  Each connection queues its *)
(* packets; one at a time they pass PacketPassFairQueue, the inactivity    *)
(* monitor and PacketPassConnector to a stream over SOCKS.  The stream may *)
(* break, and is then made again; the connections stay.                    *)
(* FairQueue.tla has the order in which the flows are served; here any     *)
(* flow with a packet may be next.  A step runs its jobs to the end: they  *)
(* are last-set first, so the first packet of a connection is copied (the  *)
(* first job) before the device reads into the buffer that it points to.   *)
(***************************************************************************)
EXTENDS LinkedList1, FiniteSetsExt

CONSTANTS
    Locals,             \* addresses of applications
    Remotes,            \* addresses they send to
    max_connections,    \* conids are 0 .. max_connections - 1
    send_buffer_size,   \* packets of full size that a connection's buffer holds
    MaxQueue,           \* bound: packets of any size that it holds
    KEEPALIVE_TIME,     \* ticks without a packet before a keep-alive
    RECONNECT_TIME      \* ticks between a failure and the next attempt

ASSUME ClientConstants ==
    /\ max_connections \in Nat \ {0} /\ send_buffer_size \in Nat \ {0}
    /\ MaxQueue \in Nat /\ send_buffer_size <= MaxQueue
    /\ KEEPALIVE_TIME \in Nat \ {0} /\ RECONNECT_TIME \in Nat \ {0}

Conids == 0 .. max_connections - 1
KeepaliveFlow == max_connections        \* keepalive_qflow
NoFlow == -1
Stopped == -1                           \* a timer that is not running
ConAddrs == Locals \X Remotes           \* struct UdpGwClient_conaddr
NoAddr == <<>>                          \* no connection has this conid

(* What travels to the server: the header's flags and conid and the remote  *)
(* address.  local is not on the wire: it tells whose packet it is.         *)
Packet(flags, conid, a) ==
    [flags |-> flags, conid |-> conid, local |-> a[1], remote |-> a[2]]
keepalive_packet == [flags |-> {"KEEPALIVE"}]

VARIABLES
    conaddr,            \* per conid the pair it serves, or NoAddr (both trees)
    connections_list,   \* conids, least recently used first
    next_conid,
    queue,              \* per flow the packets in its buffer
    sending,            \* the flow whose first packet the connector holds
    keepalive_sending,
    quiet,              \* ticks on the monitor's timer, Stopped while it sends
    have_socks,
    socks_up,
    have_server,        \* UdpGwClient's view: the connector has an output
    reconnect,          \* ticks on the reconnect timer, or Stopped
    reused,             \* (history) conids that were taken from one pair for another
    rebind_lost         \* (history) conids with a REBIND packet that found no room

connectionVars == <<conaddr, connections_list, next_conid, reused>>
queueVars == <<queue, sending, keepalive_sending, quiet, rebind_lost>>
socksVars == <<have_socks, socks_up, have_server, reconnect>>
clientVars == <<connectionVars, queueVars, socksVars>>

ClientTypeOK ==
    /\ conaddr \in [Conids -> ConAddrs \union {NoAddr}]
    /\ Range(connections_list) \subseteq Conids
    /\ next_conid \in Conids
    /\ \A f \in Conids \union {KeepaliveFlow} : Len(queue[f]) <= MaxQueue
    /\ sending \in Conids \union {KeepaliveFlow, NoFlow}
    /\ {keepalive_sending, have_socks, socks_up, have_server} \subseteq BOOLEAN
    /\ quiet \in Stopped .. KEEPALIVE_TIME /\ reconnect \in Stopped .. RECONNECT_TIME
    /\ reused \subseteq Conids /\ rebind_lost \subseteq Conids

(* UdpGwClient_Init: no connections, nothing queued.                        *)
UdpGwClient_Init ==
    /\ conaddr = [c \in Conids |-> NoAddr]
    /\ connections_list = <<>> /\ next_conid = 0 /\ reused = {}
    /\ queue = [f \in Conids \union {KeepaliveFlow} |-> <<>>]
    /\ sending = NoFlow /\ keepalive_sending = FALSE /\ rebind_lost = {}
    /\ have_server = FALSE

(* SocksUdpGwClient_Init: UdpGwClient_Init, which starts the monitor's      *)
(* timer, then try_connect, in which BSocksClient_Init works or the         *)
(* reconnect timer is set.  Without a gateway nothing is initialised.       *)
SocksUdpGwClient_Init(configured) ==
    /\ UdpGwClient_Init
    /\ socks_up = FALSE
    /\ \/ configured /\ quiet = 0 /\ have_socks = TRUE /\ reconnect = Stopped
       \/ configured /\ quiet = 0 /\ have_socks = FALSE /\ reconnect = 0
       \/ ~configured /\ quiet = Stopped /\ have_socks = FALSE /\ reconnect = Stopped

(* UdpGwClient_Free, and the Init of the next run.                          *)
UdpGwClient_Free ==
    /\ conaddr' = [c \in Conids |-> NoAddr]
    /\ connections_list' = <<>> /\ next_conid' = 0 /\ reused' = {}
    /\ queue' = [f \in Conids \union {KeepaliveFlow} |-> <<>>]
    /\ sending' = NoFlow /\ keepalive_sending' = FALSE /\ rebind_lost' = {}
    /\ have_server' = FALSE

(* SocksUdpGwClient_Free at the end of a run, and the Init of the next one. *)
SocksUdpGwClient_Free(configured) ==
    /\ UdpGwClient_Free
    /\ socks_up' = FALSE
    /\ \/ configured /\ quiet' = 0 /\ have_socks' = TRUE /\ reconnect' = Stopped
       \/ configured /\ quiet' = 0 /\ have_socks' = FALSE /\ reconnect' = 0
       \/ ~configured /\ quiet' = Stopped /\ have_socks' = FALSE /\ reconnect' = Stopped
-----------------------------------------------------------------------------
(* PacketPassFairQueue: a packet that is queued while nothing is sent goes  *)
(* out at once, and when a packet is done the next flow follows.            *)
schedule(was, q) ==
    IF was # NoFlow THEN {was}
    ELSE LET queued == {f \in DOMAIN q : q[f] # <<>>}
         IN  IF queued = {} THEN {NoFlow} ELSE queued

(* PacketPassInactivityMonitor's input_handler_send: the timer stops while  *)
(* a packet is being sent.                                                  *)
monitorTimer(s, ticks) == IF s = NoFlow THEN ticks ELSE Stopped

(* connection_send: BufferWriter_StartPacket finds a free place, or the     *)
(* packet is dropped with "out of buffer".  The places are counted in       *)
(* bytes, so that small packets may find one after send_buffer_size.        *)
connection_send(c, p) ==
    /\ \/ /\ Len(queue[c]) < MaxQueue
          /\ queue' = [queue EXCEPT ![c] = Append(@, p)]
          /\ UNCHANGED rebind_lost
       \/ /\ Len(queue[c]) >= send_buffer_size
          /\ rebind_lost' = IF "REBIND" \in p.flags THEN rebind_lost \union {c} ELSE rebind_lost
          /\ UNCHANGED queue
    /\ sending' \in schedule(sending, queue')
    /\ quiet' = monitorTimer(sending', quiet)
    /\ UNCHANGED keepalive_sending

(* find_unused_conid: around from next_conid to the first that is free.     *)
find_unused_conid ==
    LET steps == {k \in Conids : conaddr[(next_conid + k) % max_connections] = NoAddr}
    IN  (next_conid + Min(steps)) % max_connections

(* connection_init, and the first job, which sends the packet with REBIND.  *)
(* It may find no memory before or after the conid is chosen.               *)
connection_init(a) ==
    \/ UNCHANGED <<connectionVars, queueVars>>
    \/ /\ next_conid' = find_unused_conid
       /\ UNCHANGED <<conaddr, connections_list, reused, queueVars>>
    \/ LET c == find_unused_conid
       IN  /\ next_conid' = c
           /\ conaddr' = [conaddr EXCEPT ![c] = a]
           /\ connections_list' = LinkedList1_Append(connections_list, c)
           /\ connection_send(c, Packet({"REBIND"}, c, a))
           /\ UNCHANGED reused

(* reuse_connection, and what UdpGwClient_SubmitPacket does with its        *)
(* result: the least recently used conid serves the new pair.  Its queue    *)
(* keeps the packets of the old one.                                        *)
reuse_connection(a) ==
    LET c == Head(connections_list)
    IN  /\ conaddr' = [conaddr EXCEPT ![c] = a]
        /\ connections_list' = moveToEnd(connections_list, c)
        /\ connection_send(c, Packet({"REBIND"}, c, a))
        /\ reused' = reused \union {c}
        /\ UNCHANGED next_conid

(* UdpGwClient_SubmitPacket, from SocksUdpGwClient_SubmitPacket.            *)
UdpGwClient_SubmitPacket(a) ==
    /\ \/ \E c \in Conids :
            /\ conaddr[c] = a                       \* find_connection_by_conaddr
            /\ connections_list' = moveToEnd(connections_list, c)
            /\ connection_send(c, Packet({}, c, a))
            /\ UNCHANGED <<conaddr, next_conid, reused>>
       \/ /\ \A c \in Conids : conaddr[c] # a
          /\ Len(connections_list) = max_connections
          /\ reuse_connection(a)
       \/ /\ \A c \in Conids : conaddr[c] # a
          /\ Len(connections_list) < max_connections
          /\ connection_init(a)
    /\ UNCHANGED socksVars

(* Mutant: keepalive_if_handler_done leaves keepalive_sending set.          *)
output_handler_done_stuck ==
    /\ have_server /\ sending # NoFlow
    /\ queue' = [queue EXCEPT ![sending] = Tail(@)]
    /\ sending' \in schedule(NoFlow, queue')
    /\ quiet' = monitorTimer(sending', 0)
    /\ UNCHANGED <<connectionVars, socksVars, keepalive_sending, rebind_lost>>

(* The stream has taken the last byte of the connector's packet:            *)
(* output_handler_done of the connector, the monitor (its timer starts      *)
(* again) and the queue, and keepalive_if_handler_done.                     *)
output_handler_done ==
    /\ have_server /\ sending # NoFlow
    /\ queue' = [queue EXCEPT ![sending] = Tail(@)]
    /\ keepalive_sending' = (keepalive_sending /\ sending # KeepaliveFlow)
    /\ sending' \in schedule(NoFlow, queue')
    /\ quiet' = monitorTimer(sending', 0)
    /\ UNCHANGED <<connectionVars, socksVars, rebind_lost>>

(* The monitor's timer: it is started again, and send_monitor_handler sends *)
(* a keep-alive unless one is under way.                                    *)
send_monitor_handler ==
    /\ quiet = KEEPALIVE_TIME
    /\ \/ keepalive_sending /\ quiet' = 0 /\ UNCHANGED <<queue, sending, keepalive_sending>>
       \/ /\ ~keepalive_sending /\ keepalive_sending' = TRUE
          /\ queue' = [queue EXCEPT ![KeepaliveFlow] = <<keepalive_packet>>]
          /\ sending' \in schedule(sending, queue')
          /\ quiet' = monitorTimer(sending', 0)
    /\ UNCHANGED <<connectionVars, socksVars, rebind_lost>>

(* Mutant: a packet of the wrong remote address is not refused.             *)
accepts_any(m) == conaddr[m.conid] # NoAddr

(* recv_interface_handler_send up to the delivery: the conid must be known  *)
(* and the remote address the one of its connection now.                    *)
accepts(m) == conaddr[m.conid] # NoAddr /\ conaddr[m.conid][2] = m.remote

recv_interface_handler_send(m) ==
    /\ connections_list' = IF accepts(m) THEN moveToEnd(connections_list, m.conid)
                           ELSE connections_list
    /\ UNCHANGED <<conaddr, next_conid, reused, queueVars, socksVars>>
-----------------------------------------------------------------------------
(* BSocksClient_Init in try_connect works, or the timer is set.             *)
try_connect ==
    \/ have_socks' = TRUE /\ socks_up' = FALSE /\ reconnect' = Stopped
    \/ have_socks' = FALSE /\ reconnect' = 0 /\ UNCHANGED socks_up

reconnect_timer_handler ==
    /\ reconnect = RECONNECT_TIME
    /\ try_connect
    /\ UNCHANGED <<have_server, connectionVars, queueVars>>

(* free_socks and the timer.  UdpGwClient_DisconnectServer takes the output *)
(* from the connector, which keeps its packet; socks_up stays as it is.     *)
dropSocks ==
    /\ have_socks' = FALSE /\ reconnect' = 0
    /\ have_server' = (have_server /\ ~socks_up)
    /\ UNCHANGED <<socks_up, connectionVars, queueVars>>

(* Mutant: a failed UdpGwClient_ConnectServer does not set the timer.       *)
socksUpFails_forgets ==
    /\ have_socks /\ ~socks_up
    /\ have_socks' = FALSE
    /\ UNCHANGED <<reconnect, have_server, socks_up, connectionVars, queueVars>>

(* socks_client_handler, EVENT_UP: UdpGwClient_ConnectServer connects the   *)
(* connector, which sends its packet from the start, or finds no memory.    *)
socksUpFails == have_socks /\ ~socks_up /\ dropSocks

socksUp ==
    /\ have_socks /\ ~socks_up
    /\ have_server' = TRUE /\ socks_up' = TRUE
    /\ UNCHANGED <<have_socks, reconnect, connectionVars, queueVars>>

(* EVENT_ERROR and EVENT_ERROR_CLOSED, and udpgw_handler_servererror, which *)
(* the decoder calls for a packet that is too large.                        *)
socksError == have_socks /\ dropSocks
=============================================================================
