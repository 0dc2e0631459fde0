------------------------------- MODULE UdpGw -------------------------------
(***************************************************************************)
(* UDP through tun2socks: what an application sends goes either to the DNS *)
(* relay or through the UDP gateway's client, a stream over SOCKS and the  *)
(* gateway; answers come back the same way.  A tick is the unit of the     *)
(* three timers; it passes when everything that is under way has arrived,  *)
(* unless the network has stalled.                                         *)
(***************************************************************************)
EXTENDS DnsRelay, UdpGwClient, UdpGwServer

CONSTANTS
    Resolver,       \* the remote address that is dns_resolver_addr:53
    MaxPackets,     \* bound: packets that applications send in one run
    MaxReplies,     \* bound: packets that come in on the gateway's sockets
    MaxInFlight     \* bound: packets in one direction of the stream

(* UDPGW_KEEPALIVE_TIME is 10 s, CLIENT_DISCONNECT_TIMEOUT 20 s.            *)
ASSUME UdpConstants ==
    /\ Locals = Apps /\ {MaxPackets, MaxReplies, MaxInFlight} \subseteq Nat
    /\ KEEPALIVE_TIME < CLIENT_DISCONNECT_TIMEOUT

VARIABLES
    options,        \* which of transparent_dns and udpgw_remote_server_addr are set
    toServer,       \* the stream over SOCKS
    toClient,
    stalled,        \* the network delivers nothing until the stream breaks
    packets,        \* packets sent so far
    replies         \* packets that came in on sockets so far

streamVars == <<toServer, toClient, stalled>>
boundVars == <<options, packets, replies>>
vars == <<dnsVars, clientVars, serverVars, streamVars, boundVars>>

Init ==
    /\ options \in (SUBSET {"transparent_dns", "udpgw"}) \ {{}}
    /\ DnsInit /\ SocksUdpGwClient_Init("udpgw" \in options) /\ ServerInit
    /\ toServer = <<>> /\ toClient = <<>> /\ stalled = FALSE
    /\ packets = 0 /\ replies = 0
-----------------------------------------------------------------------------
(* process_device_udp_packet: with transparent DNS a packet to the resolver *)
(* is a query; anything else goes to the gateway if there is one.           *)
isDns(remote) == "transparent_dns" \in options /\ remote = Resolver

process_device_udp_packet(local, remote) ==
    /\ packets < MaxPackets /\ packets' = packets + 1
    /\ \/ /\ isDns(remote)
          /\ \E id \in Ids : processDnsQuery(id, local)
          /\ UNCHANGED clientVars
       \/ /\ ~isDns(remote) /\ "udpgw" \in options
          /\ UdpGwClient_SubmitPacket(<<local, remote>>)
          /\ UNCHANGED dnsVars
    /\ UNCHANGED <<serverVars, streamVars, options, replies>>

(* The DNS relay's socket and network.                                      *)
dnsRelay ==
    /\ udp_fd_handler \/ relayLoses \/ relayRepeats
    /\ UNCHANGED <<clientVars, serverVars, streamVars, boundVars>>

(* The stream takes the packet that the connector holds.                    *)
clientSends ==
    /\ Len(toServer) < MaxInFlight
    /\ output_handler_done
    /\ toServer' = Append(toServer, Head(queue[sending]))
    /\ UNCHANGED <<dnsVars, serverVars, toClient, stalled, boundVars>>

clientTimer ==
    /\ send_monitor_handler
    /\ UNCHANGED <<dnsVars, serverVars, streamVars, boundVars>>

(* A packet from the gateway; udp_send_packet_to_device hands it on.        *)
clientReceives ==
    /\ have_server /\ ~stalled /\ toClient # <<>>
    /\ recv_interface_handler_send(Head(toClient))
    /\ toClient' = Tail(toClient)
    /\ UNCHANGED <<dnsVars, serverVars, toServer, stalled, boundVars>>

(* What happens when the client gives its stream up: nothing that was under *)
(* way arrives, and the gateway frees the client.  (What the gateway does   *)
(* between the two is done before this step.)                               *)
streamGone ==
    /\ toServer' = <<>> /\ toClient' = <<>> /\ stalled' = FALSE
    /\ client_free
    /\ UNCHANGED <<dnsVars, boundVars>>

(* The SOCKS handshake and its failures; the gateway accepts when it is up. *)
clientConnects ==
    \/ /\ reconnect_timer_handler
       /\ UNCHANGED <<dnsVars, serverVars, streamVars, boundVars>>
    \/ /\ socksUp /\ listener_handler
       /\ UNCHANGED <<dnsVars, streamVars, boundVars>>
    \/ socksUpFails /\ streamGone

clientLoses == socksError /\ streamGone

(* client_recv_if_handler_send: the timer starts again; a keep-alive is all *)
(* that it is; a packet goes to its connection or opens one.                *)
serverReceives ==
    /\ client /\ ~stalled /\ toServer # <<>>
    /\ toServer' = Tail(toServer)
    /\ silence' = 0
    /\ LET p == Head(toServer)
       IN  \/ "KEEPALIVE" \in p.flags /\ UNCHANGED <<con, server_list>>
           \/ /\ "KEEPALIVE" \notin p.flags
              /\ \A o \in find_connection(p.conid) : closeOld(p, o)
              /\ openConnection(p)
           \/ /\ "KEEPALIVE" \notin p.flags
              /\ \E o \in find_connection(p.conid) :
                    ~closeOld(p, o) /\ connection_send_to_udp(p, o)
    /\ UNCHANGED <<dnsVars, clientVars, client, server_sending, toClient, stalled, boundVars>>

(* Packets and errors on the gateway's sockets.                             *)
socketEvent ==
    /\ client
    /\ \/ /\ replies < MaxReplies /\ replies' = replies + 1
          /\ \E o \in Live : connection_udp_recv_if_handler_send(o)
       \/ UNCHANGED replies /\ \E o \in Live : connection_dgram_handler_event(o)
    /\ UNCHANGED <<dnsVars, clientVars, streamVars, options, packets>>

serverSends ==
    /\ Len(toClient) < MaxInFlight
    /\ server_sending # NoCon
    /\ toClient' = Append(toClient, Head(con[server_sending].out))
    /\ send_done
    /\ UNCHANGED <<dnsVars, clientVars, toServer, stalled, boundVars>>

(* The gateway drops the client: the disconnect timer, or an error that it  *)
(* sees first.  What it has sent still arrives; then the client sees the    *)
(* end of the stream (clientLoses).                                         *)
client_disconnect_timer_handler ==
    /\ client /\ silence = CLIENT_DISCONNECT_TIMEOUT
    /\ client_free
    /\ UNCHANGED <<dnsVars, clientVars, streamVars, boundVars>>

client_connection_handler ==
    /\ client
    /\ client_free
    /\ UNCHANGED <<dnsVars, clientVars, streamVars, boundVars>>

networkStalls ==
    /\ client /\ ~stalled /\ stalled' = TRUE
    /\ UNCHANGED <<dnsVars, clientVars, serverVars, toServer, toClient, boundVars>>

(* Nothing is under way: what can be sent is sent, what was sent arrived,   *)
(* and no handshake or end of stream waits to be seen.                      *)
settled ==
    /\ toServer = <<>> /\ toClient = <<>> /\ server_sending = NoCon
    /\ have_socks => socks_up /\ client
    /\ have_server => sending = NoFlow

(* Time passes for the three timers that are running.  None has expired: an *)
(* expired timer is served first.                                           *)
tick ==
    /\ stalled \/ settled
    /\ quiet < KEEPALIVE_TIME /\ reconnect < RECONNECT_TIME
    /\ silence < CLIENT_DISCONNECT_TIMEOUT
    /\ quiet' = IF quiet = Stopped THEN Stopped ELSE quiet + 1
    /\ reconnect' = IF reconnect = Stopped THEN Stopped ELSE reconnect + 1
    /\ silence' = IF client THEN silence + 1 ELSE silence
    /\ UNCHANGED <<dnsVars, connectionVars, queue, sending, keepalive_sending, rebind_lost,
                   have_socks, socks_up, have_server, client, con, server_list, server_sending,
                   streamVars, boundVars>>

(* The run ends: udp_free and SocksUdpGwClient_Free; another one starts.    *)
endRun ==
    /\ dnsEmpty /\ SocksUdpGwClient_Free("udpgw" \in options) /\ client_free
    /\ toServer' = <<>> /\ toClient' = <<>> /\ stalled' = FALSE
    /\ packets' = 0 /\ replies' = 0
    /\ UNCHANGED options

Next ==
    \/ \E local \in Locals, remote \in Remotes : process_device_udp_packet(local, remote)
    \/ dnsRelay
    \/ clientSends \/ clientTimer \/ clientReceives \/ clientConnects \/ clientLoses
    \/ serverReceives \/ socketEvent \/ serverSends
    \/ client_disconnect_timer_handler \/ client_connection_handler
    \/ networkStalls \/ tick \/ endRun

Spec == Init /\ [][Next]_vars
-----------------------------------------------------------------------------
TypeOK == DnsTypeOK /\ ClientTypeOK

(* A packet that is about to be handed to an application as coming from an  *)
(* address came in on a socket that was opened for this address.  While the *)
(* conid has served one pair only, that socket has sent packets of this     *)
(* application and of no other (the checks of recv_interface_handler_send   *)
(* and client_recv_if_handler_send).                                        *)
RepliesReachAsker ==
    have_server /\ toClient # <<>> =>
        LET m == Head(toClient)
        IN  accepts(m) =>
              /\ conaddr[m.conid][2] = m.remote
              /\ m.conid \notin reused => m.users = {conaddr[m.conid][1]}

(* A socket of the gateway sends the packets of one application only: a     *)
(* conid that is given to another pair gets a new socket, whatever is still *)
(* queued, lost with the stream or closed by the gateway, unless the packet *)
(* with REBIND found no room in the connection's buffer (connection_send).  *)
SocketsAreNotShared ==
    \A o \in Live : con[o].conid \notin rebind_lost => Cardinality(con[o].users) = 1

(* A connection that is closing is the one whose packet is being sent, so   *)
(* the busy handler will free it; the live ones are those in the list, with *)
(* one conid each (connection_close, connection_send_qflow_busy_handler).   *)
ClosingIsBusy ==
    /\ Closing \subseteq {server_sending}
    /\ Live = Range(server_list) /\ Cardinality(Live) = Len(server_list)
    /\ \A o, q \in Live : con[o].conid = con[q].conid => o = q

(* The client has a SOCKS connection or the reconnect timer is running, not *)
(* both, and the gateway's client has a stream just when SOCKS is up.       *)
ReconnectsAlways ==
    /\ "udpgw" \in options => have_socks = (reconnect = Stopped)
    /\ have_server = (have_socks /\ socks_up)

(* The gateway's disconnect timer does not expire while the network works:  *)
(* a keep-alive always comes before (UDPGW_KEEPALIVE_TIME,                  *)
(* CLIENT_DISCONNECT_TIMEOUT).                                              *)
KeptAlive == client /\ have_server /\ ~stalled => silence < CLIENT_DISCONNECT_TIMEOUT
=============================================================================
