---------------------------- MODULE UdpGwServer ----------------------------
(***************************************************************************)
(* The UDP gateway (udpgw.c) as one client sees it.  For each conid that   *)
(* the client uses there is a connection with a UDP socket of its own; a   *)
(* packet for a new remote address, or one with REBIND, closes the old     *)
(* socket and opens a new one.  What comes in on a socket is queued for    *)
(* the client.  A connection whose packet is being sent cannot be freed    *)
(* before it has gone: it is closing until then.                           *)
(***************************************************************************)
EXTENDS LinkedList1, FiniteSetsExt

CONSTANTS
    max_connections_for_client,
    CLIENT_BUFFER_SIZE,         \* packets of full size queued per connection
    MaxClientQueue,             \* bound: packets of any size
    CLIENT_DISCONNECT_TIMEOUT   \* ticks without a packet

ASSUME ServerConstants ==
    /\ max_connections_for_client \in Nat \ {0}
    /\ CLIENT_BUFFER_SIZE \in Nat \ {0} /\ MaxClientQueue \in Nat
    /\ CLIENT_BUFFER_SIZE <= MaxClientQueue
    /\ CLIENT_DISCONNECT_TIMEOUT \in Nat \ {0}

(* Memory for struct connection: those in the list, one that is closing,    *)
(* and one more, so that a second closing one would be seen.                *)
Objects == 1 .. max_connections_for_client + 2
NoCon == 0
FreeObject == [state |-> "free"]

VARIABLES
    client,             \* the client is connected
    con,                \* the connections
    server_list,        \* connections_list: live ones, least recently used first
    server_sending,     \* the connection whose packet send_queue is sending
    silence             \* ticks on disconnect_timer

serverVars == <<client, con, server_list, server_sending, silence>>

Live == {o \in Objects : con[o].state = "live"}
Closing == {o \in Objects : con[o].state = "closing"}
find_connection(conid) == {o \in Live : con[o].conid = conid}

ServerInit ==
    /\ client = FALSE
    /\ con = [o \in Objects |-> FreeObject]
    /\ server_list = <<>> /\ server_sending = NoCon /\ silence = 0

(* listener_handler: the client starts with no connections.                 *)
listener_handler ==
    /\ client' = TRUE
    /\ con' = [o \in Objects |-> FreeObject]
    /\ server_list' = <<>> /\ server_sending' = NoCon /\ silence' = 0

(* client_free, from the disconnect timer, an error of the stream or of the *)
(* decoder: all connections go, the closing ones too (the queue is in       *)
(* PrepareFree).                                                            *)
client_free ==
    /\ client' = FALSE
    /\ con' = [o \in Objects |-> FreeObject]
    /\ server_list' = <<>> /\ server_sending' = NoCon /\ silence' = 0

(* connection_close: freed, or closing while its packet is being sent.      *)
(* first_job and the socket go in both cases.                               *)
connection_close(cons, o) ==
    [cons EXCEPT ![o] = IF server_sending = o THEN [@ EXCEPT !.state = "closing"] ELSE FreeObject]

(* connection_init and its first job: a new socket, which sends the packet. *)
(* users is not in the code: the applications whose packets the socket has  *)
(* sent.                                                                    *)
connection(p) ==
    [state |-> "live", conid |-> p.conid, orig_addr |-> p.remote,
     users |-> {p.local}, out |-> <<>>]

(* Mutant: REBIND is ignored.                                               *)
closeOld_ignores(p, o) == con[o].orig_addr # p.remote

(* An existing connection is closed for REBIND and for another address.     *)
closeOld(p, o) == "REBIND" \in p.flags \/ con[o].orig_addr # p.remote

(* The connections that client_recv_if_handler_send closes before it makes  *)
(* one for p: the old one with this conid or, if there is none and the      *)
(* client has as many as it may, the least recently used one.               *)
toClose(p) ==
    LET old == find_connection(p.conid)
    IN  IF old = {} /\ Len(server_list) = max_connections_for_client
        THEN {Head(server_list)} ELSE old

(* connection_init, which makes a connection for p or fails.                *)
connection_init_for(p, cons, list) ==
    \/ con' = cons /\ server_list' = list
    \/ LET new == Min({o \in Objects : cons[o].state = "free"})
       IN  /\ con' = [cons EXCEPT ![new] = connection(p)]
           /\ server_list' = LinkedList1_Append(list, new)

(* client_recv_if_handler_send, for a packet that opens a connection: the   *)
(* old one is closed first, and stays so if connection_init fails.          *)
openConnection(p) ==
    \/ toClose(p) = {} /\ connection_init_for(p, con, server_list)
    \/ \E o \in toClose(p) :
          connection_init_for(p, connection_close(con, o), LinkedList1_Remove(server_list, o))

(* ... and for an existing one, connection_send_to_udp: the packet goes out *)
(* or finds no room ("out of UDP buffer").                                  *)
connection_send_to_udp(p, o) ==
    /\ server_list' = moveToEnd(server_list, o)
    /\ con' = [con EXCEPT ![o].users = @ \union {p.local}] \/ UNCHANGED con

(* Which of the server's flows is sent next: any with a packet.             *)
server_schedule(was, cons) ==
    IF was # NoCon THEN {was}
    ELSE LET queued == {o \in Objects : cons[o].state # "free" /\ cons[o].out # <<>>}
         IN  IF queued = {} THEN {NoCon} ELSE queued

(* connection_udp_recv_if_handler_send and connection_send_to_client: what  *)
(* comes in on a socket is queued with the conid and the original address,  *)
(* or dropped ("out of client buffer").  The socket is not connected: r is  *)
(* marked with the applications that have used the socket.                  *)
connection_udp_recv_if_handler_send(o) ==
    /\ o \in Live
    /\ server_list' = moveToEnd(server_list, o)
    /\ \/ /\ Len(con[o].out) < MaxClientQueue
          /\ con' = [con EXCEPT ![o].out = Append(@,
                        [conid |-> con[o].conid, remote |-> con[o].orig_addr, users |-> con[o].users])]
       \/ Len(con[o].out) >= CLIENT_BUFFER_SIZE /\ UNCHANGED con
    /\ server_sending' \in server_schedule(server_sending, con')
    /\ UNCHANGED <<client, silence>>

(* connection_dgram_handler_event: an error of the socket.                  *)
connection_dgram_handler_event(o) ==
    /\ o \in Live
    /\ con' = connection_close(con, o)
    /\ server_list' = LinkedList1_Remove(server_list, o)
    /\ UNCHANGED <<client, server_sending, silence>>

(* Mutant: the busy handler is not set, or does nothing.                    *)
send_done_keeps ==
    /\ server_sending # NoCon
    /\ con' = [con EXCEPT ![server_sending].out = Tail(@)]
    /\ server_sending' \in server_schedule(NoCon, con')
    /\ UNCHANGED <<client, server_list, silence>>

(* The packet of the sending flow has gone: output_handler_done of          *)
(* send_queue; connection_send_qflow_busy_handler frees a closing one, with *)
(* the packets that it still has queued.                                    *)
send_done ==
    /\ server_sending # NoCon
    /\ con' = [con EXCEPT ![server_sending] =
                 IF @.state = "closing" THEN FreeObject
                 ELSE [@ EXCEPT !.out = Tail(con[server_sending].out)]]
    /\ server_sending' \in server_schedule(NoCon, con')
    /\ UNCHANGED <<client, server_list, silence>>
=============================================================================
