---------------------------- MODULE SocksClient ----------------------------
(***************************************************************************)
(* BSocksClient.c: the SOCKS5 handshake over a BConnection, and the        *)
(* connection that the user gets when it is up.  Its user frees it when it *)
(* reports an error, within the handler, and may free it at any other      *)
(* time (tun2socks.c, SocksUdpGwClient.c).                                 *)
(*                                                                         *)
(* The server's stream is its answers, of the lengths that the protocol    *)
(* gives them, followed by data; the contents that only decide between     *)
(* going on and failing are chosen when the client looks at them.          *)
(***************************************************************************)
EXTENDS BConnection

CONSTANTS
    Options,    \* [methods : 1..2, ulen, plen : Nat, addr : {6, 18}]
    Servers,    \* [method : {"none", "password", "other"}, addr : {6, 18, 0}]
    DATA        \* bytes of data that each side sends at most

ASSUME OptionsAssumption ==
    /\ Options \subseteq [methods : 1..2, ulen : Nat, plen : Nat, addr : {6, 18}]
    /\ Servers \subseteq [method : {"none", "password", "other"}, addr : {0, 6, 18}]
    /\ DATA \in Nat

HELLO == 2          \* sizeof(struct socks_server_hello)
PASSWORD_REPLY == 2
HEADER == 4         \* sizeof(struct socks_request_header), socks_reply_header
IPV6 == 18          \* sizeof(struct socks_addr_ipv6); ipv4 has 6

VARIABLES
    opts, server,   \* what this client was given, how its server answers
    state,          \* o->state, or "none" and "freed"
    buffer,         \* bytes allocated at o->buffer
    input,          \* the sender's packet interface, states as for send
    in_len, in_used,    \* PacketStreamSender's packet; in_len -1 for none
    recv_off, control_len, recv_total,  \* control.recv_dest, recv_len, recv_total
    connect,        \* the kernel's connection attempt
    connector,      \* "off", "waiting" (have_bfd), "job", "connected"
    connector_fd,   \* connector->fd is not -1
    closes,         \* calls of close() on the socket
    reported,       \* the last event given to the user
    sent, got       \* bytes of data that the user sent and received

controlVars == <<buffer, input, in_len, in_used, recv_off, control_len, recv_total>>
connectorVars == <<connect, connector, connector_fd>>
given == <<opts, server>>
userVars == <<sent, got>>
upper == <<controlVars, connectorVars, given, userVars, state, closes, reported>>
vars == <<conVars, sockVars, upper>>

offersPassword == opts.methods = 2
usesPassword == server.method = "password"

(* The lengths of the two streams up to the first byte of data.             *)
helloLen == 2 + opts.methods
passwordLen == 3 + opts.ulen + opts.plen
requestLen == HEADER + opts.addr
outLen == helloLen + (IF usesPassword THEN passwordLen ELSE 0) + requestLen
inLen == HELLO + (IF usesPassword THEN PASSWORD_REPLY ELSE 0) + HEADER + server.addr

Init ==
    /\ ConInit
    /\ opts \in Options /\ server \in Servers
    /\ state = "none" /\ buffer = 0
    /\ input = "off" /\ in_len = -1 /\ in_used = 0
    /\ recv_off = 0 /\ control_len = 0 /\ recv_total = 0
    /\ connect = "none" /\ connector = "off" /\ connector_fd = FALSE
    /\ closes = 0 /\ reported = "none" /\ sent = 0 /\ got = 0

(* What the connection's steps leave to this module.                        *)
others == UNCHANGED upper

jobs == conJobs \/ input \in {"op", "done"} \/ connector = "job"
-----------------------------------------------------------------------------
(* BSocksClient_Free when closed calls of close() are due.                  *)
freed(closed) ==
    /\ BConnection_Free
    /\ state' = "freed" /\ buffer' = 0
    /\ input' = "off" /\ in_len' = -1 /\ in_used' = 0
    /\ recv_off' = 0 /\ control_len' = 0 /\ recv_total' = 0
    /\ connector' = "off" /\ connector_fd' = FALSE
    /\ closes' = closes + closed
    /\ UNCHANGED <<sockVars, connect, given, userVars>>

BSocksClient_Free ==
    freed((IF state # "CONNECTING" THEN 1 ELSE 0) + (IF connector_fd THEN 1 ELSE 0))

(* The user frees the client inside its handler for an error.               *)
report_error == BSocksClient_Free /\ reported' = "ERROR"

(* connection_handler for BCONNECTION_EVENT_RECVCLOSED.                     *)
connection_closed ==
    BSocksClient_Free /\ reported' = IF state = "UP" THEN "ERROR_CLOSED" ELSE "ERROR"

(* BSocksClient_Init, with BConnector_Init.                                 *)
BSocksClient_Init ==
    /\ state = "none"
    /\ state' = "CONNECTING" /\ connector_fd' = TRUE
    /\ \/ connector' = "waiting" /\ connect' = "trying"
       \/ connector' = "job" /\ connect' = "ok"
    /\ UNCHANGED <<conVars, sockVars, controlVars, given, userVars, closes, reported>>

(* BConnector_Init fails and releases what it had.                          *)
BSocksClient_Init_fails ==
    /\ state = "none"
    /\ state' = "freed"
    /\ closes' \in {closes, closes + 1} /\ connect' = IF closes' = closes THEN "none" ELSE "failed"
    /\ UNCHANGED <<conVars, sockVars, controlVars, connector, connector_fd, given, userVars, reported>>

(* PacketPassInterface_Sender_Send of n bytes at o->buffer, which           *)
(* reserve_buffer has just resized.                                         *)
send_message(n) ==
    /\ buffer' = n
    /\ input' = "op" /\ in_len' = n /\ in_used' = 0

(* Mutant: the connector keeps its file descriptor.                         *)
connector_handler_keeps(is_error) ==
    \/ is_error /\ report_error
    \/ ~is_error /\ freed(1) /\ reported' = "ERROR"
    \/ /\ ~is_error
       /\ BConnection_Init
       /\ connector' = "connected" /\ connector_fd' = TRUE
       /\ send_message(helloLen)
       /\ state' = "SENDING_HELLO"
       /\ UNCHANGED <<sockVars, connect, recv_off, control_len, recv_total, given, userVars, closes, reported>>

(* connector_handler.  BConnection_Init takes the file descriptor; if it    *)
(* fails, or the hello cannot be allocated, the connection is closed first  *)
(* and the error reported with o->state still CONNECTING.                   *)
connector_handler(is_error) ==
    \/ is_error /\ report_error
    \/ ~is_error /\ freed(1) /\ reported' = "ERROR"
    \/ /\ ~is_error
       /\ BConnection_Init
       /\ connector' = "connected" /\ connector_fd' = FALSE
       /\ send_message(helloLen)
       /\ state' = "SENDING_HELLO"
       /\ UNCHANGED <<sockVars, connect, recv_off, control_len, recv_total, given, userVars, closes, reported>>

connector_fd_handler ==
    /\ connector = "waiting" /\ connect # "trying"
    /\ connector_handler(connect = "failed")

connector_job_handler == connector = "job" /\ connector_handler(FALSE)
-----------------------------------------------------------------------------
(* The packet sender on the connection's stream.                            *)

(* input_handler_send: the whole packet goes to the stream interface.       *)
input_handler_send ==
    /\ input = "op"
    /\ input' = "busy"
    /\ send' = "op" /\ send_len' = in_len - in_used
    /\ UNCHANGED <<recvIf, reactorVars, sockVars, buffer, in_len, in_used, recv_off, control_len, recv_total,
                   connectorVars, given, userVars, state, closes, reported>>

(* Mutant: a partial write counts as the whole packet.                      *)
output_handler_done_once ==
    /\ send = "done" /\ state # "UP"
    /\ in_used' = in_used + send_len
    /\ send' = "idle" /\ send_len' = 0 /\ input' = "done" /\ in_len' = -1
    /\ UNCHANGED <<recvIf, reactorVars, sockVars, buffer, recv_off, control_len, recv_total,
                   connectorVars, given, userVars, state, closes, reported>>

(* output_handler_done: the rest of the packet, or the packet is done.      *)
output_handler_done ==
    /\ send = "done" /\ state # "UP"
    /\ in_used' = in_used + send_len
    /\ \/ /\ in_used' < in_len
          /\ send' = "op" /\ send_len' = in_len - in_used'
          /\ UNCHANGED <<input, in_len>>
       \/ /\ in_used' >= in_len
          /\ send' = "idle" /\ send_len' = 0 /\ input' = "done" /\ in_len' = -1
    /\ UNCHANGED <<recvIf, reactorVars, sockVars, buffer, recv_off, control_len, recv_total,
                   connectorVars, given, userVars, state, closes, reported>>

(* start_receive of n bytes at offset off of the buffer.                    *)
start_receive(off, n) ==
    /\ recv_off' = off /\ control_len' = 0 /\ recv_total' = n
    /\ recv' = "op" /\ recv_len' = n

(* send_handler_done: a message is out; the buffer is made to fit the       *)
(* answer, which is awaited.                                                *)
send_handler_done ==
    /\ input = "done"
    /\ \/ report_error
       \/ /\ CASE state = "SENDING_HELLO" ->
                     buffer' = HELLO /\ start_receive(0, HELLO) /\ state' = "SENT_HELLO"
               [] state = "SENDING_PASSWORD" ->
                     buffer' = PASSWORD_REPLY /\ start_receive(0, PASSWORD_REPLY) /\ state' = "SENT_PASSWORD"
               [] state = "SENDING_REQUEST" ->
                     buffer' = HEADER + IPV6 /\ start_receive(0, HEADER) /\ state' = "SENT_REQUEST"
          /\ input' = "idle"
          /\ UNCHANGED <<sendIf, reactorVars, sockVars, in_len, in_used, connectorVars, given, userVars, closes, reported>>

(* recv_handler_done: the answer is not complete yet.                       *)
recv_handler_done_part ==
    /\ recv = "done" /\ state # "UP" /\ control_len + recv_len < recv_total
    /\ control_len' = control_len + recv_len
    /\ recv' = "op" /\ recv_len' = recv_total - control_len'
    /\ UNCHANGED <<sendIf, reactorVars, sockVars, buffer, input, in_len, in_used, recv_off, recv_total,
                   connectorVars, given, userVars, state, closes, reported>>

(* The answer is complete and makes the client send a message.              *)
answered(next, n) ==
    /\ state' = next
    /\ send_message(n)
    /\ recv' = "idle" /\ recv_len' = 0 /\ control_len' = recv_total
    /\ UNCHANGED <<sendIf, reactorVars, sockVars, recv_off, recv_total, connectorVars, given, userVars, closes, reported>>

complete == recv = "done" /\ state # "UP" /\ control_len + recv_len >= recv_total

auth_finished == answered("SENDING_REQUEST", requestLen)

(* The server's hello: the method must have been offered, and a password    *)
(* have a length that fits its field.                                       *)
recv_hello ==
    /\ complete /\ state = "SENT_HELLO"
    /\ \/ report_error
       \/ server.method = "none" /\ auth_finished
       \/ /\ usesPassword /\ offersPassword
          /\ opts.ulen \in 1..255 /\ opts.plen \in 1..255
          /\ answered("SENDING_PASSWORD", passwordLen)

recv_password_reply ==
    /\ complete /\ state = "SENT_PASSWORD"
    /\ report_error \/ auth_finished

(* The reply's header says how long its address is.                         *)
recv_reply_header ==
    /\ complete /\ state = "SENT_REQUEST"
    /\ \/ report_error
       \/ /\ server.addr # 0
          /\ start_receive(HEADER, server.addr) /\ state' = "RECEIVED_REPLY_HEADER"
          /\ UNCHANGED <<sendIf, reactorVars, sockVars, buffer, input, in_len, in_used, connectorVars, given, userVars,
                         closes, reported>>

(* The reply is complete: the buffer and the control I/O are freed, the     *)
(* interfaces initialized for the user, and the user told.                  *)
recv_reply_rest ==
    /\ complete /\ state = "RECEIVED_REPLY_HEADER"
    /\ buffer' = 0
    /\ input' = "off" /\ in_len' = -1 /\ in_used' = 0
    /\ recv_off' = 0 /\ control_len' = 0 /\ recv_total' = 0
    /\ reinit_io
    /\ state' = "UP" /\ reported' = "UP"
    /\ UNCHANGED <<sockVars, connectorVars, given, userVars, closes>>
-----------------------------------------------------------------------------
(* The user of a client that is up (tun2socks.c:2014-2090): at most one     *)
(* send and one receive at a time, and the client may be freed.             *)
user_sends(n) ==
    /\ state = "UP" /\ send = "idle"
    /\ sent + n <= DATA
    /\ send' = "op" /\ send_len' = n
    /\ UNCHANGED <<recvIf, reactorVars, sockVars, controlVars, connectorVars, given, userVars, state, closes, reported>>

user_send_done ==
    /\ state = "UP" /\ send = "done"
    /\ sent' = sent + send_len
    /\ send' = "idle" /\ send_len' = 0
    /\ UNCHANGED <<recvIf, reactorVars, sockVars, controlVars, connectorVars, given, got, state, closes, reported>>

user_receives(n) ==
    /\ state = "UP" /\ recv = "idle"
    /\ recv' = "op" /\ recv_len' = n
    /\ UNCHANGED <<sendIf, reactorVars, sockVars, controlVars, connectorVars, given, userVars, state, closes, reported>>

user_recv_done ==
    /\ state = "UP" /\ recv = "done"
    /\ got' = got + recv_len
    /\ recv' = "idle" /\ recv_len' = 0
    /\ UNCHANGED <<sendIf, reactorVars, sockVars, controlVars, connectorVars, given, sent, state, closes, reported>>

user_frees ==
    /\ state \notin {"none", "freed"}
    /\ BSocksClient_Free /\ reported' = reported

(* The server and the network.                                              *)
connect_ends ==
    /\ connect = "trying"
    /\ connect' \in {"ok", "failed"}
    /\ UNCHANGED <<conVars, sockVars, controlVars, connector, connector_fd, given, userVars,
                   state, closes, reported>>

network(A) == connect = "ok" /\ A /\ UNCHANGED conVars /\ others

server_sends(n) == received + inq + n <= inLen + DATA /\ network(peer_sends(n))
server_reads == network(peer_reads)
server_closes == network(peer_closes)
server_resets == network(peer_resets)
-----------------------------------------------------------------------------
Job ==
    \/ connector_job_handler
    \/ input_handler_send \/ send_operation(others, report_error)
    \/ output_handler_done \/ send_handler_done
    \/ recv_operation(others, report_error, connection_closed)
    \/ connection_recv_job_handler(others, report_error, connection_closed)
    \/ recv_handler_done_part \/ recv_hello \/ recv_password_reply
    \/ recv_reply_header \/ recv_reply_rest
    \/ user_send_done \/ user_recv_done

(* The reactor calls a handler when no job is pending.                      *)
Dispatch ==
    /\ ~jobs
    /\ \/ connector_fd_handler
       \/ connection_fd_handler(others, report_error, connection_closed)
       \/ no_events /\ others
       \/ wait_for_events /\ others

User ==
    \/ BSocksClient_Init \/ BSocksClient_Init_fails \/ user_frees
    \/ \E n \in 1..DATA : user_sends(n) \/ user_receives(n)

Network ==
    \/ connect_ends \/ server_reads \/ server_closes \/ server_resets
    \/ \E n \in 1..(inLen + DATA) : server_sends(n)

Next == Job \/ Dispatch \/ User \/ Network

Spec == Init /\ [][Next]_vars

(* The reactor runs its jobs and handlers, and the server reads what it is  *)
(* sent.                                                                    *)
FairSpec == Spec /\ WF_vars(Job) /\ WF_vars(Dispatch) /\ WF_vars(server_reads)
-----------------------------------------------------------------------------
TypeOK ==
    /\ ConTypeOK
    /\ opts \in Options /\ server \in Servers
    /\ state \in {"none", "CONNECTING", "SENDING_HELLO", "SENT_HELLO", "SENDING_PASSWORD",
                  "SENT_PASSWORD", "SENDING_REQUEST", "SENT_REQUEST", "RECEIVED_REPLY_HEADER",
                  "UP", "freed"}
    /\ buffer \in Nat /\ input \in ifStates /\ in_len \in Nat \cup {-1} /\ in_used \in Nat
    /\ recv_off \in Nat /\ control_len \in Nat /\ recv_total \in Nat
    /\ connect \in {"none", "trying", "ok", "failed"}
    /\ connector \in {"off", "waiting", "job", "connected"} /\ connector_fd \in BOOLEAN
    /\ closes \in Nat /\ reported \in {"none", "UP", "ERROR", "ERROR_CLOSED"}
    /\ sent \in Nat /\ got \in Nat

(* No wake-up is lost and none is spurious: the reactor is asked for an    *)
(* event exactly when the connection holds data for that direction, unless  *)
(* a job will look at it; on a descriptor that is no longer monitored       *)
(* nothing waits (BConnection_unix.c:246-253, 288-295, 334-382; the ASSERTs *)
(* of lines 354 and 359).                                                   *)
WakesUp ==
    IF is_hupd
    THEN send # "busy" /\ (recv = "busy" => recv_job)
    ELSE /\ "WRITE" \in wait_events <=> send = "busy"
         /\ "READ" \in wait_events <=> recv = "busy" /\ ~recv_job

(* The boundary between handshake and data is exact in both directions,     *)
(* however reads and writes were cut: the user gets every byte after the    *)
(* reply and none of it, and the server's data starts after the request     *)
(* (BSocksClient.c:236-247, 371-390, PacketStreamSender.c:36-77).           *)
StreamsExact ==
    state = "UP" =>
        /\ received = inLen + got + (IF recv = "done" THEN recv_len ELSE 0)
        /\ written = outLen + sent + (IF send = "done" THEN send_len ELSE 0)

(* The one buffer is never resized under the sender or the receiver, and    *)
(* what they are given fits in it (BSocksClient.c:115-149, 402-467).        *)
BufferFits ==
    /\ input \in {"op", "busy"} => in_len <= buffer /\ recv = "idle" /\ recv_job = FALSE
    /\ state # "UP" /\ recv \in {"op", "busy", "done"} =>
          recv_off + recv_total <= buffer /\ control_len + recv_len <= recv_total /\ input = "idle"

(* The socket is closed once, by whoever owns it when the client is freed   *)
(* (BSocksClient.c:214-219, 573-598, BConnection_unix.c:873-880, 920-925).  *)
ClosedOnce ==
    /\ closes <= 1
    /\ state = "freed" => (closes = 1 <=> connect # "none")

(* A handshake ends once the server has closed or the connection was reset: *)
(* the client goes up or is reported dead (BSocksClient.c:222-234).         *)
HandshakeEnds == (fin \/ rst) ~> (state \in {"UP", "freed"})

(* A user that receives hears of the end, whether it comes as data, a close *)
(* or an error, and whatever the send at that moment (tun2socks.c:2053).    *)
EndIsHeard ==
    (state = "UP" /\ recv # "idle" /\ (fin \/ rst)) ~> (state = "freed" \/ recv = "idle")

=============================================================================
