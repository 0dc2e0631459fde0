----------------------------- MODULE TcpClient -----------------------------
(***************************************************************************)
(* One connection through tun2socks.c: a struct tcp_client between a lwIP  *)
(* pcb (the application on the device) and a BSocksClient (the SOCKS       *)
(* server).  Data is counted in bytes.  Everything runs on the reactor's   *)
(* thread, so a handler is one step, except for the lwIP callbacks that    *)
(* run SYNC_COMMIT: there the jobs that the callback caused are executed   *)
(* before it returns, and any of them may free the pcb or the client.      *)
(***************************************************************************)
EXTENDS Integers

CONSTANTS
    TCP_WND,        \* lwIP's receive window; also the size of client->buf
    TCP_SND_BUF,    \* lwIP's send buffer
    RECV_BUF_SIZE   \* CLIENT_SOCKS_RECV_BUF_SIZE

ASSUME SizesPositive ==
    TCP_WND \in Nat \ {0} /\ TCP_SND_BUF \in Nat \ {0} /\ RECV_BUF_SIZE \in Nat \ {0}

VARIABLES
    c,          \* the client with its pcb and its SOCKS connection
    callback,   \* the lwIP callback that is inside SYNC_COMMIT, or "none"
    pbuf,       \* bytes of the pbuf that client_recv_func holds
    ret,        \* what a callback just returned to lwIP, or "none"
    ended       \* ends that failed or were closed, and "teardown"

vars == <<c, callback, pbuf, ret, ended>>

Client ==
    [alloc : {"none", "live", "freed"},
     client_closed : BOOLEAN, socks_up : BOOLEAN, socks_closed : BOOLEAN,
     buf_used : 0..TCP_WND,
     socks_recv_buf_used : -1..RECV_BUF_SIZE, socks_recv_buf_sent : 0..RECV_BUF_SIZE,
     socks_recv_waiting : BOOLEAN, socks_recv_tcp_pending : 0..TCP_SND_BUF,
     sending : 0..TCP_WND,      \* bytes given to the SOCKS send interface
     receiving : BOOLEAN,       \* the SOCKS receive interface is busy
     pcb : {"open", "closed", "aborted"},
     recv : BOOLEAN, sent : BOOLEAN, err : BOOLEAN,     \* callbacks installed
     rcv_wnd : 0..TCP_WND, unacked : 0..TCP_SND_BUF,    \* lwIP's accounts
     refused : BOOLEAN,                                 \* pcb->refused_data
     fin : BOOLEAN]                                     \* a FIN was received

TypeOK ==
    /\ c \in Client
    /\ callback \in {"none", "accept", "recv", "sent"}
    /\ pbuf \in 0..TCP_WND
    /\ ret \in {"none", "ERR_OK", "ERR_MEM", "ERR_ABRT"}
    /\ ended \subseteq {"client", "socks", "teardown"}

(* The pcb of a connection that lwIP is about to hand over.                 *)
Init ==
    /\ c = [alloc |-> "none", client_closed |-> FALSE, socks_up |-> FALSE,
            socks_closed |-> FALSE, buf_used |-> 0, socks_recv_buf_used |-> -1,
            socks_recv_buf_sent |-> 0, socks_recv_waiting |-> FALSE,
            socks_recv_tcp_pending |-> 0, sending |-> 0, receiving |-> FALSE,
            pcb |-> "open", recv |-> FALSE, sent |-> FALSE, err |-> FALSE,
            rcv_wnd |-> TCP_WND, unacked |-> 0, refused |-> FALSE, fin |-> FALSE]
    /\ callback = "none"
    /\ pbuf = 0
    /\ ret = "none"
    /\ ended = {}
-----------------------------------------------------------------------------
(* The functions that close an end or free the client, as functions of the  *)
(* client.                                                                  *)

client_dealloc(x) == [x EXCEPT !.alloc = "freed"]

(* Mutant: a receive in progress survives the SOCKS connection.             *)
socksFreed_receiving(x) ==
    [x EXCEPT !.socks_closed = TRUE, !.sending = 0,
              !.recv = IF x.socks_up /\ ~x.client_closed THEN FALSE ELSE @]

(* Freeing SOCKS, the part of client_free_socks before the decision.        *)
socksFreed(x) ==
    [x EXCEPT !.socks_closed = TRUE, !.sending = 0, !.receiving = FALSE,
              !.recv = IF x.socks_up /\ ~x.client_closed THEN FALSE ELSE @]

(* The pcb is gone: buffered data still goes to SOCKS if it can; otherwise  *)
(* SOCKS is freed too, and with both ends closed the client.                *)
client_handle_freed_client(x) ==
    LET y == [x EXCEPT !.client_closed = TRUE] IN
    IF y.buf_used > 0 /\ ~y.socks_closed THEN y
    ELSE client_dealloc(IF y.socks_closed THEN y ELSE socksFreed(y))

(* Mutant: the error callback is left installed.                            *)
withoutPcb_err(x, how) == [x EXCEPT !.recv = FALSE, !.sent = FALSE, !.pcb = how]

withoutPcb(x, how) == [x EXCEPT !.recv = FALSE, !.sent = FALSE, !.err = FALSE, !.pcb = how]

(* tcp_close, or tcp_abort when that fails.                                 *)
client_free_client(x) == client_handle_freed_client(withoutPcb(x, "closed"))

client_abort_client(x) == client_handle_freed_client(withoutPcb(x, "aborted"))

(* Mutant: unacknowledged data is not waited for.                           *)
client_free_socks_early(x) ==
    LET y == socksFreed(x) IN
    IF y.socks_up /\ y.socks_recv_buf_used >= 0 /\ ~y.client_closed THEN y
    ELSE IF y.client_closed THEN client_dealloc(y) ELSE client_free_client(y)

(* Data for the client that is still buffered or unacknowledged is waited   *)
(* for; otherwise the other end is closed as well.                          *)
client_free_socks(x) ==
    LET y == socksFreed(x) IN
    IF /\ y.socks_up /\ ~y.client_closed
       /\ y.socks_recv_buf_used >= 0 \/ y.socks_recv_tcp_pending > 0
    THEN y
    ELSE IF y.client_closed THEN client_dealloc(y) ELSE client_free_client(y)

client_murder(x) ==
    LET y == IF x.client_closed THEN x ELSE [withoutPcb(x, "aborted") EXCEPT !.client_closed = TRUE]
    IN  client_dealloc(IF y.socks_closed THEN y ELSE socksFreed(y))

(* Passing everything in the buffer to the SOCKS send interface.            *)
client_send_to_socks(x) == [x EXCEPT !.sending = x.buf_used]

client_socks_recv_initiate(x) == [x EXCEPT !.receiving = TRUE]

(* The end of client_socks_recv_send_out, n bytes having been queued.       *)
queued(x, n) ==
    LET y == [x EXCEPT !.socks_recv_buf_sent = @ + n, !.socks_recv_tcp_pending = @ + n,
                       !.unacked = @ + n] IN
    IF y.socks_recv_buf_sent < y.socks_recv_buf_used
    THEN IF y.socks_recv_tcp_pending = 0 THEN client_abort_client(y)
         ELSE [y EXCEPT !.socks_recv_waiting = TRUE]
    ELSE [y EXCEPT !.socks_recv_buf_used = -1]

(* client_socks_recv_send_out, as the set of its outcomes: tcp_write takes  *)
(* all that fits or, out of memory, nothing; any other failure of tcp_write *)
(* or tcp_output aborts the client.                                         *)
client_socks_recv_send_out(x) ==
    LET left == x.socks_recv_buf_used - x.socks_recv_buf_sent
        room == TCP_SND_BUF - x.unacked
    IN  {client_abort_client(x), queued(x, 0), queued(x, IF left < room THEN left ELSE room)}
-----------------------------------------------------------------------------
(* lwIP calls the client.                                                   *)
quiet == callback = "none" /\ c.pcb = "open"

(* DEAD_KILLED after SYNC_COMMIT: dead_client was killed, which happens     *)
(* exactly when client_closed is set.                                       *)
DEAD_KILLED == c.client_closed

(* listener_accept_func: BSocksClient_Init schedules the connection attempt *)
(* and SYNC_COMMIT runs it.  A failed malloc or init makes lwIP abort the   *)
(* pcb.                                                                     *)
listener_accept_func ==
    /\ quiet
    /\ c.alloc = "none"
    /\ c' = [c EXCEPT !.alloc = "live", !.recv = TRUE, !.err = TRUE]
    /\ callback' = "accept"
    /\ ret' = "none"
    /\ UNCHANGED <<pbuf, ended>>

listener_accept_fails ==
    /\ quiet
    /\ c.alloc = "none"
    /\ c' = [c EXCEPT !.pcb = "aborted"]
    /\ ret' = "ERR_MEM"
    /\ UNCHANGED <<callback, pbuf, ended>>

(* Mutant: the dead flag is not looked at after SYNC_COMMIT.                *)
callback_returns_ok ==
    /\ callback # "none"
    /\ callback' = "none"
    /\ ret' = "ERR_OK"
    /\ pbuf' = 0
    /\ UNCHANGED <<c, ended>>

(* SYNC_COMMIT is over and the callback returns.  client_recv_func frees    *)
(* its pbuf only when the client was not killed meanwhile.                  *)
callback_returns ==
    /\ callback # "none"
    /\ callback' = "none"
    /\ ret' = IF DEAD_KILLED THEN "ERR_ABRT" ELSE "ERR_OK"
    /\ pbuf' = IF DEAD_KILLED THEN pbuf ELSE 0
    /\ UNCHANGED <<c, ended>>

(* Mutant: data that arrives with SOCKS up is buffered but not submitted.   *)
client_recv_func_buffers(n) ==
    /\ quiet
    /\ c.alloc # "none" /\ ~c.fin /\ ~c.refused /\ c.recv
    /\ n \in 1..c.rcv_wnd
    /\ c' = [c EXCEPT !.rcv_wnd = @ - n, !.buf_used = @ + n]
    /\ ret' = "ERR_OK"
    /\ UNCHANGED <<callback, pbuf, ended>>

(* client_recv_func with n bytes.  Without a recv callback lwIP takes the   *)
(* data itself and opens the window again.                                  *)
client_recv_func(n) ==
    /\ quiet
    /\ c.alloc # "none" /\ ~c.fin /\ ~c.refused
    /\ n \in 1..c.rcv_wnd
    /\ LET x == [c EXCEPT !.rcv_wnd = @ - n, !.buf_used = @ + n] IN
       CASE ~c.recv ->
              c' = c /\ ret' = "none" /\ UNCHANGED <<callback, pbuf>>
         [] c.recv /\ n > TCP_WND - c.buf_used ->
              /\ c' = [c EXCEPT !.rcv_wnd = @ - n, !.refused = TRUE]
              /\ ret' = "ERR_MEM"
              /\ UNCHANGED <<callback, pbuf>>
         [] c.recv /\ n <= TCP_WND - c.buf_used /\ x.buf_used = n /\ c.socks_up ->
              /\ c' = client_send_to_socks(x)
              /\ callback' = "recv" /\ pbuf' = n /\ ret' = "none"
         [] OTHER ->
              c' = x /\ ret' = "ERR_OK" /\ UNCHANGED <<callback, pbuf>>
    /\ UNCHANGED ended

(* client_recv_func with a null pbuf, for a FIN.                            *)
client_recv_func_null ==
    /\ quiet
    /\ c.alloc # "none" /\ ~c.fin /\ ~c.refused
    /\ LET x == [c EXCEPT !.fin = TRUE] IN
       IF c.recv
       THEN c' = client_free_client(x) /\ ret' = "ERR_ABRT" /\ ended' = ended \cup {"client"}
       ELSE c' = x /\ ret' = "none" /\ UNCHANGED ended
    /\ UNCHANGED <<callback, pbuf>>

(* client_sent_func, once n bytes are acknowledged and c is x.              *)
continueQueuing(x) ==
    \E y \in client_socks_recv_send_out([x EXCEPT !.socks_recv_waiting = FALSE]) :
        \/ /\ y.client_closed
           /\ c' = y /\ ret' = "ERR_ABRT" /\ ended' = ended \cup {"client"}
           /\ UNCHANGED callback
        \/ /\ ~y.client_closed /\ y.socks_recv_buf_used = -1 /\ ~y.socks_closed
           /\ c' = client_socks_recv_initiate(y)
           /\ callback' = "sent" /\ ret' = "none"
           /\ UNCHANGED ended
        \/ /\ ~y.client_closed /\ (y.socks_recv_buf_used # -1 \/ y.socks_closed)
           /\ c' = y /\ ret' = "ERR_OK"
           /\ UNCHANGED <<callback, ended>>

client_sent_func(n) ==
    /\ quiet
    /\ c.sent
    /\ n \in 1..c.unacked
    /\ LET x == [c EXCEPT !.unacked = @ - n, !.socks_recv_tcp_pending = @ - n] IN
       \/ x.socks_recv_buf_used > 0 /\ continueQueuing(x)
       \/ /\ x.socks_recv_buf_used <= 0
          /\ IF x.socks_closed /\ x.socks_recv_tcp_pending = 0
             THEN c' = client_free_client(x) /\ ret' = "ERR_ABRT"
             ELSE c' = x /\ ret' = "ERR_OK"
          /\ UNCHANGED <<callback, ended>>
    /\ UNCHANGED pbuf

(* client_err_func: the peer reset, or a lwIP timer gave up; lwIP frees the *)
(* pcb.                                                                     *)
client_err_func ==
    /\ quiet
    /\ c.err
    /\ c' = client_handle_freed_client(withoutPcb(c, "aborted"))
    /\ ended' = ended \cup {"client"}
    /\ ret' = "none"
    /\ UNCHANGED <<callback, pbuf>>
-----------------------------------------------------------------------------
(* The SOCKS connection calls the client: from the event loop, or from a    *)
(* job that SYNC_COMMIT executes.                                           *)
socksAlive == c.alloc # "none" /\ ~c.socks_closed

(* The job at work when a lwIP callback is in SYNC_COMMIT: the connection   *)
(* attempt, the send it submitted, or the receive it initiated.             *)
sendJob == callback = "none" \/ (callback = "recv" /\ c.sending > 0)
recvJob == callback = "none" \/ (callback \in {"accept", "sent"} /\ c.receiving)
openJob == callback \in {"none", "accept"} /\ ~c.socks_up

socksStep(x) == c' = x /\ ret' = "none" /\ UNCHANGED <<callback, pbuf>>

(* BSOCKSCLIENT_EVENT_UP.                                                   *)
client_socks_up ==
    /\ socksAlive /\ openJob
    /\ LET x == [c EXCEPT !.socks_up = TRUE, !.socks_recv_buf_used = -1,
                          !.socks_recv_tcp_pending = 0, !.sent = ~c.client_closed]
           y == IF x.buf_used > 0 THEN client_send_to_socks(x) ELSE x
       IN  socksStep(IF y.client_closed THEN y ELSE client_socks_recv_initiate(y))
    /\ UNCHANGED ended

(* BSOCKSCLIENT_EVENT_ERROR.                                                *)
client_socks_error ==
    /\ socksAlive
    /\ sendJob \/ recvJob \/ openJob
    /\ socksStep(client_free_socks(c))
    /\ ended' = ended \cup {"socks"}

(* BSOCKSCLIENT_EVENT_ERROR_CLOSED, seen only by a receive in progress.     *)
client_socks_error_closed ==
    /\ socksAlive /\ c.socks_up
    /\ recvJob /\ c.receiving
    /\ socksStep(client_free_socks(c))
    /\ ended' = ended \cup {"socks"}

(* Mutant: sent data is not confirmed to lwIP.                              *)
client_socks_send_handler_done_unconfirmed(n) ==
    /\ sendJob
    /\ n \in 1..c.sending
    /\ LET x == [c EXCEPT !.buf_used = @ - n, !.sending = 0] IN
       socksStep(IF x.buf_used > 0 THEN client_send_to_socks(x)
                 ELSE IF x.client_closed THEN client_free_socks(x) ELSE x)
    /\ UNCHANGED ended

(* n bytes were sent: lwIP's window opens, and the rest is submitted.       *)
client_socks_send_handler_done(n) ==
    /\ sendJob
    /\ n \in 1..c.sending
    /\ LET x == [c EXCEPT !.buf_used = @ - n, !.sending = 0,
                          !.rcv_wnd = IF c.client_closed THEN @ ELSE @ + n] IN
       socksStep(IF x.buf_used > 0 THEN client_send_to_socks(x)
                 ELSE IF x.client_closed THEN client_free_socks(x) ELSE x)
    /\ UNCHANGED ended

(* n bytes were received: they are queued for the client, and when all of   *)
(* them were, the next receive starts.                                      *)
client_socks_recv_handler_done(n) ==
    /\ recvJob /\ c.receiving
    /\ n \in 1..RECV_BUF_SIZE
    /\ LET x == [c EXCEPT !.receiving = FALSE] IN
       \/ c.client_closed /\ socksStep(x) /\ UNCHANGED ended
       \/ /\ ~c.client_closed
          /\ \E y \in client_socks_recv_send_out(
                        [x EXCEPT !.socks_recv_buf_used = n, !.socks_recv_buf_sent = 0,
                                  !.socks_recv_waiting = FALSE]) :
               /\ socksStep(IF ~y.client_closed /\ y.socks_recv_buf_used = -1
                            THEN client_socks_recv_initiate(y) ELSE y)
               /\ ended' = IF y.client_closed THEN ended \cup {"client"} ELSE ended

(* run() frees every client that is left when the event loop has ended.     *)
teardown ==
    /\ callback = "none"
    /\ c.alloc = "live"
    /\ socksStep(client_murder(c))
    /\ ended' = ended \cup {"teardown"}
-----------------------------------------------------------------------------
Lwip ==
    \/ listener_accept_func
    \/ listener_accept_fails
    \/ callback_returns
    \/ \E n \in 1..TCP_WND : client_recv_func(n)
    \/ client_recv_func_null
    \/ \E n \in 1..TCP_SND_BUF : client_sent_func(n)
    \/ client_err_func

Socks ==
    \/ client_socks_up
    \/ client_socks_error
    \/ client_socks_error_closed
    \/ \E n \in 1..TCP_WND : client_socks_send_handler_done(n)
    \/ \E n \in 1..RECV_BUF_SIZE : client_socks_recv_handler_done(n)

Next == Lwip \/ Socks \/ teardown

Spec == Init /\ [][Next]_vars

(* A callback returns.  An attempt to connect to the SOCKS server, and a    *)
(* send to it in progress, end in success or in an error.  Data sent to the *)
(* client is acknowledged, or lwIP's retransmission timer gives the pcb up. *)
(* Nothing is assumed of an idle end.                                       *)
connecting == ~c.socks_up /\ (client_socks_up \/ client_socks_error)

sendingEnds ==
    /\ c.sending > 0
    /\ client_socks_error \/ \E n \in 1..TCP_WND : client_socks_send_handler_done(n)

acknowledged ==
    /\ c.unacked > 0
    /\ client_err_func \/ \E n \in 1..TCP_SND_BUF : client_sent_func(n)

FairSpec ==
    /\ Spec
    /\ WF_vars(callback_returns)
    /\ WF_vars(connecting)
    /\ WF_vars(sendingEnds)
    /\ WF_vars(acknowledged)
-----------------------------------------------------------------------------
(* lwIP's window and the client's buffer are the same space: data that lwIP *)
(* accepts always fits, and "no buffer for data !?!" is never reached       *)
(* (tun2socks.c:1928, 2038).                                                *)
WindowIsBuffer ==
    c.pcb = "open" => c.rcv_wnd + c.buf_used = TCP_WND /\ ~c.refused

(* The bytes the client counts as pending are the bytes lwIP has not seen   *)
(* acknowledged, so "sent" callbacks never report more than is pending      *)
(* (tun2socks.c:2161).                                                      *)
PendingIsUnacked ==
    c.pcb = "open" /\ c.socks_up => c.socks_recv_tcp_pending = c.unacked

(* Neither direction ever waits for nothing: buffered client data is with   *)
(* the SOCKS send interface; data for the client that did not fit waits for *)
(* an acknowledgement that is still to come; and otherwise a receive is in  *)
(* progress (tun2socks.c:2041-2044, 2087-2089, 2135-2145, 2180-2183).       *)
NeverStalls ==
    c.alloc = "live" /\ c.socks_up =>
        /\ ~c.socks_closed => c.sending = c.buf_used \/ (c.sending > 0 /\ c.sending < c.buf_used)
        /\ ~c.client_closed /\ c.socks_recv_buf_used # -1 =>
              /\ c.socks_recv_waiting /\ c.sent
              /\ c.socks_recv_buf_sent < c.socks_recv_buf_used
              /\ c.socks_recv_tcp_pending > 0
        /\ ~c.client_closed /\ ~c.socks_closed /\ c.socks_recv_buf_used = -1 => c.receiving

(* lwIP holds callbacks only into a client that exists and has not closed   *)
(* its pcb, and a client with SOCKS down has no recv callback               *)
(* (tun2socks.c:1790-1792, 1827, 1939).                                     *)
CallbacksAreLive ==
    /\ c.recv \/ c.sent \/ c.err => c.alloc = "live" /\ ~c.client_closed /\ c.pcb = "open"
    /\ c.recv => ~c.socks_closed

(* A client with one end closed has data to deliver to the other, and with  *)
(* both closed it is gone (tun2socks.c:1774-1781, 1838-1845).               *)
NoZombie ==
    c.alloc = "live" =>
        /\ ~(c.client_closed /\ c.socks_closed)
        /\ c.client_closed => c.buf_used > 0
        /\ c.socks_closed => c.socks_up /\ (c.socks_recv_buf_used > 0 \/ c.socks_recv_tcp_pending > 0)

(* A callback that returns ERR_OK leaves its pcb to lwIP, and one that gave *)
(* the pcb up says so; lwIP would go on using a freed pcb otherwise         *)
(* (tun2socks.c:1744-1751, 1944-1955, 2175, 2187-2195, 2201-2202).          *)
ReturnIsTrue ==
    /\ ret = "ERR_OK" => c.pcb = "open"
    /\ ret = "ERR_ABRT" => c.pcb # "open"

(* Data is dropped only when the end it was meant for has failed, or at     *)
(* teardown: a client is freed with nothing buffered for a healthy end      *)
(* (tun2socks.c:1774, 1838, 2045-2049, 2199).                               *)
NoSilentLoss ==
    c.alloc = "freed" /\ "teardown" \notin ended =>
        /\ "socks" \notin ended => c.buf_used = 0
        /\ "client" \notin ended /\ c.socks_up =>
              c.socks_recv_buf_used = -1 /\ c.socks_recv_tcp_pending = 0

(* Nothing happens to a client after it is freed: no second free and no     *)
(* late handler (tun2socks.c:1881-1899).                                    *)
FreedIsFinal == [][c.alloc = "freed" => c' = c]_vars

(* The client as Relay sees it.  On their way to the application are the    *)
(* bytes received and not yet queued, or queued and not yet acknowledged.   *)
relayUp(x) == IF x.alloc = "live" /\ ~x.socks_closed THEN x.buf_used ELSE 0

relayDown(x) ==
    IF x.alloc = "live" /\ x.socks_up /\ ~x.client_closed
    THEN x.socks_recv_tcp_pending
         + (IF x.socks_recv_buf_used = -1 THEN 0
            ELSE x.socks_recv_buf_used - x.socks_recv_buf_sent)
    ELSE 0

relaySocks(x) ==
    IF x.socks_closed \/ (x.alloc = "none" /\ x.pcb # "open") THEN "gone" ELSE "open"

R == INSTANCE Relay WITH
        UP_ROOM <- TCP_WND, DOWN_ROOM <- TCP_SND_BUF + RECV_BUF_SIZE,
        up <- relayUp(c), down <- relayDown(c), app <- c.pcb, socks <- relaySocks(c)

(* The client is a relay: of all its buffers, flags, callbacks and nested   *)
(* jobs, what remains visible at its two ends is the behaviour of Relay,    *)
(* with its drained halves closed in the end (tun2socks.c:1760-2202).       *)
RelaySpec == R!Spec

(* The safety part of RelaySpec.                                            *)
RelaySafety == R!Safety
-----------------------------------------------------------------------------
(* tcp_in.c:1354-1356, "Since this pbuf now is the responsibility of the    *)
(* application": a callback that has returned holds no pbuf.                *)
PbufFreed == callback = "none" => pbuf = 0
=============================================================================
