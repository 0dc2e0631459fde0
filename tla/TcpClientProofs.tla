-------------------------- MODULE TcpClientProofs --------------------------
(***************************************************************************)
(* The safety properties of TcpClient and its refinement of Relay, for     *)
(* every size of the buffers.                                              *)
(* CInv is the inductive invariant of the client record; the functions     *)
(* that close an end re-establish it (the lemmas), and every handler       *)
(* preserves it.                                                           *)
(***************************************************************************)
EXTENDS TcpClient, TLAPS

Live(x) == x.alloc = "live"

(* A client that was not accepted is as Init leaves it.                     *)
Fresh(x) ==
    /\ ~x.client_closed /\ ~x.socks_up /\ ~x.socks_closed
    /\ ~x.recv /\ ~x.sent /\ ~x.err /\ x.buf_used = 0

(* The callbacks that lwIP holds follow from the flags, and so does the     *)
(* pcb.                                                                     *)
Callbacks(x) ==
    /\ x.err <=> Live(x) /\ ~x.client_closed
    /\ x.recv <=> Live(x) /\ ~x.client_closed /\ ~x.socks_closed
    /\ x.sent <=> Live(x) /\ ~x.client_closed /\ x.socks_up
    /\ x.alloc # "none" => (x.client_closed <=> x.pcb # "open")

(* lwIP's accounts of the connection.                                       *)
Accounts(x) ==
    x.pcb = "open" =>
        /\ x.rcv_wnd + x.buf_used = TCP_WND
        /\ ~x.refused
        /\ x.socks_recv_tcp_pending = x.unacked

(* What is in progress on the SOCKS side.                                   *)
SocksSide(x) ==
    /\ x.socks_closed \/ ~x.socks_up => x.sending = 0 /\ ~x.receiving
    /\ ~x.socks_up => x.socks_recv_buf_used = -1 /\ x.socks_recv_tcp_pending = 0
    /\ x.sending <= x.buf_used

(* Both directions make progress while their two ends exist.                *)
Flows(x) ==
    Live(x) /\ x.socks_up =>
        /\ ~x.socks_closed /\ x.buf_used > 0 => x.sending > 0
        /\ ~x.client_closed /\ x.socks_recv_buf_used # -1 =>
              /\ x.socks_recv_waiting
              /\ x.socks_recv_buf_sent < x.socks_recv_buf_used
              /\ x.socks_recv_tcp_pending > 0
        /\ ~x.client_closed /\ ~x.socks_closed => (x.receiving <=> x.socks_recv_buf_used = -1)

HalfClosed(x) ==
    /\ Live(x) => /\ ~(x.client_closed /\ x.socks_closed)
                  /\ x.client_closed => x.buf_used > 0
                  /\ x.socks_closed =>
                        x.socks_up /\ (x.socks_recv_buf_used > 0 \/ x.socks_recv_tcp_pending > 0)
    /\ x.alloc = "freed" => x.client_closed /\ x.socks_closed

CInv(x) ==
    /\ x \in Client
    /\ x.alloc = "none" => Fresh(x)
    /\ Callbacks(x)
    /\ Accounts(x)
    /\ SocksSide(x)
    /\ Flows(x)
    /\ HalfClosed(x)

(* The callback in SYNC_COMMIT and its return value.                        *)
CallbackInv ==
    /\ callback \in {"none", "accept", "recv", "sent"}
    /\ callback # "none" => c.alloc # "none"
    /\ pbuf \in 0..TCP_WND
    /\ ret \in {"none", "ERR_OK", "ERR_MEM", "ERR_ABRT"}
    /\ ReturnIsTrue

(* Which end failed is remembered for as long as the other one drains.      *)
EndedInv ==
    /\ ended \subseteq {"client", "socks", "teardown"}
    /\ Live(c) /\ c.client_closed => "client" \in ended
    /\ Live(c) /\ c.socks_closed => "socks" \in ended
    /\ NoSilentLoss

Inv == CInv(c) /\ CallbackInv /\ EndedInv
-----------------------------------------------------------------------------
(* Setting one field of a client to a value of the field's type.            *)
LEMMA SetFlag ==
    ASSUME NEW x \in Client, NEW b \in BOOLEAN
    PROVE  /\ [x EXCEPT !.client_closed = b] \in Client
           /\ [x EXCEPT !.socks_up = b] \in Client
           /\ [x EXCEPT !.socks_closed = b] \in Client
           /\ [x EXCEPT !.socks_recv_waiting = b] \in Client
           /\ [x EXCEPT !.receiving = b] \in Client
           /\ [x EXCEPT !.recv = b] \in Client
           /\ [x EXCEPT !.sent = b] \in Client
           /\ [x EXCEPT !.err = b] \in Client
           /\ [x EXCEPT !.refused = b] \in Client
           /\ [x EXCEPT !.fin = b] \in Client
BY DEF Client

(* The same for the fields that count bytes of the window.                  *)
LEMMA SetWindow ==
    ASSUME NEW x \in Client, NEW n \in 0..TCP_WND
    PROVE  /\ [x EXCEPT !.buf_used = n] \in Client
           /\ [x EXCEPT !.sending = n] \in Client
           /\ [x EXCEPT !.rcv_wnd = n] \in Client
BY Zenon DEF Client

(* The same for the bytes lwIP has not seen acknowledged.                   *)
LEMMA SetPending ==
    ASSUME NEW x \in Client, NEW n \in 0..TCP_SND_BUF
    PROVE  /\ [x EXCEPT !.socks_recv_tcp_pending = n] \in Client
           /\ [x EXCEPT !.unacked = n] \in Client
BY Zenon DEF Client

(* The same for the bytes received from SOCKS.                              *)
LEMMA SetReceived ==
    ASSUME NEW x \in Client
    PROVE  /\ \A n \in -1..RECV_BUF_SIZE : [x EXCEPT !.socks_recv_buf_used = n] \in Client
           /\ \A n \in 0..RECV_BUF_SIZE : [x EXCEPT !.socks_recv_buf_sent = n] \in Client
BY Zenon DEF Client

(* The same for the states of the client and of its pcb.                    *)
LEMMA SetName ==
    ASSUME NEW x \in Client
    PROVE  /\ \A s \in {"none", "live", "freed"} : [x EXCEPT !.alloc = s] \in Client
           /\ \A s \in {"open", "closed", "aborted"} : [x EXCEPT !.pcb = s] \in Client
BY Zenon DEF Client

(* socksFreed keeps the type (tun2socks.c:1819-1835).                       *)
LEMMA SocksFreedType == ASSUME NEW x \in Client PROVE socksFreed(x) \in Client
<1>. DEFINE b == IF x.socks_up /\ ~x.client_closed THEN FALSE ELSE x.recv
            x1 == [x EXCEPT !.socks_closed = TRUE]
            x2 == [x1 EXCEPT !.sending = 0]
            x3 == [x2 EXCEPT !.receiving = FALSE]
            x4 == [x3 EXCEPT !.recv = b]
<1>1. b \in BOOLEAN
    BY Zenon DEF Client
<1>0. 0 \in 0..TCP_WND
    BY SizesPositive
<1>2. socksFreed(x) = x4
    BY Zenon DEF socksFreed
<1>3. x1 \in Client
    BY SetFlag, Zenon
<1>. HIDE DEF x1, b
<1>4. x2 \in Client
    BY <1>0, <1>3, SetWindow, Zenon
<1>. HIDE DEF x2
<1>5. x3 \in Client
    BY <1>4, SetFlag, Zenon
<1>. HIDE DEF x3
<1>6. x4 \in Client
    BY <1>1, <1>5, SetFlag, Zenon
<1>. QED BY <1>2, <1>6, Zenon

(* withoutPcb keeps the type (tun2socks.c:1789-1792).                       *)
LEMMA WithoutPcbType ==
    ASSUME NEW x \in Client, NEW how \in {"closed", "aborted"} PROVE withoutPcb(x, how) \in Client
<1>. DEFINE x1 == [x EXCEPT !.recv = FALSE]
            x2 == [x1 EXCEPT !.sent = FALSE]
            x3 == [x2 EXCEPT !.err = FALSE]
            x4 == [x3 EXCEPT !.pcb = how]
<1>1. withoutPcb(x, how) = x4
    BY Zenon DEF withoutPcb
<1>2. x1 \in Client
    BY SetFlag, Zenon
<1>. HIDE DEF x1
<1>3. x2 \in Client
    BY <1>2, SetFlag, Zenon
<1>. HIDE DEF x2
<1>4. x3 \in Client
    BY <1>3, SetFlag, Zenon
<1>. HIDE DEF x3
<1>5. x4 \in Client
    BY <1>4, SetName, Zenon
<1>. QED BY <1>1, <1>5, Zenon
-----------------------------------------------------------------------------
(* What the functions that close an end establish.  Sends(x) is the half of *)
(* Flows that they rely on.                                                 *)
Sends(x) == x.socks_up /\ ~x.socks_closed /\ x.buf_used > 0 => x.sending > 0

(* client_handle_freed_client restores the invariant for a client that has  *)
(* just lost its pcb (tun2socks.c:1761-1783).                               *)
LEMMA HandleFreed ==
    ASSUME NEW x \in Client, Live(x), ~x.recv, ~x.sent, ~x.err, x.pcb # "open",
           SocksSide(x), Sends(x),
           NEW y, y = client_handle_freed_client(x)
    PROVE  /\ CInv(y)
           /\ y.client_closed /\ y.pcb = x.pcb /\ y.alloc # "none"
           /\ y.buf_used = x.buf_used
           /\ y.alloc = "live" => ~x.socks_closed /\ ~y.socks_closed
           /\ y.alloc = "freed" => x.socks_closed \/ x.buf_used = 0
           /\ (y.socks_up <=> x.socks_up)
           /\ y.socks_recv_buf_used = x.socks_recv_buf_used
           /\ y.socks_recv_tcp_pending = x.socks_recv_tcp_pending
<1>. USE SizesPositive DEF client_handle_freed_client, client_dealloc
<1>1. y \in Client
    <2>1. CASE x.buf_used > 0 /\ ~x.socks_closed
        BY <2>1, Zenon DEF Client
    <2>2. CASE x.socks_closed
        BY <2>2, Zenon DEF Client
    <2>3. CASE ~(x.buf_used > 0) /\ ~x.socks_closed
        <3>1. [x EXCEPT !.client_closed = TRUE] \in Client
            BY Zenon DEF Client
        <3>2. socksFreed([x EXCEPT !.client_closed = TRUE]) \in Client
            BY <3>1, SocksFreedType, Zenon
        <3>. QED BY <2>3, <3>2 DEF Client
    <2>. QED BY <2>1, <2>2, <2>3, Zenon
<1>. USE DEF socksFreed, CInv, Fresh, Callbacks, Accounts, SocksSide, Flows, HalfClosed, Live, Sends, Client
<1>2. CASE x.buf_used > 0 /\ ~x.socks_closed
    BY <1>1, <1>2
<1>3. CASE x.socks_closed
    BY <1>1, <1>3
<1>4. CASE ~(x.buf_used > 0) /\ ~x.socks_closed
    BY <1>1, <1>4
<1>. QED BY <1>2, <1>3, <1>4, Zenon

(* client_free_client, client_abort_client and client_err_func              *)
(* (tun2socks.c:1785-1817, 1901-1910).                                      *)
LEMMA FreeClient ==
    ASSUME NEW x \in Client, Live(x), SocksSide(x), Sends(x), NEW how \in {"closed", "aborted"},
           NEW y, y = client_handle_freed_client(withoutPcb(x, how))
    PROVE  /\ CInv(y)
           /\ y.client_closed /\ y.pcb = how /\ y.pcb # "open" /\ y.alloc # "none"
           /\ y.buf_used = x.buf_used
           /\ y.alloc = "live" => ~x.socks_closed /\ ~y.socks_closed
           /\ y.alloc = "freed" => x.socks_closed \/ x.buf_used = 0
           /\ (y.socks_up <=> x.socks_up)
           /\ y.socks_recv_buf_used = x.socks_recv_buf_used
           /\ y.socks_recv_tcp_pending = x.socks_recv_tcp_pending
<1>. DEFINE z == withoutPcb(x, how)
<1>1. z \in Client
    BY WithoutPcbType, Zenon
<1>2. /\ Live(z) /\ ~z.recv /\ ~z.sent /\ ~z.err /\ z.pcb = how /\ z.pcb # "open"
      /\ z.buf_used = x.buf_used /\ (z.socks_closed <=> x.socks_closed) /\ (z.socks_up <=> x.socks_up)
      /\ z.socks_recv_buf_used = x.socks_recv_buf_used
      /\ z.socks_recv_tcp_pending = x.socks_recv_tcp_pending
    BY Zenon DEF withoutPcb, Live, Client
<1>3. SocksSide(z) /\ Sends(z)
    BY Zenon DEF withoutPcb, SocksSide, Sends, Client
<1>. HIDE DEF z
<1>4. y = client_handle_freed_client(z)
    BY Zenon DEF z
<1>. QED BY <1>1, <1>2, <1>3, <1>4, HandleFreed

(* The half of Flows about data for the client.                             *)
Receives(x) ==
    x.socks_up /\ ~x.client_closed /\ x.socks_recv_buf_used # -1 =>
        /\ x.socks_recv_waiting
        /\ x.socks_recv_buf_sent < x.socks_recv_buf_used
        /\ x.socks_recv_tcp_pending > 0

(* client_free_socks leaves a client that still owes data to its pcb, or a  *)
(* freed one (tun2socks.c:1819-1847).                                       *)
LEMMA FreeSocks ==
    ASSUME NEW x \in Client, Live(x), ~x.socks_closed,
           Callbacks(x), Accounts(x), SocksSide(x), Receives(x),
           NEW y, y = client_free_socks(x)
    PROVE  /\ CInv(y)
           /\ y.socks_closed /\ y.alloc # "none"
           /\ y.alloc = "live" => ~x.client_closed /\ ~y.client_closed
           /\ y.alloc = "freed" /\ ~x.client_closed /\ y.socks_up =>
                 y.socks_recv_buf_used = -1 /\ y.socks_recv_tcp_pending = 0
           /\ y.buf_used = x.buf_used
           /\ y.alloc = "live" => relayDown(y) = relayDown(x) /\ y.pcb = x.pcb
           /\ y.alloc = "freed" =>
                 /\ relayDown(x) = 0
                 /\ y.pcb = IF x.client_closed THEN x.pcb ELSE "closed"
<1>. DEFINE z == socksFreed(x)
<1>1. z \in Client
    BY SocksFreedType, Zenon
<1>2. /\ z.alloc = x.alloc /\ z.socks_closed /\ (z.client_closed <=> x.client_closed)
      /\ (z.socks_up <=> x.socks_up) /\ z.buf_used = x.buf_used /\ z.pcb = x.pcb
      /\ z.sending = 0 /\ ~z.receiving
      /\ z.socks_recv_buf_used = x.socks_recv_buf_used
      /\ z.socks_recv_buf_sent = x.socks_recv_buf_sent
      /\ (z.socks_recv_waiting <=> x.socks_recv_waiting)
      /\ z.socks_recv_tcp_pending = x.socks_recv_tcp_pending
      /\ (z.err <=> x.err) /\ (z.sent <=> x.sent)
      /\ z.recv <=> x.recv /\ ~(x.socks_up /\ ~x.client_closed)
      /\ z.rcv_wnd = x.rcv_wnd /\ (z.refused <=> x.refused) /\ z.unacked = x.unacked
    BY DEF socksFreed, Client
<1>3. y = IF /\ z.socks_up /\ ~z.client_closed
             /\ z.socks_recv_buf_used >= 0 \/ z.socks_recv_tcp_pending > 0
          THEN z
          ELSE IF z.client_closed THEN client_dealloc(z) ELSE client_free_client(z)
    BY Zenon DEF client_free_socks
<1>. HIDE DEF z
<1>4. CASE /\ z.socks_up /\ ~z.client_closed
           /\ z.socks_recv_buf_used >= 0 \/ z.socks_recv_tcp_pending > 0
    <2>1. z.socks_recv_buf_used # -1 => z.socks_recv_buf_used > 0
        BY <1>1, <1>2, <1>4 DEF Receives, Client
    <2>2. y = z
        BY <1>3, <1>4, Zenon
    <2>3. relayDown(y) = relayDown(x) /\ y.pcb = x.pcb /\ y.alloc = "live"
        BY <1>1, <1>2, <2>2 DEF relayDown, Live, Client
    <2>. QED
        BY <1>1, <1>2, <1>4, <2>1, <2>2, <2>3
        DEF CInv, Fresh, Callbacks, Accounts, SocksSide, Flows, HalfClosed, Live, Receives, Client
<1>5. CASE z.client_closed
    <2>1. y = [z EXCEPT !.alloc = "freed"]
        BY <1>3, <1>5, Zenon DEF client_dealloc
    <2>2. y \in Client
        BY <1>1, <2>1, SetName, Zenon
    <2>3. relayDown(x) = 0 /\ y.pcb = x.pcb /\ y.alloc = "freed"
        BY <1>1, <1>2, <1>5, <2>1 DEF relayDown, Client
    <2>. QED
        BY <1>1, <1>2, <1>5, <2>1, <2>2, <2>3, SizesPositive
        DEF CInv, Fresh, Callbacks, Accounts, SocksSide, Flows, HalfClosed, Live, Client
<1>6. CASE /\ ~z.client_closed
           /\ ~(z.socks_up /\ (z.socks_recv_buf_used >= 0 \/ z.socks_recv_tcp_pending > 0))
    <2>1. y = client_handle_freed_client(withoutPcb(z, "closed"))
        BY <1>3, <1>6, Zenon DEF client_free_client
    <2>2. Live(z) /\ SocksSide(z) /\ Sends(z)
        BY <1>1, <1>2 DEF SocksSide, Sends, Live, Client
    <2>3. /\ CInv(y) /\ y.client_closed /\ y.alloc # "none" /\ y.pcb = "closed"
          /\ y.buf_used = z.buf_used
          /\ y.alloc = "live" => ~z.socks_closed
          /\ (y.socks_up <=> z.socks_up)
          /\ y.socks_recv_buf_used = z.socks_recv_buf_used
          /\ y.socks_recv_tcp_pending = z.socks_recv_tcp_pending
        BY <1>1, <2>1, <2>2, FreeClient
    <2>4. y.alloc = "freed" /\ y.socks_closed
        BY <1>2, <2>3, Zenon DEF CInv, HalfClosed, Client
    <2>5. relayDown(x) = 0
        BY <1>1, <1>2, <1>6 DEF relayDown, Client
    <2>. QED BY <1>1, <1>2, <1>6, <2>3, <2>4, <2>5 DEF Client
<1>. QED BY <1>4, <1>5, <1>6, Zenon

(* client_murder frees the client whatever its state                        *)
(* (tun2socks.c:1849-1879).                                                 *)
LEMMA Murder ==
    ASSUME NEW x \in Client, Live(x), SocksSide(x), Callbacks(x), NEW y, y = client_murder(x)
    PROVE  CInv(y) /\ y.alloc = "freed" /\ y.pcb = IF x.client_closed THEN x.pcb ELSE "aborted"
<1>. DEFINE z == IF x.client_closed THEN x ELSE [withoutPcb(x, "aborted") EXCEPT !.client_closed = TRUE]
            w == IF z.socks_closed THEN z ELSE socksFreed(z)
<1>1. z \in Client
    BY WithoutPcbType, SetFlag, Zenon
<1>2. /\ z.pcb = IF x.client_closed THEN x.pcb ELSE "aborted"
      /\ z.client_closed /\ z.pcb # "open" /\ ~z.recv /\ ~z.sent /\ ~z.err /\ SocksSide(z)
    BY Zenon DEF withoutPcb, SocksSide, Callbacks, Live, Client
<1>. HIDE DEF z
<1>3. w \in Client
    BY <1>1, SocksFreedType, Zenon
<1>4. /\ w.pcb = z.pcb
      /\ w.client_closed /\ w.socks_closed /\ w.pcb # "open" /\ ~w.recv /\ ~w.sent /\ ~w.err /\ SocksSide(w)
    BY <1>1, <1>2, SizesPositive DEF socksFreed, SocksSide, Client
<1>. HIDE DEF w
<1>5. y = [w EXCEPT !.alloc = "freed"]
    BY Zenon DEF client_murder, client_dealloc, z, w
<1>6. y \in Client
    BY <1>3, <1>5, SetName, Zenon
<1>. QED
    BY <1>2, <1>3, <1>4, <1>5, <1>6
    DEF CInv, Fresh, Callbacks, Accounts, SocksSide, Flows, HalfClosed, Live, Client

(* client_socks_recv_send_out with x.socks_recv_buf_used bytes, some unsent. *)
ToSend(x) ==
    /\ x \in Client /\ Live(x) /\ ~x.client_closed /\ x.socks_up /\ ~x.receiving
    /\ Callbacks(x) /\ Accounts(x) /\ SocksSide(x) /\ Sends(x)
    /\ x.socks_recv_buf_sent < x.socks_recv_buf_used

(* The client survived: what was queued is acknowledged later, and what was *)
(* not queued waits for that.                                               *)
SentOut(x, y) ==
    /\ y \in Client /\ Live(y) /\ ~y.client_closed /\ y.socks_up /\ ~y.receiving
    /\ Callbacks(y) /\ Accounts(y) /\ SocksSide(y) /\ Sends(y) /\ Receives(y)
    /\ y.socks_recv_tcp_pending > 0
    /\ y.buf_used = x.buf_used /\ (y.socks_closed <=> x.socks_closed)
    /\ relayDown(y) = relayDown(x)

(* The client was aborted.                                                  *)
Aborted(x, y) ==
    /\ CInv(y)
    /\ y.client_closed /\ y.pcb = "aborted" /\ y.pcb # "open" /\ y.alloc # "none"
    /\ y.buf_used = x.buf_used
    /\ y.alloc = "live" => ~x.socks_closed /\ ~y.socks_closed
    /\ y.alloc = "freed" => x.socks_closed \/ x.buf_used = 0

(* Queuing n bytes that fit, none included, keeps the accounts or aborts    *)
(* the client (tun2socks.c:2121-2152).                                      *)
LEMMA Queued ==
    ASSUME NEW x, ToSend(x), NEW n \in Nat, n <= TCP_SND_BUF - x.unacked,
           n <= x.socks_recv_buf_used - x.socks_recv_buf_sent,
           NEW y, y = queued(x, n)
    PROVE  SentOut(x, y) \/ Aborted(x, y)
<1>. DEFINE x1 == [x EXCEPT !.socks_recv_buf_sent = x.socks_recv_buf_sent + n]
            x2 == [x1 EXCEPT !.socks_recv_tcp_pending = x.socks_recv_tcp_pending + n]
            z == [x2 EXCEPT !.unacked = x.unacked + n]
<1>1. /\ x.pcb = "open" /\ x.socks_recv_tcp_pending = x.unacked
      /\ x.socks_recv_buf_sent + n \in 0..RECV_BUF_SIZE
      /\ x.unacked + n \in 0..TCP_SND_BUF
    BY SizesPositive DEF ToSend, Callbacks, Accounts, Live, Client
<1>2. x1 \in Client
    BY <1>1, SetReceived, Zenon DEF ToSend
<1>3. x1.socks_recv_tcp_pending = x.socks_recv_tcp_pending /\ x1.unacked = x.unacked
    BY Zenon DEF ToSend, Client
<1>4. z = [x EXCEPT !.socks_recv_buf_sent = @ + n, !.socks_recv_tcp_pending = @ + n, !.unacked = @ + n]
    BY Zenon DEF ToSend, Client
<1>5. /\ z.alloc = x.alloc /\ (z.socks_closed <=> x.socks_closed) /\ (z.client_closed <=> x.client_closed)
      /\ (z.socks_up <=> x.socks_up) /\ z.buf_used = x.buf_used /\ z.pcb = x.pcb
      /\ z.sending = x.sending /\ (z.receiving <=> x.receiving)
      /\ z.socks_recv_buf_used = x.socks_recv_buf_used
      /\ z.socks_recv_buf_sent = x.socks_recv_buf_sent + n
      /\ z.socks_recv_tcp_pending = x.socks_recv_tcp_pending + n
      /\ z.unacked = x.unacked + n
      /\ (z.err <=> x.err) /\ (z.sent <=> x.sent) /\ (z.recv <=> x.recv)
      /\ z.rcv_wnd = x.rcv_wnd /\ (z.refused <=> x.refused)
    BY Zenon DEF ToSend, Client
<1>. HIDE DEF x1
<1>6. x2 \in Client
    BY <1>1, <1>2, SetPending, Zenon
<1>. HIDE DEF x2
<1>7. z \in Client
    BY <1>1, <1>6, SetPending, Zenon
<1>. HIDE DEF z
<1>8. y = IF z.socks_recv_buf_sent < z.socks_recv_buf_used
          THEN IF z.socks_recv_tcp_pending = 0 THEN client_abort_client(z)
               ELSE [z EXCEPT !.socks_recv_waiting = TRUE]
          ELSE [z EXCEPT !.socks_recv_buf_used = -1]
    BY <1>4, Zenon DEF queued
<1>9. Live(z) /\ Callbacks(z) /\ Accounts(z) /\ SocksSide(z) /\ Sends(z)
    BY <1>1, <1>5, <1>7 DEF ToSend, Live, Callbacks, Accounts, SocksSide, Sends, Client
<1>10. CASE z.socks_recv_buf_sent < z.socks_recv_buf_used /\ z.socks_recv_tcp_pending = 0
    <2>1. y = client_handle_freed_client(withoutPcb(z, "aborted"))
        BY <1>8, <1>10, Zenon DEF client_abort_client
    <2>. QED BY <1>5, <1>7, <1>9, <2>1, FreeClient DEF Aborted
<1>11. CASE z.socks_recv_buf_sent < z.socks_recv_buf_used /\ z.socks_recv_tcp_pending # 0
    <2>1. y = [z EXCEPT !.socks_recv_waiting = TRUE]
        BY <1>8, <1>11, Zenon
    <2>2. y \in Client
        BY <1>7, <2>1, SetFlag, Zenon
    <2>3. relayDown(y) = relayDown(x)
        BY <1>1, <1>5, <1>7, <1>11, <2>1, <2>2 DEF relayDown, ToSend, Live, Client
    <2>4. SentOut(x, y)
        BY <1>5, <1>7, <1>9, <1>11, <2>1, <2>2, <2>3
        DEF SentOut, ToSend, Live, Callbacks, Accounts, SocksSide, Sends, Receives, Client
    <2>. QED BY <2>4, Zenon
<1>12. CASE ~(z.socks_recv_buf_sent < z.socks_recv_buf_used)
    <2>1. y = [z EXCEPT !.socks_recv_buf_used = -1]
        BY <1>8, <1>12, Zenon
    <2>2. -1 \in -1..RECV_BUF_SIZE
        BY SizesPositive
    <2>3. y \in Client
        BY <1>7, <2>1, <2>2, SetReceived, Zenon
    <2>4. n > 0
        BY <1>5, <1>7, <1>12 DEF ToSend, Client
    <2>5. relayDown(y) = relayDown(x)
        BY <1>1, <1>5, <1>7, <1>12, <2>1, <2>3 DEF relayDown, ToSend, Live, Client
    <2>6. SentOut(x, y)
        BY <1>5, <1>7, <1>9, <1>12, <2>1, <2>3, <2>4, <2>5
        DEF SentOut, ToSend, Live, Callbacks, Accounts, SocksSide, Sends, Receives, Client
    <2>. QED BY <2>6, Zenon
<1>. QED BY <1>10, <1>11, <1>12, Zenon

(* Every outcome of client_socks_recv_send_out (tun2socks.c:2092-2152).     *)
LEMMA SendOut ==
    ASSUME NEW x, ToSend(x), NEW y \in client_socks_recv_send_out(x)
    PROVE  SentOut(x, y) \/ Aborted(x, y)
<1>. DEFINE left == x.socks_recv_buf_used - x.socks_recv_buf_sent
            room == TCP_SND_BUF - x.unacked
            n == IF left < room THEN left ELSE room
<1>1. left \in Nat /\ room \in Nat /\ n \in Nat /\ n <= left /\ n <= room /\ 0 <= left /\ 0 <= room
    BY SizesPositive DEF ToSend, Client
<1>2. y = client_abort_client(x) \/ y = queued(x, 0) \/ y = queued(x, n)
    BY Zenon DEF client_socks_recv_send_out
<1>. HIDE DEF n
<1>3. CASE y = client_abort_client(x)
    BY <1>3, FreeClient DEF ToSend, Aborted, client_abort_client
<1>4. CASE y = queued(x, 0)
    BY <1>1, <1>4, Queued, Zenon
<1>5. CASE y = queued(x, n)
    BY <1>1, <1>5, Queued, Zenon
<1>. QED BY <1>2, <1>3, <1>4, <1>5, Zenon
-----------------------------------------------------------------------------
(* The invariant holds when lwIP hands a connection over                    *)
(* (tun2socks.c:1719-1740).                                                 *)
LEMMA InitInv == Init => Inv
<1>. SUFFICES ASSUME Init PROVE Inv
    OBVIOUS
<1>1. c \in Client
    BY SizesPositive DEF Init, Client
<1>2. CInv(c)
    BY <1>1, SizesPositive
    DEF Init, CInv, Fresh, Callbacks, Accounts, SocksSide, Flows, HalfClosed, Live, Client
<1>. QED
    BY <1>2, SizesPositive DEF Init, Inv, CallbackInv, EndedInv, ReturnIsTrue, NoSilentLoss, Live

(* A client with its pcb open, or with its SOCKS connection, is allocated.  *)
LEMMA LiveClient ==
    ASSUME CInv(c), c.alloc # "none", c.pcb = "open" \/ ~c.socks_closed \/ c.sending > 0 \/ c.receiving
    PROVE  Live(c)
BY DEF CInv, Callbacks, SocksSide, HalfClosed, Live, Client

(* The conjuncts of the invariant for an accepted client.                   *)
LEMMA OpenClient ==
    ASSUME CInv(c), c.alloc # "none"
    PROVE  /\ c \in Client
           /\ c.pcb = "open" <=> ~c.client_closed
           /\ Callbacks(c) /\ Accounts(c) /\ SocksSide(c)
           /\ Live(c) => Sends(c) /\ Receives(c)
BY Zenon DEF CInv, Callbacks, Flows, Sends, Receives, Client

(* listener_accept_func (tun2socks.c:1653-1745).                            *)
LEMMA AcceptStep == Inv /\ listener_accept_func => Inv'
<1>. SUFFICES ASSUME Inv, listener_accept_func PROVE Inv'
    OBVIOUS
<1>. USE DEF Inv
<1>. DEFINE x1 == [c EXCEPT !.alloc = "live"]
            x2 == [x1 EXCEPT !.recv = TRUE]
            x3 == [x2 EXCEPT !.err = TRUE]
<1>1. c' = x3
    BY Zenon DEF listener_accept_func, CInv, Client
<1>2. CInv(x3)
    <2>1. x3 \in Client
        BY SetName, SetFlag, Zenon DEF CInv
    <2>. QED
        BY <2>1, Zenon DEF listener_accept_func, quiet,
           CInv, Fresh, Callbacks, Accounts, SocksSide, Flows, HalfClosed, Live, Client
<1>3. x3.alloc = "live" /\ ~x3.client_closed /\ ~x3.socks_closed
    BY Zenon DEF listener_accept_func, CInv, Fresh, Client
<1>. HIDE DEF x3
<1>. QED
    BY <1>1, <1>2, <1>3, Zenon
    DEF listener_accept_func, CallbackInv, EndedInv, ReturnIsTrue, NoSilentLoss, Live

(* listener_accept_func, its error exits (tun2socks.c:1753-1759).           *)
LEMMA AcceptFailsStep == Inv /\ listener_accept_fails => Inv'
<1>. SUFFICES ASSUME Inv, listener_accept_fails PROVE Inv'
    OBVIOUS
<1>. USE DEF Inv
<1>1. CInv(c')
    <2>1. c' \in Client
        BY SetName, Zenon DEF listener_accept_fails, CInv
    <2>. QED
        BY <2>1 DEF listener_accept_fails, quiet,
           CInv, Fresh, Callbacks, Accounts, SocksSide, Flows, HalfClosed, Live, Client
<1>2. c'.alloc = "none"
    BY Zenon DEF listener_accept_fails, CInv, Client
<1>. QED
    BY <1>1, <1>2, Zenon
    DEF listener_accept_fails, quiet, CallbackInv, EndedInv, ReturnIsTrue, NoSilentLoss, Live

(* A callback returns from SYNC_COMMIT (tun2socks.c:1744-1751).             *)
LEMMA ReturnStep == Inv /\ callback_returns => Inv'
<1>. SUFFICES ASSUME Inv, callback_returns PROVE Inv'
    OBVIOUS
<1>1. c.pcb = "open" <=> ~c.client_closed
    BY OpenClient, Zenon DEF Inv, CallbackInv, callback_returns
<1>. QED
    BY <1>1, SizesPositive
    DEF Inv, callback_returns, DEAD_KILLED, CallbackInv, EndedInv, ReturnIsTrue, NoSilentLoss

(* client_recv_func (tun2socks.c:1912-1956): the data fits because the      *)
(* window says so.                                                          *)
LEMMA ReceiveStep == ASSUME Inv, NEW n \in 1..TCP_WND, client_recv_func(n) PROVE Inv'
<1>. USE DEF Inv
<1>. DEFINE w == c.rcv_wnd - n
            u == c.buf_used + n
            x1 == [c EXCEPT !.rcv_wnd = w]
            x == [x1 EXCEPT !.buf_used = u]
<1>1. /\ c \in Client /\ Live(c) /\ ~c.client_closed /\ c.pcb = "open"
      /\ c.rcv_wnd + c.buf_used = TCP_WND /\ ~c.refused
      /\ c.socks_recv_tcp_pending = c.unacked
    BY LiveClient, OpenClient, Zenon DEF client_recv_func, quiet, Accounts
<1>2. w \in 0..TCP_WND /\ u \in 0..TCP_WND /\ u > 0 /\ n <= TCP_WND - c.buf_used
    BY <1>1, SizesPositive DEF client_recv_func, Client
<1>3. x = [c EXCEPT !.rcv_wnd = @ - n, !.buf_used = @ + n]
    BY <1>1, Zenon DEF Client
<1>4. x \in Client
    BY <1>1, <1>2, SetWindow, Zenon
<1>5. /\ x.alloc = c.alloc /\ (x.socks_closed <=> c.socks_closed) /\ (x.client_closed <=> c.client_closed)
      /\ (x.socks_up <=> c.socks_up) /\ x.buf_used = u /\ x.pcb = c.pcb
      /\ x.sending = c.sending /\ (x.receiving <=> c.receiving)
      /\ x.socks_recv_buf_used = c.socks_recv_buf_used
      /\ x.socks_recv_buf_sent = c.socks_recv_buf_sent
      /\ (x.socks_recv_waiting <=> c.socks_recv_waiting)
      /\ x.socks_recv_tcp_pending = c.socks_recv_tcp_pending
      /\ x.unacked = c.unacked
      /\ (x.err <=> c.err) /\ (x.sent <=> c.sent) /\ (x.recv <=> c.recv)
      /\ x.rcv_wnd = w /\ (x.refused <=> c.refused)
    BY <1>1 DEF Client
<1>. HIDE DEF x
<1>6. CASE ~c.recv
    <2>1. c' = c /\ ret' = "none" /\ UNCHANGED <<callback, pbuf, ended>>
        BY <1>6, Zenon DEF client_recv_func
    <2>. QED BY <2>1, Zenon DEF CallbackInv, EndedInv, ReturnIsTrue, NoSilentLoss
<1>7. CASE c.recv /\ x.buf_used = n /\ c.socks_up
    <2>1. c' = client_send_to_socks(x) /\ callback' = "recv" /\ pbuf' = n /\ ret' = "none" /\ ended' = ended
        BY <1>2, <1>3, <1>7 DEF client_recv_func
    <2>2. c' = [x EXCEPT !.sending = x.buf_used]
        BY <2>1, Zenon DEF client_send_to_socks
    <2>3. c' \in Client
        BY <1>2, <1>4, <1>5, <2>2, SetWindow, Zenon
    <2>4. CInv(c') /\ Live(c') /\ ~c'.client_closed /\ ~c'.socks_closed
        BY <1>1, <1>2, <1>4, <1>5, <1>7, <2>2, <2>3
        DEF CInv, Fresh, Callbacks, Accounts, SocksSide, Flows, HalfClosed, Live, Client
    <2>. QED BY <2>1, <2>4 DEF CallbackInv, EndedInv, ReturnIsTrue, NoSilentLoss, Live
<1>8. CASE c.recv /\ ~(x.buf_used = n /\ c.socks_up)
    <2>1. c' = x /\ ret' = "ERR_OK" /\ UNCHANGED <<callback, pbuf, ended>>
        BY <1>1, <1>2, <1>3, <1>8 DEF client_recv_func, Client
    <2>2. c.socks_up => c.buf_used > 0
        BY <1>1, <1>2, <1>5, <1>8 DEF Client
    <2>3. CInv(x) /\ Live(x) /\ ~x.client_closed /\ ~x.socks_closed
        BY <1>1, <1>2, <1>4, <1>5, <1>8, <2>2
        DEF CInv, Fresh, Callbacks, Accounts, SocksSide, Flows, HalfClosed, Live, Client
    <2>. QED BY <1>1, <1>5, <2>1, <2>3, Zenon DEF CallbackInv, EndedInv, ReturnIsTrue, NoSilentLoss, Live
<1>. QED BY <1>6, <1>7, <1>8, Zenon

(* client_recv_func for a FIN (tun2socks.c:1919-1923).                      *)
LEMMA FinStep == Inv /\ client_recv_func_null => Inv'
<1>. SUFFICES ASSUME Inv, client_recv_func_null PROVE Inv'
    OBVIOUS
<1>. USE DEF Inv
<1>. DEFINE x == [c EXCEPT !.fin = TRUE]
<1>1. c \in Client /\ Live(c) /\ ~c.client_closed
    BY LiveClient, OpenClient, Zenon DEF client_recv_func_null, quiet
<1>2. x \in Client
    BY <1>1, SetFlag, Zenon
<1>3. /\ CInv(x) /\ Live(x) /\ x.pcb = c.pcb /\ (x.client_closed <=> c.client_closed)
      /\ (x.socks_closed <=> c.socks_closed) /\ x.buf_used = c.buf_used
      /\ SocksSide(x) /\ Sends(x)
    BY <1>1, <1>2, Zenon
    DEF CInv, Fresh, Callbacks, Accounts, SocksSide, Flows, HalfClosed, Live, Sends, Client
<1>. HIDE DEF x
<1>4. CASE c.recv
    <2>1. /\ c' = client_handle_freed_client(withoutPcb(x, "closed"))
          /\ ret' = "ERR_ABRT" /\ ended' = ended \cup {"client"} /\ UNCHANGED <<callback, pbuf>>
        BY <1>4, Zenon DEF client_recv_func_null, client_free_client, x
    <2>2. /\ CInv(c') /\ c'.pcb # "open" /\ c'.alloc # "none" /\ c'.buf_used = x.buf_used
          /\ c'.alloc = "live" => ~c'.socks_closed
          /\ c'.alloc = "freed" => x.socks_closed \/ x.buf_used = 0
        BY <1>2, <1>3, <2>1, FreeClient
    <2>. QED
        BY <1>1, <1>3, <2>1, <2>2, Zenon DEF CallbackInv, EndedInv, ReturnIsTrue, NoSilentLoss, Live
<1>5. CASE ~c.recv
    <2>1. c' = x /\ ret' = "none" /\ UNCHANGED <<callback, pbuf, ended>>
        BY <1>5, Zenon DEF client_recv_func_null, x
    <2>. QED BY <1>1, <1>3, <2>1, Zenon DEF CallbackInv, EndedInv, ReturnIsTrue, NoSilentLoss, Live
<1>. QED BY <1>4, <1>5, Zenon

(* client_err_func (tun2socks.c:1901-1910).                                 *)
LEMMA ErrStep == Inv /\ client_err_func => Inv'
<1>. SUFFICES ASSUME Inv, client_err_func PROVE Inv'
    OBVIOUS
<1>. USE DEF Inv
<1>1. c \in Client /\ Live(c) /\ SocksSide(c) /\ Sends(c)
    BY Zenon DEF client_err_func, CInv, Callbacks, Flows, Sends, Live
<1>2. /\ c' = client_handle_freed_client(withoutPcb(c, "aborted"))
      /\ ret' = "none" /\ ended' = ended \cup {"client"} /\ UNCHANGED <<callback, pbuf>>
    BY Zenon DEF client_err_func
<1>3. /\ CInv(c') /\ c'.pcb # "open" /\ c'.alloc # "none" /\ c'.buf_used = c.buf_used
      /\ c'.alloc = "live" => ~c'.socks_closed
      /\ c'.alloc = "freed" => c.socks_closed \/ c.buf_used = 0
    BY <1>1, <1>2, FreeClient
<1>. QED
    BY <1>1, <1>2, <1>3, Zenon DEF CallbackInv, EndedInv, ReturnIsTrue, NoSilentLoss, Live

(* client_sent_func (tun2socks.c:2154-2206): waiting data is queued again,  *)
(* or the last acknowledgement frees the client.                            *)
LEMMA SentStep == ASSUME Inv, NEW n \in 1..TCP_SND_BUF, client_sent_func(n) PROVE Inv'
<1>. USE DEF Inv
<1>. DEFINE p == c.unacked - n
            x1 == [c EXCEPT !.unacked = p]
            x == [x1 EXCEPT !.socks_recv_tcp_pending = p]
            z == [x EXCEPT !.socks_recv_waiting = FALSE]
<1>1. /\ c \in Client /\ Live(c) /\ ~c.client_closed /\ c.socks_up /\ c.pcb = "open"
      /\ c.socks_recv_tcp_pending = c.unacked
      /\ Callbacks(c) /\ Accounts(c) /\ SocksSide(c) /\ Sends(c) /\ Receives(c)
    BY OpenClient, Zenon DEF client_sent_func, quiet, CInv, Callbacks, Accounts, Live, Client
<1>2. p \in 0..TCP_SND_BUF
    BY <1>1, SizesPositive DEF client_sent_func, Client
<1>3. x = [c EXCEPT !.unacked = @ - n, !.socks_recv_tcp_pending = @ - n]
    BY <1>1, Zenon DEF Client
<1>4. x \in Client
    BY <1>1, <1>2, SetPending, Zenon
<1>5. /\ x.alloc = c.alloc /\ (x.socks_closed <=> c.socks_closed) /\ (x.client_closed <=> c.client_closed)
      /\ (x.socks_up <=> c.socks_up) /\ x.buf_used = c.buf_used /\ x.pcb = c.pcb
      /\ x.sending = c.sending /\ (x.receiving <=> c.receiving)
      /\ x.socks_recv_buf_used = c.socks_recv_buf_used
      /\ x.socks_recv_buf_sent = c.socks_recv_buf_sent
      /\ x.socks_recv_tcp_pending = p /\ x.unacked = p
      /\ (x.err <=> c.err) /\ (x.sent <=> c.sent) /\ (x.recv <=> c.recv)
      /\ x.rcv_wnd = c.rcv_wnd /\ (x.refused <=> c.refused)
    BY <1>1, Zenon DEF Client
<1>. HIDE DEF x
<1>6. Live(x) /\ Callbacks(x) /\ Accounts(x) /\ SocksSide(x) /\ Sends(x)
    BY <1>1, <1>2, <1>4, <1>5 DEF Live, Callbacks, Accounts, SocksSide, Sends, Client
<1>7. UNCHANGED pbuf /\ callback = "none"
    BY Zenon DEF client_sent_func, quiet
<1>8. \/ x.socks_recv_buf_used > 0 /\ continueQueuing(x)
      \/ /\ x.socks_recv_buf_used <= 0
         /\ IF x.socks_closed /\ x.socks_recv_tcp_pending = 0
            THEN c' = client_free_client(x) /\ ret' = "ERR_ABRT"
            ELSE c' = x /\ ret' = "ERR_OK"
         /\ UNCHANGED <<callback, ended>>
    BY <1>3, Zenon DEF client_sent_func
<1>9. x.socks_recv_buf_used \in Int
    BY <1>4 DEF Client
<1>10. CASE x.socks_recv_buf_used > 0
    <2>1. PICK y \in client_socks_recv_send_out(z) :
            \/ /\ y.client_closed
               /\ c' = y /\ ret' = "ERR_ABRT" /\ ended' = ended \cup {"client"}
               /\ UNCHANGED callback
            \/ /\ ~y.client_closed /\ y.socks_recv_buf_used = -1 /\ ~y.socks_closed
               /\ c' = client_socks_recv_initiate(y)
               /\ callback' = "sent" /\ ret' = "none"
               /\ UNCHANGED ended
            \/ /\ ~y.client_closed /\ (y.socks_recv_buf_used # -1 \/ y.socks_closed)
               /\ c' = y /\ ret' = "ERR_OK"
               /\ UNCHANGED <<callback, ended>>
        <3>1. continueQueuing(x)
            BY <1>10, <1>9, <1>8
        <3>. QED BY <3>1, Zenon DEF continueQueuing
    <2>2. z \in Client
        BY <1>4, SetFlag, Zenon
    <2>3. z \in Client /\ (z.socks_closed <=> c.socks_closed) /\ z.buf_used = c.buf_used
        BY <1>4, <1>5, <2>2, Zenon DEF Client
    <2>4. ToSend(z)
        <3>1. ~x.receiving /\ x.socks_recv_buf_sent < x.socks_recv_buf_used
            BY <1>1, <1>5, <1>10 DEF CInv, Flows, SocksSide, Live, Client
        <3>. QED
            BY <1>1, <1>4, <1>5, <1>6, <2>3, <3>1, Zenon
            DEF ToSend, Live, Callbacks, Accounts, SocksSide, Sends, Client
    <2>. HIDE DEF z
    <2>5. SentOut(z, y) \/ Aborted(z, y)
        BY <2>4, SendOut, Zenon
    <2>6. CASE Aborted(z, y)
        <3>1. c' = y /\ ret' = "ERR_ABRT" /\ ended' = ended \cup {"client"} /\ UNCHANGED callback
            BY <2>1, <2>6, Zenon DEF Aborted
        <3>. QED
            BY <1>1, <1>7, <2>3, <2>6, <3>1, Zenon
            DEF Aborted, CallbackInv, EndedInv, ReturnIsTrue, NoSilentLoss, Live
    <2>7. CASE SentOut(z, y) /\ y.socks_recv_buf_used = -1 /\ ~y.socks_closed
        <3>1. /\ c' = [y EXCEPT !.receiving = TRUE]
              /\ callback' = "sent" /\ ret' = "none" /\ UNCHANGED ended
            BY <2>1, <2>7, Zenon DEF SentOut, client_socks_recv_initiate
        <3>2. c' \in Client
            BY <2>7, <3>1, SetFlag, Zenon DEF SentOut
        <3>3. CInv(c') /\ Live(c') /\ ~c'.client_closed /\ ~c'.socks_closed
            BY <2>7, <3>1, <3>2, Zenon
            DEF SentOut, CInv, Fresh, Callbacks, Accounts, SocksSide, Flows, HalfClosed, Live,
                Sends, Receives, Client
        <3>. QED
            BY <1>7, <3>1, <3>3, Zenon DEF CallbackInv, EndedInv, ReturnIsTrue, NoSilentLoss, Live
    <2>8. CASE SentOut(z, y) /\ (y.socks_recv_buf_used # -1 \/ y.socks_closed)
        <3>1. c' = y /\ ret' = "ERR_OK" /\ UNCHANGED <<callback, ended>>
            BY <2>1, <2>8, Zenon DEF SentOut
        <3>2. CInv(y) /\ Live(y) /\ ~y.client_closed /\ y.pcb = "open"
            BY <2>8, Zenon
            DEF SentOut, CInv, Fresh, Callbacks, Accounts, SocksSide, Flows, HalfClosed, Live,
                Sends, Receives, Client
        <3>3. y.socks_closed <=> c.socks_closed
            BY <2>3, <2>8, Zenon DEF SentOut
        <3>. QED
            BY <1>1, <1>7, <3>1, <3>2, <3>3, Zenon DEF CallbackInv, EndedInv, ReturnIsTrue, NoSilentLoss, Live
    <2>. QED BY <2>5, <2>6, <2>7, <2>8, Zenon
<1>11. CASE x.socks_recv_buf_used <= 0 /\ x.socks_closed /\ x.socks_recv_tcp_pending = 0
    <2>1. /\ c' = client_handle_freed_client(withoutPcb(x, "closed")) /\ ret' = "ERR_ABRT"
          /\ UNCHANGED <<callback, ended>>
        BY <1>11, <1>9, <1>8 DEF client_free_client
    <2>2. /\ CInv(c') /\ c'.pcb # "open" /\ c'.alloc # "none"
          /\ c'.alloc = "live" => ~x.socks_closed
          /\ c'.socks_recv_buf_used = x.socks_recv_buf_used
          /\ c'.socks_recv_tcp_pending = x.socks_recv_tcp_pending
        BY <1>4, <1>6, <2>1, FreeClient
    <2>3. c'.alloc = "freed" /\ x.socks_recv_buf_used = -1
        BY <1>1, <1>4, <1>5, <1>11, <2>2 DEF CInv, Receives, Client
    <2>. QED
        BY <1>1, <1>5, <1>7, <1>11, <2>1, <2>2, <2>3, Zenon
        DEF CallbackInv, EndedInv, ReturnIsTrue, NoSilentLoss, Live
<1>12. CASE x.socks_recv_buf_used <= 0 /\ ~(x.socks_closed /\ x.socks_recv_tcp_pending = 0)
    <2>1. c' = x /\ ret' = "ERR_OK" /\ UNCHANGED <<callback, ended>>
        BY <1>12, <1>9, <1>8
    <2>2. x.socks_recv_buf_used = -1
        BY <1>1, <1>4, <1>5, <1>12 DEF Receives, Client
    <2>3. CInv(x)
        BY <1>1, <1>4, <1>5, <1>6, <1>12, <2>2
        DEF CInv, Fresh, Callbacks, Accounts, SocksSide, Flows, HalfClosed, Live, Sends, Client
    <2>. QED
        BY <1>1, <1>5, <1>7, <2>1, <2>3, Zenon DEF CallbackInv, EndedInv, ReturnIsTrue, NoSilentLoss, Live
<1>. QED BY <1>10, <1>11, <1>12, <1>9
-----------------------------------------------------------------------------
(* client_socks_handler, UP (tun2socks.c:1969-1999).                        *)
LEMMA UpStep == Inv /\ client_socks_up => Inv'
<1>. SUFFICES ASSUME Inv, client_socks_up PROVE Inv'
    OBVIOUS
<1>. USE DEF Inv
<1>. DEFINE x1 == [c EXCEPT !.socks_up = TRUE]
            x2 == [x1 EXCEPT !.socks_recv_buf_used = -1]
            x3 == [x2 EXCEPT !.socks_recv_tcp_pending = 0]
            x == [x3 EXCEPT !.sent = ~c.client_closed]
            y == IF x.buf_used > 0 THEN client_send_to_socks(x) ELSE x
            z == IF y.client_closed THEN y ELSE client_socks_recv_initiate(y)
<1>1. /\ c \in Client /\ Live(c) /\ ~c.socks_closed /\ ~c.socks_up
      /\ Callbacks(c) /\ Accounts(c) /\ SocksSide(c)
    BY LiveClient, OpenClient, Zenon DEF client_socks_up, socksAlive, openJob
<1>2. c' = z /\ ret' = "none" /\ UNCHANGED <<callback, pbuf, ended>>
    <2>1. x = [c EXCEPT !.socks_up = TRUE, !.socks_recv_buf_used = -1,
                        !.socks_recv_tcp_pending = 0, !.sent = ~c.client_closed]
        OBVIOUS
    <2>. HIDE DEF x
    <2>. QED BY <2>1, Zenon DEF client_socks_up, socksStep
<1>3. -1 \in -1..RECV_BUF_SIZE /\ 0 \in 0..TCP_SND_BUF /\ (~c.client_closed) \in BOOLEAN
    BY <1>1, SizesPositive DEF Client
<1>4. /\ x.alloc = c.alloc /\ (x.socks_closed <=> c.socks_closed) /\ (x.client_closed <=> c.client_closed)
      /\ x.socks_up /\ x.buf_used = c.buf_used /\ x.pcb = c.pcb
      /\ x.sending = c.sending /\ (x.receiving <=> c.receiving)
      /\ x.socks_recv_buf_used = -1
      /\ x.socks_recv_tcp_pending = 0 /\ x.unacked = c.unacked
      /\ (x.err <=> c.err) /\ (x.sent <=> ~c.client_closed) /\ (x.recv <=> c.recv)
      /\ x.rcv_wnd = c.rcv_wnd /\ (x.refused <=> c.refused)
    BY <1>1, Zenon DEF Client
<1>5. x \in Client
    <2>1. x1 \in Client
        BY <1>1, SetFlag, Zenon
    <2>. HIDE DEF x1
    <2>2. x2 \in Client
        BY <1>3, <2>1, SetReceived, Zenon
    <2>. HIDE DEF x2
    <2>3. x3 \in Client
        BY <1>3, <2>2, SetPending, Zenon
    <2>. HIDE DEF x3
    <2>. QED BY <1>3, <2>3, SetFlag, Zenon
<1>. HIDE DEF x
<1>6. /\ y \in Client
      /\ y.alloc = c.alloc /\ (y.socks_closed <=> c.socks_closed) /\ (y.client_closed <=> c.client_closed)
      /\ y.socks_up /\ y.buf_used = c.buf_used /\ y.pcb = c.pcb
      /\ y.sending = c.buf_used /\ (y.receiving <=> c.receiving)
      /\ y.socks_recv_buf_used = -1
      /\ y.socks_recv_tcp_pending = 0 /\ y.unacked = c.unacked
      /\ (y.err <=> c.err) /\ (y.sent <=> ~c.client_closed) /\ (y.recv <=> c.recv)
      /\ y.rcv_wnd = c.rcv_wnd /\ (y.refused <=> c.refused)
    <2>1. CASE x.buf_used > 0
        <3>1. y = [x EXCEPT !.sending = x.buf_used]
            BY <2>1, Zenon DEF client_send_to_socks
        <3>2. x.buf_used \in 0..TCP_WND
            BY <1>5, Zenon DEF Client
        <3>3. y \in Client
            BY <1>5, <3>1, <3>2, SetWindow, Zenon
        <3>. HIDE DEF y
        <3>. QED BY <1>4, <1>5, <3>1, <3>3 DEF Client
    <2>2. CASE ~(x.buf_used > 0)
        <3>1. y = x
            BY <2>2, Zenon
        <3>. HIDE DEF y
        <3>. QED BY <1>1, <1>4, <1>5, <2>2, <3>1 DEF SocksSide, Client
    <2>. QED BY <2>1, <2>2, Zenon
<1>. HIDE DEF y
<1>7. CInv(z) /\ Live(z) /\ (z.socks_closed <=> c.socks_closed) /\ (z.client_closed <=> c.client_closed)
    <2>1. CASE y.client_closed
        <3>1. z = y
            BY <2>1, Zenon
        <3>2. c.client_closed /\ c.buf_used > 0
            BY <1>1, <1>6, <2>1, Zenon DEF CInv, HalfClosed, Live
        <3>3. Live(y) /\ Callbacks(y) /\ Accounts(y)
            BY <1>1, <1>6, <3>2, Zenon DEF Callbacks, Accounts, Live, Client
        <3>4. SocksSide(y) /\ Flows(y) /\ HalfClosed(y)
            BY <1>1, <1>6, <3>2 DEF SocksSide, Flows, HalfClosed, Live, Client
        <3>. HIDE DEF z
        <3>5. CInv(y)
            BY <1>6, <3>3, <3>4, Zenon DEF CInv, Live
        <3>. QED BY <1>6, <3>1, <3>3, <3>5, Zenon
    <2>2. CASE ~y.client_closed
        <3>1. z = [y EXCEPT !.receiving = TRUE]
            BY <2>2, Zenon DEF client_socks_recv_initiate
        <3>2. z \in Client
            BY <1>6, <3>1, SetFlag, Zenon
        <3>. HIDE DEF z
        <3>. QED
            BY <1>1, <1>6, <2>2, <3>1, <3>2
            DEF CInv, Fresh, Callbacks, Accounts, SocksSide, Flows, HalfClosed, Live, Client
    <2>. QED BY <2>1, <2>2, Zenon
<1>. QED
    BY <1>1, <1>2, <1>7, Zenon DEF CallbackInv, EndedInv, ReturnIsTrue, NoSilentLoss, Live

(* client_socks_handler, ERROR and ERROR_CLOSED (tun2socks.c:1958-1967,     *)
(* 2001-2012).                                                              *)
LEMMA ErrorStep == Inv /\ (client_socks_error \/ client_socks_error_closed) => Inv'
<1>. SUFFICES ASSUME Inv, client_socks_error \/ client_socks_error_closed PROVE Inv'
    OBVIOUS
<1>. USE DEF Inv
<1>1. /\ c \in Client /\ Live(c) /\ ~c.socks_closed
      /\ Callbacks(c) /\ Accounts(c) /\ SocksSide(c) /\ Receives(c)
    BY LiveClient, OpenClient, Zenon DEF client_socks_error, client_socks_error_closed, socksAlive
<1>2. c' = client_free_socks(c) /\ ret' = "none" /\ ended' = ended \cup {"socks"} /\ UNCHANGED <<callback, pbuf>>
    BY Zenon DEF client_socks_error, client_socks_error_closed, socksStep
<1>3. /\ CInv(c')
      /\ c'.socks_closed /\ c'.alloc # "none"
      /\ c'.alloc = "live" => ~c'.client_closed
      /\ c'.alloc = "freed" /\ ~c.client_closed /\ c'.socks_up =>
            c'.socks_recv_buf_used = -1 /\ c'.socks_recv_tcp_pending = 0
    BY <1>1, <1>2, FreeSocks, Zenon
<1>. QED
    BY <1>1, <1>2, <1>3, Zenon DEF CallbackInv, EndedInv, ReturnIsTrue, NoSilentLoss, Live

(* run() murders the clients that are left (tun2socks.c:726-731).           *)
LEMMA TeardownStep == Inv /\ teardown => Inv'
<1>. SUFFICES ASSUME Inv, teardown PROVE Inv'
    OBVIOUS
<1>. USE DEF Inv
<1>1. c \in Client /\ Live(c) /\ SocksSide(c) /\ Callbacks(c)
    BY Zenon DEF teardown, CInv, Live
<1>2. c' = client_murder(c) /\ ret' = "none" /\ ended' = ended \cup {"teardown"} /\ UNCHANGED <<callback, pbuf>>
    BY Zenon DEF teardown, socksStep
<1>3. CInv(c') /\ c'.alloc = "freed"
    BY <1>1, <1>2, Murder, Zenon
<1>. QED
    BY <1>2, <1>3, Zenon DEF CallbackInv, EndedInv, ReturnIsTrue, NoSilentLoss, Live

(* client_socks_send_handler_done (tun2socks.c:2024-2051).                  *)
LEMMA SendDoneStep == ASSUME Inv, NEW n \in 1..TCP_WND, client_socks_send_handler_done(n) PROVE Inv'
<1>. USE DEF Inv
<1>. DEFINE u == c.buf_used - n
            w == IF c.client_closed THEN c.rcv_wnd ELSE c.rcv_wnd + n
            x1 == [c EXCEPT !.buf_used = u]
            x2 == [x1 EXCEPT !.sending = 0]
            x == [x2 EXCEPT !.rcv_wnd = w]
<1>1. /\ c \in Client /\ c.sending > 0 /\ n <= c.sending
    BY DEF CInv, client_socks_send_handler_done, Client
<1>2. c.alloc # "none" /\ ~c.socks_closed /\ c.socks_up
    BY <1>1 DEF CInv, SocksSide, Fresh, Client
<1>3. /\ Live(c) /\ Callbacks(c) /\ Accounts(c) /\ SocksSide(c) /\ Receives(c)
      /\ c.pcb = "open" <=> ~c.client_closed
    BY <1>2, LiveClient, OpenClient, Zenon
<1>4. u \in 0..TCP_WND /\ w \in 0..TCP_WND /\ 0 \in 0..TCP_WND
    BY <1>1, <1>3, SizesPositive DEF Accounts, SocksSide, Client
<1>5. x = [c EXCEPT !.buf_used = @ - n, !.sending = 0,
                    !.rcv_wnd = IF c.client_closed THEN @ ELSE @ + n]
    BY <1>1, Zenon DEF Client
<1>6. x \in Client
    <2>1. x1 \in Client
        BY <1>1, <1>4, SetWindow, Zenon
    <2>. HIDE DEF x1
    <2>2. x2 \in Client
        BY <1>4, <2>1, SetWindow, Zenon
    <2>. HIDE DEF x2, w
    <2>. QED BY <1>4, <2>2, SetWindow, Zenon
<1>7. /\ x.alloc = c.alloc /\ (x.socks_closed <=> c.socks_closed) /\ (x.client_closed <=> c.client_closed)
      /\ (x.socks_up <=> c.socks_up) /\ x.buf_used = u /\ x.pcb = c.pcb
      /\ x.sending = 0 /\ (x.receiving <=> c.receiving)
      /\ x.socks_recv_buf_used = c.socks_recv_buf_used
      /\ x.socks_recv_buf_sent = c.socks_recv_buf_sent
      /\ (x.socks_recv_waiting <=> c.socks_recv_waiting)
      /\ x.socks_recv_tcp_pending = c.socks_recv_tcp_pending
      /\ x.unacked = c.unacked
      /\ (x.err <=> c.err) /\ (x.sent <=> c.sent) /\ (x.recv <=> c.recv)
      /\ x.rcv_wnd = w /\ (x.refused <=> c.refused)
    BY <1>1 DEF Client
<1>8. /\ c' = IF x.buf_used > 0 THEN client_send_to_socks(x)
              ELSE IF x.client_closed THEN client_free_socks(x) ELSE x
      /\ ret' = "none" /\ UNCHANGED <<callback, pbuf, ended>>
    <2>. HIDE DEF x
    <2>. QED BY <1>5, Zenon DEF client_socks_send_handler_done, socksStep
<1>. HIDE DEF x
<1>9. Live(x) /\ Callbacks(x) /\ Accounts(x) /\ SocksSide(x) /\ Receives(x)
    BY <1>1, <1>3, <1>4, <1>6, <1>7, SizesPositive
    DEF Live, Callbacks, Accounts, SocksSide, Receives, Client
<1>10. CASE x.buf_used > 0
    <2>1. c' = [x EXCEPT !.sending = x.buf_used]
        BY <1>8, <1>10, Zenon DEF client_send_to_socks
    <2>2. c' \in Client
        BY <1>4, <1>6, <1>7, <2>1, SetWindow, Zenon
    <2>3. CInv(c') /\ Live(c') /\ (c'.socks_closed <=> c.socks_closed) /\ (c'.client_closed <=> c.client_closed)
        BY <1>1, <1>2, <1>3, <1>6, <1>7, <1>9, <1>10, <2>1, <2>2
        DEF CInv, Fresh, Callbacks, Accounts, SocksSide, Flows, HalfClosed, Live, Receives, Client
    <2>. QED
        BY <1>3, <1>8, <2>3, Zenon DEF CallbackInv, EndedInv, ReturnIsTrue, NoSilentLoss, Live
<1>11. CASE ~(x.buf_used > 0) /\ x.client_closed
    <2>1. c' = client_free_socks(x)
        BY <1>8, <1>11, Zenon
    <2>2. /\ CInv(c') /\ c'.alloc # "none"
          /\ c'.alloc = "live" => ~x.client_closed
          /\ c'.buf_used = x.buf_used
        BY <1>2, <1>6, <1>7, <1>9, <2>1, FreeSocks, Zenon
    <2>3. c'.alloc = "freed" /\ c'.buf_used = 0
        BY <1>6, <1>11, <2>2 DEF CInv, Client
    <2>. QED
        BY <1>3, <1>7, <1>8, <1>11, <2>2, <2>3, Zenon DEF CallbackInv, EndedInv, ReturnIsTrue, NoSilentLoss, Live
<1>12. CASE ~(x.buf_used > 0) /\ ~x.client_closed
    <2>1. c' = x
        BY <1>8, <1>12, Zenon
    <2>2. CInv(x)
        BY <1>1, <1>2, <1>3, <1>6, <1>7, <1>9, <1>12
        DEF CInv, Fresh, Callbacks, Accounts, SocksSide, Flows, HalfClosed, Live, Receives, Client
    <2>. QED
        BY <1>3, <1>7, <1>8, <1>9, <2>1, <2>2, Zenon DEF CallbackInv, EndedInv, ReturnIsTrue, NoSilentLoss, Live
<1>. QED BY <1>10, <1>11, <1>12, Zenon

(* client_socks_recv_handler_done (tun2socks.c:2063-2090).                  *)
LEMMA RecvDoneStep == ASSUME Inv, NEW n \in 1..RECV_BUF_SIZE, client_socks_recv_handler_done(n) PROVE Inv'
<1>. USE DEF Inv
<1>. DEFINE x == [c EXCEPT !.receiving = FALSE]
            x1 == [x EXCEPT !.socks_recv_buf_used = n]
            x2 == [x1 EXCEPT !.socks_recv_buf_sent = 0]
            z == [x2 EXCEPT !.socks_recv_waiting = FALSE]
<1>1. c \in Client /\ c.receiving
    BY Zenon DEF CInv, client_socks_recv_handler_done
<1>2. c.alloc # "none" /\ ~c.socks_closed /\ c.socks_up
    BY <1>1, Zenon DEF CInv, SocksSide, Fresh, Client
<1>3. /\ Live(c) /\ Callbacks(c) /\ Accounts(c) /\ SocksSide(c) /\ Receives(c) /\ Sends(c)
      /\ c.pcb = "open" <=> ~c.client_closed
    BY <1>2, LiveClient, OpenClient, Zenon
<1>4. x \in Client
    BY <1>1, SetFlag, Zenon
<1>5. CASE c.client_closed
    <2>1. c' = x /\ ret' = "none" /\ UNCHANGED <<callback, pbuf, ended>>
        BY <1>5, Zenon DEF client_socks_recv_handler_done, socksStep
    <2>2. CInv(x) /\ Live(x) /\ ~x.socks_closed /\ x.client_closed
        BY <1>1, <1>2, <1>3, <1>4, <1>5, Zenon
        DEF CInv, Fresh, Callbacks, Accounts, SocksSide, Flows, HalfClosed, Live, Receives, Client
    <2>. HIDE DEF x
    <2>. QED
        BY <1>3, <1>5, <2>1, <2>2, Zenon DEF CallbackInv, EndedInv, ReturnIsTrue, NoSilentLoss, Live
<1>6. CASE ~c.client_closed
    <2>1. n \in -1..RECV_BUF_SIZE /\ 0 \in 0..RECV_BUF_SIZE
        BY SizesPositive
    <2>2. z = [x EXCEPT !.socks_recv_buf_used = n, !.socks_recv_buf_sent = 0, !.socks_recv_waiting = FALSE]
        OBVIOUS
    <2>3. /\ z.alloc = c.alloc /\ (z.socks_closed <=> c.socks_closed) /\ (z.client_closed <=> c.client_closed)
          /\ (z.socks_up <=> c.socks_up) /\ z.buf_used = c.buf_used /\ z.pcb = c.pcb
          /\ z.sending = c.sending /\ ~z.receiving
          /\ z.socks_recv_buf_used = n /\ z.socks_recv_buf_sent = 0
          /\ z.socks_recv_tcp_pending = c.socks_recv_tcp_pending
          /\ z.unacked = c.unacked
          /\ (z.err <=> c.err) /\ (z.sent <=> c.sent) /\ (z.recv <=> c.recv)
          /\ z.rcv_wnd = c.rcv_wnd /\ (z.refused <=> c.refused)
        BY <1>1 DEF Client
    <2>4. z \in Client
        <3>. HIDE DEF x
        <3>1. x1 \in Client
            BY <1>4, <2>1, SetReceived, Zenon
        <3>. HIDE DEF x1
        <3>2. x2 \in Client
            BY <2>1, <3>1, SetReceived, Zenon
        <3>. HIDE DEF x2
        <3>. QED BY <3>2, SetFlag, Zenon
    <2>5. PICK y \in client_socks_recv_send_out(z) :
            /\ socksStep(IF ~y.client_closed /\ y.socks_recv_buf_used = -1
                         THEN client_socks_recv_initiate(y) ELSE y)
            /\ ended' = IF y.client_closed THEN ended \cup {"client"} ELSE ended
        <3>. HIDE DEF z
        <3>. QED BY <1>6, <2>2, Zenon DEF client_socks_recv_handler_done
    <2>. HIDE DEF z
    <2>6. ToSend(z)
        BY <1>2, <1>3, <1>6, <2>3, <2>4
        DEF ToSend, Live, Callbacks, Accounts, SocksSide, Sends, Client
    <2>7. SentOut(z, y) \/ Aborted(z, y)
        BY <2>6, SendOut, Zenon
    <2>8. CASE Aborted(z, y)
        <3>1. c' = y /\ ret' = "none" /\ ended' = ended \cup {"client"} /\ UNCHANGED <<callback, pbuf>>
            BY <2>5, <2>8, Zenon DEF Aborted, socksStep
        <3>. QED
            BY <1>2, <2>3, <2>8, <3>1, Zenon
            DEF Aborted, CallbackInv, EndedInv, ReturnIsTrue, NoSilentLoss, Live
    <2>9. CASE SentOut(z, y) /\ y.socks_recv_buf_used = -1
        <3>1. c' = [y EXCEPT !.receiving = TRUE] /\ ret' = "none" /\ UNCHANGED <<callback, pbuf, ended>>
            BY <2>5, <2>9, Zenon DEF SentOut, socksStep, client_socks_recv_initiate
        <3>2. c' \in Client
            BY <2>9, <3>1, SetFlag, Zenon DEF SentOut
        <3>3. CInv(c') /\ Live(c') /\ ~c'.client_closed /\ ~c'.socks_closed
            BY <1>2, <2>3, <2>9, <3>1, <3>2
            DEF SentOut, CInv, Fresh, Callbacks, Accounts, SocksSide, Flows, HalfClosed, Live,
                Sends, Receives, Client
        <3>. QED
            BY <3>1, <3>3, Zenon DEF CallbackInv, EndedInv, ReturnIsTrue, NoSilentLoss, Live
    <2>10. CASE SentOut(z, y) /\ y.socks_recv_buf_used # -1
        <3>1. c' = y /\ ret' = "none" /\ UNCHANGED <<callback, pbuf, ended>>
            BY <2>5, <2>10, Zenon DEF SentOut, socksStep
        <3>2. CInv(y) /\ Live(y) /\ ~y.client_closed /\ ~y.socks_closed
            BY <1>2, <2>3, <2>10, Zenon
            DEF SentOut, CInv, Fresh, Callbacks, Accounts, SocksSide, Flows, HalfClosed, Live,
                Sends, Receives, Client
        <3>. QED
            BY <3>1, <3>2, Zenon DEF CallbackInv, EndedInv, ReturnIsTrue, NoSilentLoss, Live
    <2>. QED BY <2>7, <2>8, <2>9, <2>10, Zenon
<1>. QED BY <1>5, <1>6, Zenon
-----------------------------------------------------------------------------
(* The inductive invariant: the client record is consistent, the callback   *)
(* in SYNC_COMMIT belongs to an accepted client, and an end that is closed  *)
(* while the client lives was recorded (tun2socks.c:1653-2206).             *)
THEOREM Invariance == Spec => []Inv
<1>1. Inv /\ [Next]_vars => Inv'
    <2>. SUFFICES ASSUME Inv, [Next]_vars PROVE Inv'
        OBVIOUS
    <2>1. CASE Lwip
        BY <2>1, AcceptStep, AcceptFailsStep, ReturnStep, ReceiveStep, FinStep, SentStep, ErrStep, Zenon DEF Lwip
    <2>2. CASE Socks
        BY <2>2, UpStep, ErrorStep, SendDoneStep, RecvDoneStep, Zenon DEF Socks
    <2>3. CASE teardown
        BY <2>3, TeardownStep, Zenon
    <2>4. CASE UNCHANGED vars
        BY <2>4, Zenon DEF vars, Inv, CallbackInv, EndedInv, ReturnIsTrue, NoSilentLoss
    <2>. QED BY <2>1, <2>2, <2>3, <2>4, Zenon DEF Next
<1>. QED BY InitInv, <1>1, PTL DEF Spec

(* The state is well typed: no counter of the client leaves its buffer      *)
(* (tun2socks.c:138-159).                                                   *)
THEOREM TypeCorrect == Spec => []TypeOK
<1>1. Inv => TypeOK
    BY Zenon DEF Inv, CInv, CallbackInv, EndedInv, TypeOK
<1>. QED BY <1>1, Invariance, PTL

(* For every window, lwIP's free window and the client's buffer add up, so  *)
(* client_recv_func never refuses data (tun2socks.c:1928, 2038).            *)
THEOREM WindowAlwaysFits == Spec => []WindowIsBuffer
<1>1. Inv => WindowIsBuffer
    BY Zenon DEF Inv, CInv, Accounts, WindowIsBuffer
<1>. QED BY <1>1, Invariance, PTL

(* The pending count is lwIP's count of unacknowledged bytes                *)
(* (tun2socks.c:2129, 2164).                                                *)
THEOREM PendingIsExact == Spec => []PendingIsUnacked
<1>1. Inv => PendingIsUnacked
    BY Zenon DEF Inv, CInv, Accounts, PendingIsUnacked
<1>. QED BY <1>1, Invariance, PTL

(* For all buffer sizes, no direction of a relayed connection waits for an  *)
(* event that cannot come (tun2socks.c:2041-2044, 2135-2145, 2180-2183).    *)
THEOREM RelayNeverStalls == Spec => []NeverStalls
<1>1. Inv => NeverStalls
    BY DEF Inv, CInv, Callbacks, SocksSide, Flows, NeverStalls, Live, Client
<1>. QED BY <1>1, Invariance, PTL

(* lwIP never calls into a client that is gone (tun2socks.c:1790-1792).     *)
THEOREM CallbacksStayLive == Spec => []CallbacksAreLive
<1>1. Inv => CallbacksAreLive
    BY Zenon DEF Inv, CInv, Callbacks, CallbacksAreLive, Live, Client
<1>. QED BY <1>1, Invariance, PTL

(* A half-closed client has something left to deliver                       *)
(* (tun2socks.c:1774-1781, 1838-1845).                                      *)
THEOREM NoZombieClients == Spec => []NoZombie
<1>1. Inv => NoZombie
    BY Zenon DEF Inv, CInv, HalfClosed, NoZombie, Live
<1>. QED BY <1>1, Invariance, PTL

(* The value that a callback returns tells lwIP the truth about its pcb     *)
(* (tun2socks.c:1744-1751, 1944-1955, 2187-2202).                           *)
THEOREM ReturnsAreTrue == Spec => []ReturnIsTrue
<1>1. Inv => ReturnIsTrue
    BY Zenon DEF Inv, CallbackInv
<1>. QED BY <1>1, Invariance, PTL

(* No data is dropped while the end it is for is healthy                    *)
(* (tun2socks.c:1774, 1838, 2045-2049, 2199).                               *)
THEOREM NothingLostSilently == Spec => []NoSilentLoss
<1>1. Inv => NoSilentLoss
    BY Zenon DEF Inv, EndedInv
<1>. QED BY <1>1, Invariance, PTL

(* No handler changes a client that has been freed (tun2socks.c:1881-1899). *)
THEOREM FreedStaysFreed == Spec => FreedIsFinal
<1>1. Inv /\ [Next]_vars => [c.alloc = "freed" => c' = c]_vars
    <2>. SUFFICES ASSUME Inv, Next, c.alloc = "freed" PROVE c' = c
        BY Zenon DEF vars
    <2>1. /\ c \in Client /\ c.client_closed /\ c.socks_closed /\ c.pcb # "open"
          /\ c.sending = 0 /\ ~c.receiving
        BY Zenon DEF Inv, CInv, Callbacks, HalfClosed, SocksSide, Client
    <2>2. ~listener_accept_func /\ ~listener_accept_fails /\ ~client_recv_func_null /\ ~client_err_func
        BY <2>1, Zenon DEF listener_accept_func, listener_accept_fails, client_recv_func_null, client_err_func, quiet
    <2>3. \A n : ~client_recv_func(n) /\ ~client_sent_func(n)
        BY <2>1, Zenon DEF client_recv_func, client_sent_func, quiet
    <2>4. ~client_socks_up /\ ~client_socks_error /\ ~client_socks_error_closed
        BY <2>1, Zenon DEF client_socks_up, client_socks_error, client_socks_error_closed, socksAlive
    <2>5. \A n : ~client_socks_recv_handler_done(n)
        BY <2>1, Zenon DEF client_socks_recv_handler_done
    <2>6. \A n \in 1..TCP_WND : ~client_socks_send_handler_done(n)
        BY <2>1, SizesPositive DEF client_socks_send_handler_done
    <2>7. ~teardown
        BY Zenon DEF teardown
    <2>8. callback_returns
        BY <2>2, <2>3, <2>4, <2>5, <2>6, <2>7, Zenon DEF Next, Lwip, Socks
    <2>. QED BY <2>8, Zenon DEF callback_returns
<1>. QED BY <1>1, Invariance, PTL DEF Spec, FreedIsFinal
-----------------------------------------------------------------------------
(* A client implements the relay, for every size of the window and of the   *)
(* buffers.  Every handler is one step of Relay or none that Relay can see; *)
(* the lemmas take them in the order of TcpClient.                          *)

(* Two records that are the same relay.                                     *)
SameRelay(x, y) ==
    /\ relayUp(y) = relayUp(x) /\ relayDown(y) = relayDown(x)
    /\ y.pcb = x.pcb /\ relaySocks(y) = relaySocks(x)

(* A step that changes nothing of the relay is a stuttering step of it      *)
(* (tun2socks.c:138-159).                                                   *)
LEMMA Stutters == ASSUME SameRelay(c, c') PROVE [R!Next]_(R!vars)
BY Zenon DEF SameRelay, R!vars

(* The values of the relay stay in their rooms (tun2socks.c:141, 155).      *)
LEMMA RelayRange ==
    ASSUME CInv(c)
    PROVE  /\ relayUp(c) \in 0..TCP_WND
           /\ relayDown(c) \in 0..(TCP_SND_BUF + RECV_BUF_SIZE)
           /\ relaySocks(c) \in {"open", "gone"}
<1>1. c \in Client
    BY Zenon DEF CInv
<1>2. relayUp(c) \in 0..TCP_WND /\ relaySocks(c) \in {"open", "gone"}
    BY <1>1, SizesPositive DEF relayUp, relaySocks, Client
<1>3. Live(c) /\ c.socks_up /\ ~c.client_closed /\ c.socks_recv_buf_used # -1 =>
            c.socks_recv_buf_sent <= c.socks_recv_buf_used
    BY <1>1 DEF CInv, Flows, Live, Client
<1>4. relayDown(c) \in 0..(TCP_SND_BUF + RECV_BUF_SIZE)
    BY <1>1, <1>3, SizesPositive DEF relayDown, Live, Client
<1>. QED BY <1>2, <1>4, Zenon

(* A client that loses its pcb is a relay whose application ends: what the  *)
(* application had sent stays on its way (tun2socks.c:1761-1783).           *)
LEMMA PcbGone ==
    ASSUME CInv(c), Live(c), c.pcb = "open", CInv(c'),
           c'.client_closed, c'.pcb \in {"closed", "aborted"}, c'.alloc # "none",
           c'.buf_used = c.buf_used,
           c'.alloc = "live" => ~c.socks_closed /\ ~c'.socks_closed,
           c'.alloc = "freed" => c.socks_closed \/ c.buf_used = 0
    PROVE  R!AppEnds
<1>1. c \in Client /\ c' \in Client
    BY Zenon DEF CInv
<1>2. relayDown(c') = 0
    BY Zenon DEF relayDown
<1>3. CASE c'.alloc = "live"
    <2>1. c.buf_used > 0
        BY <1>1, <1>3, Zenon DEF CInv, HalfClosed, Live, Client
    <2>2. relayUp(c') = c.buf_used /\ relayUp(c) = c.buf_used
        BY <1>3, Zenon DEF relayUp, Live
    <2>3. relaySocks(c) = "open" /\ relaySocks(c') = "open"
        BY <1>3, Zenon DEF relaySocks, Live
    <2>. QED BY <1>1, <1>2, <2>1, <2>2, <2>3 DEF R!AppEnds, Client
<1>4. CASE c'.alloc = "freed"
    <2>1. relayUp(c) = 0 /\ relayUp(c') = 0
        BY <1>1, <1>4, Zenon DEF relayUp, Client
    <2>2. relaySocks(c') = "gone"
        BY <1>4, Zenon DEF relaySocks, CInv, HalfClosed
    <2>. QED BY <1>2, <2>1, <2>2, Zenon DEF R!AppEnds
<1>. QED BY <1>1, <1>3, <1>4, Zenon DEF Client
-----------------------------------------------------------------------------
(* Accepting a connection is not seen by the relay (tun2socks.c:1719-1740). *)
LEMMA AcceptMaps == ASSUME Inv, listener_accept_func PROVE [R!Next]_(R!vars)
<1>1. c \in Client /\ Fresh(c) /\ c.alloc = "none" /\ c.pcb = "open"
    BY Zenon DEF Inv, CInv, listener_accept_func, quiet
<1>2. c' = [c EXCEPT !.alloc = "live", !.recv = TRUE, !.err = TRUE]
    BY Zenon DEF listener_accept_func
<1>3. /\ c'.alloc = "live" /\ c'.pcb = c.pcb /\ c'.buf_used = c.buf_used
      /\ c'.socks_closed = c.socks_closed /\ c'.socks_up = c.socks_up
    BY <1>1, <1>2, Zenon DEF Client
<1>4. ~c.socks_closed /\ ~c.socks_up /\ c.buf_used = 0
    BY <1>1, Zenon DEF Fresh
<1>5. SameRelay(c, c')
    BY <1>1, <1>3, <1>4, Zenon DEF SameRelay, relayUp, relayDown, relaySocks
<1>. QED BY <1>5, Stutters, Zenon

(* A connection that cannot be accepted ends on both sides                  *)
(* (tun2socks.c:1753-1759).                                                 *)
LEMMA AcceptFailsMaps == ASSUME Inv, listener_accept_fails PROVE [R!Next]_(R!vars)
<1>1. c \in Client /\ c.alloc = "none" /\ c.pcb = "open"
    BY Zenon DEF Inv, CInv, listener_accept_fails, quiet
<1>2. c'.alloc = "none" /\ c'.pcb = "aborted"
    BY <1>1, Zenon DEF listener_accept_fails, Client
<1>3. R!AppEnds
    BY <1>1, <1>2, Zenon DEF R!AppEnds, relayUp, relayDown, relaySocks
<1>. QED BY <1>3, Zenon DEF R!Next

(* Data from the application (tun2socks.c:1925-1942).                       *)
LEMMA ReceiveMaps == ASSUME Inv, NEW n \in 1..TCP_WND, client_recv_func(n) PROVE [R!Next]_(R!vars)
<1>. DEFINE x == [c EXCEPT !.rcv_wnd = @ - n, !.buf_used = @ + n]
<1>1. /\ c \in Client /\ Live(c) /\ ~c.client_closed /\ c.pcb = "open"
      /\ c.rcv_wnd + c.buf_used = TCP_WND
    BY LiveClient, OpenClient, Zenon DEF client_recv_func, quiet, Accounts, Inv
<1>2. c.recv => ~c.socks_closed
    BY <1>1, Zenon DEF Inv, CInv, Callbacks, Live, Client
<1>3. n <= TCP_WND - c.buf_used /\ 1 <= n /\ n \in Nat /\ c.buf_used \in Nat
    BY <1>1, SizesPositive DEF client_recv_func, Client
<1>4. CASE ~c.recv
    BY <1>4, Stutters, Zenon DEF client_recv_func, SameRelay
<1>5. CASE c.recv
    <2>1. c' = client_send_to_socks(x) \/ c' = x
        BY <1>1, <1>3, <1>5 DEF client_recv_func, Client
    <2>2. /\ c'.alloc = c.alloc /\ c'.pcb = c.pcb /\ c'.buf_used = c.buf_used + n
          /\ c'.socks_closed = c.socks_closed /\ c'.socks_up = c.socks_up
          /\ c'.client_closed = c.client_closed
          /\ c'.socks_recv_tcp_pending = c.socks_recv_tcp_pending
          /\ c'.socks_recv_buf_used = c.socks_recv_buf_used
          /\ c'.socks_recv_buf_sent = c.socks_recv_buf_sent
        BY <1>1, <2>1 DEF client_send_to_socks, Client
    <2>3. relayUp(c) = c.buf_used /\ relayUp(c') = c.buf_used + n
        BY <1>1, <1>2, <1>5, <2>2, Zenon DEF relayUp, Live
    <2>4. relayDown(c') = relayDown(c)
        BY <2>2, Zenon DEF relayDown
    <2>5. relaySocks(c) = "open" /\ relaySocks(c') = "open"
        BY <1>1, <1>2, <1>5, <2>2, Zenon DEF relaySocks, Live
    <2>6. R!AppSends(n)
        BY <1>1, <1>3, <2>2, <2>3, <2>4, <2>5, SizesPositive DEF R!AppSends
    <2>. QED BY <2>6, Zenon DEF R!Next
<1>. QED BY <1>4, <1>5, Zenon

(* A FIN from the application (tun2socks.c:1919-1923).                      *)
LEMMA FinMaps == ASSUME Inv, client_recv_func_null PROVE [R!Next]_(R!vars)
<1>. DEFINE x == [c EXCEPT !.fin = TRUE]
<1>1. c \in Client /\ Live(c) /\ ~c.client_closed /\ c.pcb = "open" /\ SocksSide(c) /\ Sends(c)
    BY LiveClient, OpenClient, Zenon DEF client_recv_func_null, quiet, Inv
<1>2. x \in Client
    BY <1>1, SetFlag, Zenon
<1>3. Live(x) /\ SocksSide(x) /\ Sends(x) /\ x.buf_used = c.buf_used /\ (x.socks_closed <=> c.socks_closed)
    BY <1>1, <1>2, Zenon DEF SocksSide, Sends, Live, Client
<1>4. CASE c.recv
    <2>1. c' = client_handle_freed_client(withoutPcb(x, "closed"))
        BY <1>4, Zenon DEF client_recv_func_null, client_free_client
    <2>. HIDE DEF x
    <2>2. R!AppEnds
        BY <1>1, <1>2, <1>3, <2>1, FreeClient, PcbGone DEF Inv
    <2>. QED BY <2>2, Zenon DEF R!Next
<1>5. CASE ~c.recv
    <2>1. c' = x
        BY <1>5, Zenon DEF client_recv_func_null
    <2>2. SameRelay(c, c')
        BY <1>1, <2>1, Zenon DEF SameRelay, relayUp, relayDown, relaySocks, Client
    <2>. QED BY <2>2, Stutters, Zenon
<1>. QED BY <1>4, <1>5, Zenon

(* lwIP gave up on the connection (tun2socks.c:1901-1910).                  *)
LEMMA ErrMaps == ASSUME Inv, client_err_func PROVE [R!Next]_(R!vars)
<1>1. c \in Client /\ Live(c) /\ SocksSide(c) /\ Sends(c) /\ c.pcb = "open"
    BY Zenon DEF client_err_func, quiet, Inv, CInv, Callbacks, Flows, Sends, Live
<1>2. c' = client_handle_freed_client(withoutPcb(c, "aborted"))
    BY Zenon DEF client_err_func
<1>3. R!AppEnds
    BY <1>1, <1>2, FreeClient, PcbGone DEF Inv
<1>. QED BY <1>3, Zenon DEF R!Next

(* An acknowledgement (tun2socks.c:2154-2206).  When it makes room for data *)
(* that waited, queuing that data can only fail by aborting the client.     *)
LEMMA SentMaps == ASSUME Inv, NEW n \in 1..TCP_SND_BUF, client_sent_func(n) PROVE [R!Next]_(R!vars)
<1>. DEFINE p == c.unacked - n
            x1 == [c EXCEPT !.unacked = p]
            x == [x1 EXCEPT !.socks_recv_tcp_pending = p]
            z == [x EXCEPT !.socks_recv_waiting = FALSE]
<1>1. /\ c \in Client /\ Live(c) /\ ~c.client_closed /\ c.socks_up /\ c.pcb = "open"
      /\ c.socks_recv_tcp_pending = c.unacked
      /\ Callbacks(c) /\ Accounts(c) /\ SocksSide(c) /\ Sends(c) /\ Receives(c)
    BY OpenClient, Zenon DEF client_sent_func, quiet, Inv, CInv, Callbacks, Accounts, Live, Client
<1>2. p \in 0..TCP_SND_BUF /\ n \in Nat /\ 1 <= n /\ n <= c.unacked
    BY <1>1, SizesPositive DEF client_sent_func, Client
<1>3. x = [c EXCEPT !.unacked = @ - n, !.socks_recv_tcp_pending = @ - n]
    BY <1>1, Zenon DEF Client
<1>4. x \in Client
    BY <1>1, <1>2, SetPending, Zenon
<1>5. /\ x.alloc = c.alloc /\ (x.socks_closed <=> c.socks_closed) /\ (x.client_closed <=> c.client_closed)
      /\ (x.socks_up <=> c.socks_up) /\ x.buf_used = c.buf_used /\ x.pcb = c.pcb
      /\ x.sending = c.sending /\ (x.receiving <=> c.receiving)
      /\ x.socks_recv_buf_used = c.socks_recv_buf_used
      /\ x.socks_recv_buf_sent = c.socks_recv_buf_sent
      /\ x.socks_recv_tcp_pending = p /\ x.unacked = p
      /\ (x.err <=> c.err) /\ (x.sent <=> c.sent) /\ (x.recv <=> c.recv)
      /\ x.rcv_wnd = c.rcv_wnd /\ (x.refused <=> c.refused)
    BY <1>1, Zenon DEF Client
<1>. HIDE DEF x
<1>6. Live(x) /\ Callbacks(x) /\ Accounts(x) /\ SocksSide(x) /\ Sends(x)
    BY <1>1, <1>2, <1>4, <1>5 DEF Live, Callbacks, Accounts, SocksSide, Sends, Client
<1>7. relayDown(c) = relayDown(x) + n /\ relayUp(x) = relayUp(c) /\ relaySocks(x) = relaySocks(c)
    BY <1>1, <1>2, <1>4, <1>5 DEF relayDown, relayUp, relaySocks, Live, Client
<1>8. /\ relayDown(c) \in 0..(TCP_SND_BUF + RECV_BUF_SIZE) /\ relayDown(x) \in Int
      /\ relaySocks(c) \in {"open", "gone"}
      /\ relayDown(x) >= 0
    <2>1. relayDown(x) \in Nat
        BY <1>1, <1>2, <1>4, <1>5 DEF relayDown, Receives, Live, Client
    <2>. QED BY <2>1, RelayRange DEF Inv
(* The client survives, with the relay of x.                                *)
<1>9. ASSUME relayUp(c') = relayUp(x), relayDown(c') = relayDown(x), c'.pcb = "open",
             relaySocks(c') = relaySocks(x),
             relaySocks(c) = "open" \/ relayDown(x) # 0
      PROVE  R!AppAcks(n)
    BY <1>1, <1>2, <1>7, <1>8, <1>9, SizesPositive DEF R!AppAcks
<1>10. ASSUME R!AppAcks(n) \/ R!AppEnds PROVE [R!Next]_(R!vars)
    <2>1. n \in 1..(TCP_SND_BUF + RECV_BUF_SIZE)
        BY <1>2, SizesPositive
    <2>. QED BY <1>10, <2>1, Zenon DEF R!Next
<1>11. x.socks_recv_buf_used \in Int
    BY <1>4 DEF Client
<1>12. \/ x.socks_recv_buf_used > 0 /\ continueQueuing(x)
       \/ /\ x.socks_recv_buf_used <= 0
          /\ IF x.socks_closed /\ x.socks_recv_tcp_pending = 0
             THEN c' = client_free_client(x) ELSE c' = x
    BY <1>3, Zenon DEF client_sent_func
<1>13. CASE x.socks_recv_buf_used > 0
    <2>1. PICK y \in client_socks_recv_send_out(z) :
            \/ y.client_closed /\ c' = y
            \/ ~y.client_closed /\ c' \in {y, client_socks_recv_initiate(y)}
        <3>1. continueQueuing(x)
            BY <1>11, <1>12, <1>13
        <3>. QED BY <3>1, Zenon DEF continueQueuing
    <2>2. z \in Client
        BY <1>4, SetFlag, Zenon
    <2>3. /\ (z.socks_closed <=> c.socks_closed) /\ z.buf_used = c.buf_used
          /\ relayDown(z) = relayDown(x)
        BY <1>4, <1>5, <2>2, Zenon DEF relayDown, Client
    <2>4. ToSend(z)
        <3>1. ~x.receiving /\ x.socks_recv_buf_sent < x.socks_recv_buf_used
            BY <1>1, <1>5, <1>13 DEF Inv, CInv, Flows, SocksSide, Live, Client
        <3>2. /\ z.alloc = x.alloc /\ (z.client_closed <=> x.client_closed) /\ (z.socks_up <=> x.socks_up)
              /\ (z.receiving <=> x.receiving) /\ z.sending = x.sending /\ z.pcb = x.pcb
              /\ z.socks_recv_buf_used = x.socks_recv_buf_used
              /\ z.socks_recv_buf_sent = x.socks_recv_buf_sent
              /\ z.socks_recv_tcp_pending = x.socks_recv_tcp_pending /\ z.unacked = x.unacked
              /\ (z.err <=> x.err) /\ (z.sent <=> x.sent) /\ (z.recv <=> x.recv)
              /\ z.rcv_wnd = x.rcv_wnd /\ (z.refused <=> x.refused)
            BY <1>4, <2>2 DEF Client
        <3>. QED
            BY <1>1, <1>4, <1>5, <1>6, <2>2, <2>3, <3>1, <3>2, Zenon
            DEF ToSend, Live, Callbacks, Accounts, SocksSide, Sends, Client
    <2>. HIDE DEF z
    <2>5. SentOut(z, y) \/ Aborted(z, y)
        BY <2>4, SendOut, Zenon
    <2>6. CASE Aborted(z, y)
        <3>1. c' = y
            BY <2>1, <2>6, Zenon DEF Aborted
        <3>2. R!AppEnds
            BY <1>1, <2>3, <2>6, <3>1, PcbGone, Zenon DEF Aborted, Inv
        <3>. QED BY <1>10, <3>2, Zenon
    <2>7. CASE SentOut(z, y)
        <3>1. /\ y.pcb = "open" /\ relayUp(y) = relayUp(x) /\ relaySocks(y) = relaySocks(x)
              /\ relayDown(y) = relayDown(x) /\ relayDown(x) > 0
            <4>1. y.pcb = "open" /\ relayUp(y) = relayUp(x) /\ relaySocks(y) = relaySocks(x)
                BY <1>5, <1>6, <2>3, <2>7, Zenon DEF SentOut, Callbacks, Live, relayUp, relaySocks
            <4>2. relayDown(y) = relayDown(x)
                BY <2>3, <2>7, Zenon DEF SentOut
            <4>3. relayDown(y) > 0
                BY <2>7 DEF SentOut, Receives, relayDown, Live, Client
            <4>. QED BY <4>1, <4>2, <4>3, Zenon
        <3>2. /\ c'.pcb = y.pcb /\ relayUp(c') = relayUp(y) /\ relaySocks(c') = relaySocks(y)
              /\ relayDown(c') = relayDown(y)
            <4>1. y \in Client /\ c' \in {y, [y EXCEPT !.receiving = TRUE]}
                BY <2>1, <2>7, Zenon DEF SentOut, client_socks_recv_initiate
            <4>. QED BY <4>1 DEF relayUp, relayDown, relaySocks, Client
        <3>3. relayDown(x) # 0
            BY <1>8, <3>1
        <3>. QED BY <1>9, <1>10, <3>1, <3>2, <3>3, Zenon
    <2>. QED BY <2>5, <2>6, <2>7, Zenon
<1>14. CASE x.socks_recv_buf_used <= 0
    <2>1. x.socks_recv_buf_used = -1
        BY <1>1, <1>4, <1>5, <1>14 DEF Receives, Client
    <2>2. relayDown(x) = p
        BY <1>1, <1>2, <1>4, <1>5, <2>1 DEF relayDown, Live, Client
    <2>3. CASE x.socks_closed /\ x.socks_recv_tcp_pending = 0
        <3>1. c' = client_handle_freed_client(withoutPcb(x, "closed"))
            BY <1>11, <1>12, <1>14, <2>3 DEF client_free_client
        <3>2. /\ CInv(c') /\ c'.client_closed /\ c'.pcb = "closed"
              /\ c'.alloc = "live" => ~x.socks_closed
              /\ c'.alloc # "none"
            BY <1>4, <1>6, <3>1, FreeClient
        <3>3. c'.alloc = "freed" /\ c'.socks_closed
            BY <2>3, <3>2, Zenon DEF CInv, HalfClosed, Client
        <3>4. /\ relayDown(c') = 0 /\ relayUp(c') = 0 /\ relaySocks(c') = "gone"
              /\ relayUp(c) = 0 /\ relaySocks(c) = "gone"
            BY <1>5, <2>3, <3>2, <3>3, Zenon DEF relayDown, relayUp, relaySocks
        <3>5. relayDown(c) = n
            BY <1>2, <1>5, <1>7, <2>2, <2>3
        <3>6. R!AppAcks(n)
            BY <1>1, <1>2, <3>2, <3>4, <3>5 DEF R!AppAcks
        <3>. QED BY <1>10, <3>6, Zenon
    <2>4. CASE ~(x.socks_closed /\ x.socks_recv_tcp_pending = 0)
        <3>1. c' = x
            BY <1>11, <1>12, <1>14, <2>4
        <3>2. relaySocks(c) = "open" \/ relayDown(x) # 0
            BY <1>1, <1>5, <2>2, <2>4, Zenon DEF relaySocks, Live
        <3>. QED BY <1>1, <1>5, <1>9, <1>10, <3>1, <3>2, Zenon
    <2>. QED BY <2>3, <2>4, Zenon
<1>. QED BY <1>11, <1>13, <1>14
-----------------------------------------------------------------------------
(* SOCKS is up: nothing moves yet (tun2socks.c:1969-1999).                  *)
LEMMA UpMaps == ASSUME Inv, client_socks_up PROVE [R!Next]_(R!vars)
<1>. DEFINE x == [c EXCEPT !.socks_up = TRUE, !.socks_recv_buf_used = -1,
                           !.socks_recv_tcp_pending = 0, !.sent = ~c.client_closed]
            y == IF x.buf_used > 0 THEN client_send_to_socks(x) ELSE x
            z == IF y.client_closed THEN y ELSE client_socks_recv_initiate(y)
<1>1. c \in Client /\ Live(c) /\ ~c.socks_closed /\ ~c.socks_up
    BY LiveClient, OpenClient, Zenon DEF client_socks_up, socksAlive, openJob, Inv
<1>2. c' = z
    BY Zenon DEF client_socks_up, socksStep
<1>3. /\ x.alloc = c.alloc /\ x.pcb = c.pcb /\ x.buf_used = c.buf_used
      /\ x.socks_closed = c.socks_closed /\ x.client_closed = c.client_closed
      /\ x.socks_recv_tcp_pending = 0 /\ x.socks_recv_buf_used = -1
      /\ DOMAIN x = DOMAIN c
    BY <1>1, Zenon DEF Client
<1>. HIDE DEF x
<1>4. /\ z.alloc = x.alloc /\ z.pcb = x.pcb /\ z.buf_used = x.buf_used
      /\ z.socks_closed = x.socks_closed /\ z.client_closed = x.client_closed
      /\ z.socks_recv_tcp_pending = x.socks_recv_tcp_pending
      /\ z.socks_recv_buf_used = x.socks_recv_buf_used
    BY <1>1, <1>3, Zenon DEF client_send_to_socks, client_socks_recv_initiate, Client
<1>. HIDE DEF z
<1>5. SameRelay(c, c')
    BY <1>1, <1>2, <1>3, <1>4 DEF SameRelay, relayUp, relayDown, relaySocks, Live
<1>. QED BY <1>5, Stutters, Zenon

(* The SOCKS connection ends (tun2socks.c:1958-1967, 2001-2012).            *)
LEMMA ErrorMaps == ASSUME Inv, client_socks_error \/ client_socks_error_closed PROVE [R!Next]_(R!vars)
<1>1. /\ c \in Client /\ Live(c) /\ ~c.socks_closed
      /\ Callbacks(c) /\ Accounts(c) /\ SocksSide(c) /\ Receives(c)
    BY LiveClient, OpenClient, Zenon DEF client_socks_error, client_socks_error_closed, socksAlive, Inv
<1>2. c' = client_free_socks(c)
    BY Zenon DEF client_socks_error, client_socks_error_closed, socksStep
<1>3. /\ CInv(c')
      /\ c'.socks_closed /\ c'.alloc # "none"
      /\ c'.alloc = "live" => ~c.client_closed
      /\ c'.alloc = "live" => relayDown(c') = relayDown(c) /\ c'.pcb = c.pcb
      /\ c'.alloc = "freed" =>
            /\ relayDown(c) = 0
            /\ c'.pcb = IF c.client_closed THEN c.pcb ELSE "closed"
    BY <1>1, <1>2, FreeSocks, Zenon
<1>4. relayUp(c') = 0 /\ relaySocks(c') = "gone" /\ relaySocks(c) = "open"
    BY <1>1, <1>3, Zenon DEF relayUp, relaySocks, Live
<1>5. c.pcb = "open" <=> ~c.client_closed
    BY <1>1, Zenon DEF Callbacks, Live, Client
<1>6. CASE c'.alloc = "live"
    <2>1. relayDown(c') # 0
        BY <1>3, <1>6 DEF CInv, HalfClosed, Flows, Live, relayDown, Client
    <2>2. R!SocksEnds
        BY <1>3, <1>4, <1>6, <2>1, Zenon DEF R!SocksEnds
    <2>. QED BY <2>2, Zenon DEF R!Next
<1>7. CASE c'.alloc = "freed"
    <2>1. relayDown(c') = 0
        BY <1>7, Zenon DEF relayDown
    <2>2. R!SocksEnds
        BY <1>3, <1>4, <1>5, <1>7, <2>1, Zenon DEF R!SocksEnds
    <2>. QED BY <2>2, Zenon DEF R!Next
<1>. QED BY <1>3, <1>6, <1>7, Zenon DEF CInv, Client

(* The client is freed with the program (tun2socks.c:726-731).              *)
LEMMA TeardownMaps == ASSUME Inv, teardown PROVE [R!Next]_(R!vars)
<1>1. c \in Client /\ Live(c) /\ SocksSide(c) /\ Callbacks(c)
    BY Zenon DEF teardown, Inv, CInv, Live
<1>2. c' = client_murder(c)
    BY Zenon DEF teardown, socksStep
<1>3. CInv(c') /\ c'.alloc = "freed" /\ c'.pcb = IF c.client_closed THEN c.pcb ELSE "aborted"
    BY <1>1, <1>2, Murder, Zenon
<1>4. relayUp(c') = 0 /\ relayDown(c') = 0 /\ relaySocks(c') = "gone"
    BY <1>3, Zenon DEF relayUp, relayDown, relaySocks, CInv, HalfClosed
<1>5. c.pcb = "open" \/ relaySocks(c) = "open"
    BY <1>1, Zenon DEF Inv, CInv, HalfClosed, Callbacks, relaySocks, Live, Client
<1>6. c.pcb = "open" <=> ~c.client_closed
    BY <1>1, Zenon DEF Callbacks, Live, Client
<1>7. R!Stops
    BY <1>3, <1>4, <1>5, <1>6, Zenon DEF R!Stops
<1>. QED BY <1>7, Zenon DEF R!Next

(* The SOCKS server took n bytes; the last ones of a client without a pcb   *)
(* free it (tun2socks.c:2024-2051).                                         *)
LEMMA SendDoneMaps ==
    ASSUME Inv, NEW n \in 1..TCP_WND, client_socks_send_handler_done(n) PROVE [R!Next]_(R!vars)
<1>. DEFINE x == [c EXCEPT !.buf_used = @ - n, !.sending = 0,
                           !.rcv_wnd = IF c.client_closed THEN @ ELSE @ + n]
<1>1. c \in Client /\ c.sending > 0 /\ n <= c.sending
    BY DEF Inv, CInv, client_socks_send_handler_done, Client
<1>2. c.alloc # "none" /\ ~c.socks_closed /\ c.socks_up
    BY <1>1 DEF Inv, CInv, SocksSide, Fresh, Client
<1>3. /\ Live(c) /\ SocksSide(c) /\ (c.pcb = "open" <=> ~c.client_closed)
      /\ n \in Nat /\ n <= c.buf_used
    BY <1>1, <1>2, LiveClient, OpenClient, SizesPositive DEF Inv, SocksSide, Client
<1>4. /\ x.alloc = c.alloc /\ x.pcb = c.pcb /\ x.buf_used = c.buf_used - n
      /\ x.socks_closed = c.socks_closed /\ x.client_closed = c.client_closed
      /\ x.socks_up = c.socks_up
      /\ x.socks_recv_tcp_pending = c.socks_recv_tcp_pending
      /\ x.socks_recv_buf_used = c.socks_recv_buf_used
      /\ x.socks_recv_buf_sent = c.socks_recv_buf_sent
      /\ DOMAIN x = DOMAIN c
    BY <1>1, Zenon DEF Client
<1>5. c' = IF x.buf_used > 0 THEN client_send_to_socks(x)
           ELSE IF x.client_closed THEN client_free_socks(x) ELSE x
    BY Zenon DEF client_socks_send_handler_done, socksStep
<1>. HIDE DEF x
<1>6. relayUp(c) = c.buf_used /\ relaySocks(c) = "open"
    BY <1>2, <1>3, Zenon DEF relayUp, relaySocks, Live
<1>7. c.buf_used \in Nat /\ c.buf_used <= TCP_WND /\ 1 <= n
    BY <1>1, SizesPositive DEF Client
<1>8. ASSUME relayUp(c') = c.buf_used - n, relayDown(c') = relayDown(c), c'.pcb = c.pcb,
             relaySocks(c') = IF c.client_closed /\ c.buf_used = n THEN "gone" ELSE "open"
      PROVE  [R!Next]_(R!vars)
    <2>1. R!SocksTakes(n)
        BY <1>3, <1>6, <1>7, <1>8 DEF R!SocksTakes
    <2>. QED BY <2>1, Zenon DEF R!Next
<1>9. CASE x.buf_used > 0 \/ ~x.client_closed
    <2>1. c' = x \/ c' = [x EXCEPT !.sending = x.buf_used]
        BY <1>5, <1>9, Zenon DEF client_send_to_socks
    <2>2. /\ c'.alloc = x.alloc /\ c'.pcb = x.pcb /\ c'.buf_used = x.buf_used
          /\ c'.socks_closed = x.socks_closed /\ c'.client_closed = x.client_closed
          /\ c'.socks_up = x.socks_up
          /\ c'.socks_recv_tcp_pending = x.socks_recv_tcp_pending
          /\ c'.socks_recv_buf_used = x.socks_recv_buf_used
          /\ c'.socks_recv_buf_sent = x.socks_recv_buf_sent
        BY <1>1, <1>4, <2>1, Zenon DEF Client
    <2>3. relayUp(c') = c.buf_used - n /\ relaySocks(c') = "open"
        BY <1>2, <1>3, <1>4, <2>2, Zenon DEF relayUp, relaySocks, Live
    <2>4. relayDown(c') = relayDown(c)
        BY <1>4, <2>2, Zenon DEF relayDown
    <2>5. ~(c.client_closed /\ c.buf_used = n)
        BY <1>4, <1>7, <1>9
    <2>. QED BY <1>4, <1>8, <2>2, <2>3, <2>4, <2>5, Zenon
<1>10. CASE ~(x.buf_used > 0) /\ x.client_closed
    <2>1. c' = client_dealloc(socksFreed(x))
        BY <1>4, <1>5, <1>10, <1>1, Zenon DEF client_free_socks, socksFreed, Client
    <2>2. c'.alloc = "freed" /\ c'.socks_closed /\ c'.pcb = x.pcb
        BY <1>1, <1>4, <2>1, Zenon DEF client_dealloc, socksFreed, Client
    <2>3. c.buf_used = n
        BY <1>3, <1>4, <1>7, <1>10
    <2>4. relayUp(c') = 0 /\ relaySocks(c') = "gone" /\ relayDown(c') = 0 /\ relayDown(c) = 0
        BY <1>4, <1>10, <2>2, Zenon DEF relayUp, relayDown, relaySocks
    <2>. QED BY <1>4, <1>7, <1>8, <1>10, <2>2, <2>3, <2>4
<1>. QED BY <1>9, <1>10, Zenon

(* The SOCKS server sent n bytes (tun2socks.c:2063-2090).                   *)
LEMMA RecvDoneMaps ==
    ASSUME Inv, NEW n \in 1..RECV_BUF_SIZE, client_socks_recv_handler_done(n) PROVE [R!Next]_(R!vars)
<1>. DEFINE x == [c EXCEPT !.receiving = FALSE]
            x1 == [x EXCEPT !.socks_recv_buf_used = n]
            x2 == [x1 EXCEPT !.socks_recv_buf_sent = 0]
            z == [x2 EXCEPT !.socks_recv_waiting = FALSE]
<1>1. c \in Client /\ c.receiving
    BY Zenon DEF Inv, CInv, client_socks_recv_handler_done
<1>2. c.alloc # "none" /\ ~c.socks_closed /\ c.socks_up
    BY <1>1, Zenon DEF Inv, CInv, SocksSide, Fresh, Client
<1>3. /\ Live(c) /\ Callbacks(c) /\ Accounts(c) /\ SocksSide(c) /\ Receives(c) /\ Sends(c)
      /\ c.pcb = "open" <=> ~c.client_closed
    BY <1>2, LiveClient, OpenClient, Zenon DEF Inv
<1>4. x \in Client
    BY <1>1, SetFlag, Zenon
<1>5. CASE c.client_closed
    <2>1. c' = x
        BY <1>5, Zenon DEF client_socks_recv_handler_done, socksStep
    <2>2. SameRelay(c, c')
        BY <1>1, <2>1, Zenon DEF SameRelay, relayUp, relayDown, relaySocks, Client
    <2>. QED BY <2>2, Stutters, Zenon
<1>6. CASE ~c.client_closed
    <2>1. n \in -1..RECV_BUF_SIZE /\ 0 \in 0..RECV_BUF_SIZE /\ n \in Nat /\ 1 <= n /\ n <= RECV_BUF_SIZE
        BY SizesPositive
    <2>2. z = [x EXCEPT !.socks_recv_buf_used = n, !.socks_recv_buf_sent = 0, !.socks_recv_waiting = FALSE]
        OBVIOUS
    <2>3. /\ z.alloc = c.alloc /\ (z.socks_closed <=> c.socks_closed) /\ (z.client_closed <=> c.client_closed)
          /\ (z.socks_up <=> c.socks_up) /\ z.buf_used = c.buf_used /\ z.pcb = c.pcb
          /\ z.sending = c.sending /\ ~z.receiving
          /\ z.socks_recv_buf_used = n /\ z.socks_recv_buf_sent = 0
          /\ z.socks_recv_tcp_pending = c.socks_recv_tcp_pending
          /\ z.unacked = c.unacked
          /\ (z.err <=> c.err) /\ (z.sent <=> c.sent) /\ (z.recv <=> c.recv)
          /\ z.rcv_wnd = c.rcv_wnd /\ (z.refused <=> c.refused)
        BY <1>1, Zenon DEF Client
    <2>4. z \in Client
        <3>. HIDE DEF x
        <3>1. x1 \in Client
            BY <1>4, <2>1, SetReceived, Zenon
        <3>. HIDE DEF x1
        <3>2. x2 \in Client
            BY <2>1, <3>1, SetReceived, Zenon
        <3>. HIDE DEF x2
        <3>. QED BY <3>2, SetFlag, Zenon
    <2>5. PICK y \in client_socks_recv_send_out(z) :
            c' = IF ~y.client_closed /\ y.socks_recv_buf_used = -1
                 THEN client_socks_recv_initiate(y) ELSE y
        <3>. HIDE DEF z
        <3>. QED BY <1>6, <2>2, Zenon DEF client_socks_recv_handler_done, socksStep
    <2>. HIDE DEF z
    <2>6. ToSend(z)
        BY <1>2, <1>3, <1>6, <2>3, <2>4
        DEF ToSend, Live, Callbacks, Accounts, SocksSide, Sends, Client
    <2>7. SentOut(z, y) \/ Aborted(z, y)
        BY <2>6, SendOut, Zenon
    <2>8. CASE Aborted(z, y)
        <3>1. c' = y
            BY <2>5, <2>8, Zenon DEF Aborted
        <3>2. R!AppEnds
            BY <1>3, <1>6, <2>3, <2>8, <3>1, PcbGone, Zenon DEF Aborted, Inv
        <3>. QED BY <3>2, Zenon DEF R!Next
    <2>9. CASE SentOut(z, y)
        <3>1. c.socks_recv_buf_used = -1
            BY <1>1, <1>2, <1>3, <1>6, Zenon DEF Inv, CInv, Flows
        <3>2. /\ relayDown(c) = c.socks_recv_tcp_pending
              /\ relayDown(z) = c.socks_recv_tcp_pending + n
            BY <1>1, <1>2, <1>3, <1>6, <2>1, <2>3, <3>1 DEF relayDown, Live, Client
        <3>3. y \in Client /\ c' \in {y, [y EXCEPT !.receiving = TRUE]}
            BY <2>5, <2>9, Zenon DEF SentOut, client_socks_recv_initiate
        <3>4. /\ c'.pcb = y.pcb /\ relayUp(c') = relayUp(y) /\ relaySocks(c') = relaySocks(y)
              /\ relayDown(c') = relayDown(y)
            BY <3>3 DEF relayUp, relayDown, relaySocks, Client
        <3>5. y.pcb = "open" /\ relayUp(y) = relayUp(c) /\ relaySocks(y) = "open" /\ relaySocks(c) = "open"
            BY <1>2, <1>3, <2>3, <2>9, Zenon DEF SentOut, Callbacks, Live, relayUp, relaySocks
        <3>6. relayDown(y) = c.socks_recv_tcp_pending + n
            BY <2>9, <3>2, Zenon DEF SentOut
        <3>7. c.socks_recv_tcp_pending \in Nat /\ c.socks_recv_tcp_pending <= TCP_SND_BUF
            BY <1>1, SizesPositive DEF Client
        <3>8. R!SocksSends(n)
            BY <1>3, <1>6, <2>1, <3>2, <3>4, <3>5, <3>6, <3>7, SizesPositive DEF R!SocksSends
        <3>9. n \in 1..(TCP_SND_BUF + RECV_BUF_SIZE)
            BY <2>1, SizesPositive
        <3>. QED BY <3>8, <3>9, Zenon DEF R!Next
    <2>. QED BY <2>7, <2>8, <2>9, Zenon
<1>. QED BY <1>5, <1>6, Zenon
-----------------------------------------------------------------------------
(* For every size of lwIP's window, its send buffer and the SOCKS receive   *)
(* buffer, a client is a relay: of all the early returns and frees of       *)
(* tun2socks.c:1653-2206, none drops a byte whose receiver is still there,  *)
(* and none closes an end that is still owed data.                          *)
THEOREM ClientIsRelay == Spec => RelaySafety
<1>1. Init => R!Init
    BY SizesPositive DEF Init, R!Init, relayUp, relayDown, relaySocks
<1>2. Inv /\ [Next]_vars => [R!Next]_(R!vars)
    <2>. SUFFICES ASSUME Inv, [Next]_vars PROVE [R!Next]_(R!vars)
        OBVIOUS
    <2>1. CASE callback_returns \/ UNCHANGED vars
        BY <2>1, Stutters, Zenon DEF callback_returns, vars, SameRelay
    <2>2. CASE Lwip /\ ~callback_returns
        BY <2>2, AcceptMaps, AcceptFailsMaps, ReceiveMaps, FinMaps, SentMaps, ErrMaps, Zenon DEF Lwip
    <2>3. CASE Socks
        BY <2>3, UpMaps, ErrorMaps, SendDoneMaps, RecvDoneMaps, Zenon DEF Socks
    <2>4. CASE teardown
        BY <2>4, TeardownMaps, Zenon
    <2>. QED BY <2>1, <2>2, <2>3, <2>4, Zenon DEF Next
<1>. QED BY <1>1, <1>2, Invariance, PTL DEF Spec, RelaySafety, R!Safety
=============================================================================
