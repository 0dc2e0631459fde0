---------------------------- MODULE BConnection ----------------------------
(***************************************************************************)
(* A BConnection (BConnection_unix.c) with its two stream interfaces, on a *)
(* kernel socket.  Data is counted in bytes.                               *)
(*                                                                         *)
(* A stream interface and the half of the connection that serves it move   *)
(* together, so one variable holds both states: "off" (not initialized),   *)
(* "idle", "op" (the operation job is pending), "busy" (the connection has *)
(* the data), "done" (the done job is pending).  Which of several pending  *)
(* jobs runs first is left open; BPending runs the last one set.           *)
(*                                                                         *)
(* The operators take two actions of the user of the connection: others,   *)
(* what the user leaves unchanged, and report, its error handler.          *)
(***************************************************************************)
EXTENDS Integers

CONSTANTS
    LIMIT,  \* BCONNECTION_SEND_LIMIT and BCONNECTION_RECV_LIMIT
    ROOM    \* the socket's send buffer

ASSUME ConnectionSizes == LIMIT \in Nat \ {0} /\ ROOM \in Nat \ {0}

VARIABLES
    send, send_len,     \* sending: its state, the bytes to send or just sent
    recv, recv_len,     \* receiving: its state, the bytes wanted or just received
    recv_job,           \* recv.job is pending
    wait_events,        \* what the reactor is asked to wait for
    is_hupd,            \* the file descriptor is no longer monitored
    send_count, recv_count,     \* the reactor limits' counters
    ready,              \* events that the reactor's last wait returned
    inq, room,          \* the socket: bytes to read, room to write
    fin, rst,           \* the peer closed, the connection was reset
    received, written   \* bytes read from and written to the socket so far

sendIf == <<send, send_len>>
recvIf == <<recv, recv_len>>
reactorVars == <<recv_job, wait_events, is_hupd, send_count, recv_count, ready>>
conVars == <<sendIf, recvIf, reactorVars>>
sockVars == <<inq, room, fin, rst, received, written>>

ifStates == {"off", "idle", "op", "busy", "done"}

ConTypeOK ==
    /\ send \in ifStates /\ recv \in ifStates
    /\ send_len \in Nat /\ recv_len \in Nat
    /\ recv_job \in BOOLEAN /\ is_hupd \in BOOLEAN
    /\ wait_events \subseteq {"READ", "WRITE"}
    /\ send_count \in 0..LIMIT /\ recv_count \in 0..LIMIT
    /\ ready \subseteq {"READ", "WRITE", "ERROR", "HUP"}
    /\ inq \in Nat /\ room \in 0..ROOM /\ fin \in BOOLEAN /\ rst \in BOOLEAN
    /\ received \in Nat /\ written \in Nat

ConInit ==
    /\ send = "off" /\ send_len = 0 /\ recv = "off" /\ recv_len = 0
    /\ recv_job = FALSE /\ wait_events = {} /\ is_hupd = FALSE
    /\ send_count = 0 /\ recv_count = 0 /\ ready = {}
    /\ inq = 0 /\ room = ROOM /\ fin = FALSE /\ rst = FALSE
    /\ received = 0 /\ written = 0

(* BConnection_Init, with both interfaces initialized for a first operation *)
(* (SendAsync_Init, RecvAsync_Init).                                        *)
BConnection_Init ==
    /\ send' = "idle" /\ recv' = "idle"
    /\ UNCHANGED <<send_len, recv_len, reactorVars>>

(* SendAsync_Free, RecvAsync_Free and BConnection_Free: the jobs, the       *)
(* interfaces, the limits and the file descriptor's registration go.        *)
BConnection_Free ==
    /\ send' = "off" /\ send_len' = 0 /\ recv' = "off" /\ recv_len' = 0
    /\ recv_job' = FALSE /\ wait_events' = {} /\ is_hupd' = FALSE
    /\ send_count' = 0 /\ recv_count' = 0 /\ ready' = {}

(* The interfaces are freed and initialized again, for another user:        *)
(* pending jobs and awaited events are dropped, the rest stays.             *)
reinit_io ==
    /\ send' = "idle" /\ recv' = "idle" /\ send_len' = 0 /\ recv_len' = 0
    /\ recv_job' = FALSE
    /\ wait_events' = IF is_hupd THEN wait_events ELSE {}
    /\ UNCHANGED <<is_hupd, send_count, recv_count, ready>>

conJobs == send \in {"op", "done"} \/ recv \in {"op", "done"} \/ recv_job
-----------------------------------------------------------------------------
(* BReactorLimit_Increment: a hung-up connection is not limited.            *)
allowed(count, h) == h \/ count < LIMIT

counted(count, h) == IF h THEN count ELSE count + 1

least(a, b) == IF a < b THEN a ELSE b

sendWaits(n, w) ==
    /\ send' = "busy" /\ send_len' = n
    /\ wait_events' = w \cup {"WRITE"} /\ is_hupd' = FALSE

(* Mutant: over its limit, the connection waits for no event.               *)
connection_send_forgets(n, w, h, others, report) ==
    \/ /\ ~allowed(send_count, h)
       /\ send' = "busy" /\ send_len' = n /\ wait_events' = w /\ is_hupd' = h
       /\ UNCHANGED <<send_count, room, written>> /\ others
    \/ allowed(send_count, h) /\ rst /\ report
    \/ /\ allowed(send_count, h) /\ ~rst /\ room > 0
       /\ send' = "done" /\ send_len' = least(n, room)
       /\ wait_events' = w /\ is_hupd' = h
       /\ send_count' = counted(send_count, h)
       /\ room' = room - least(n, room) /\ written' = written + least(n, room)
       /\ others
    \/ /\ allowed(send_count, h) /\ ~rst /\ room = 0
       /\ IF h THEN report
          ELSE /\ sendWaits(n, w)
               /\ send_count' = send_count + 1
               /\ UNCHANGED <<room, written>> /\ others

(* connection_send with n bytes, w the events awaited so far and h the HUP  *)
(* flag: over the limit or with no room it waits for the reactor.           *)
connection_send(n, w, h, others, report) ==
    \/ /\ ~allowed(send_count, h)
       /\ sendWaits(n, w)
       /\ UNCHANGED <<send_count, room, written>> /\ others
    \/ allowed(send_count, h) /\ rst /\ report
    \/ /\ allowed(send_count, h) /\ ~rst /\ room > 0
       /\ send' = "done" /\ send_len' = least(n, room)
       /\ wait_events' = w /\ is_hupd' = h
       /\ send_count' = counted(send_count, h)
       /\ room' = room - least(n, room) /\ written' = written + least(n, room)
       /\ others
    \/ /\ allowed(send_count, h) /\ ~rst /\ room = 0
       /\ IF h THEN report
          ELSE /\ sendWaits(n, w)
               /\ send_count' = send_count + 1
               /\ UNCHANGED <<room, written>> /\ others

recvWaits(n, w) ==
    /\ recv' = "busy" /\ recv_len' = n
    /\ wait_events' = w \cup {"READ"} /\ is_hupd' = FALSE

(* connection_recv for at most n bytes.  What was received before a close   *)
(* or a reset can still be read; after a reset read fails, or returns 0 if  *)
(* a write has consumed the error.                                          *)
connection_recv(n, w, h, others, report, closed) ==
    \/ /\ ~allowed(recv_count, h)
       /\ recvWaits(n, w)
       /\ UNCHANGED <<recv_count, inq, received>> /\ others
    \/ /\ allowed(recv_count, h) /\ inq > 0
       /\ recv' = "done" /\ recv_len' = least(n, inq)
       /\ wait_events' = w /\ is_hupd' = h
       /\ recv_count' = counted(recv_count, h)
       /\ inq' = inq - least(n, inq) /\ received' = received + least(n, inq)
       /\ others
    \/ allowed(recv_count, h) /\ inq = 0 /\ rst /\ report
    \/ allowed(recv_count, h) /\ inq = 0 /\ (fin \/ rst) /\ closed
    \/ /\ allowed(recv_count, h) /\ inq = 0 /\ ~fin /\ ~rst
       /\ IF h THEN report
          ELSE /\ recvWaits(n, w)
               /\ recv_count' = recv_count + 1
               /\ UNCHANGED <<inq, received>> /\ others

(* The operation jobs: connection_send_if_handler_send and                  *)
(* connection_recv_if_handler_recv.                                         *)
send_operation(others, report) ==
    /\ send = "op"
    /\ connection_send(send_len, wait_events, is_hupd,
                       others /\ UNCHANGED <<recvIf, recv_job, recv_count, ready, inq, fin, rst, received>>,
                       report)

recv_operation(others, report, closed) ==
    /\ recv = "op"
    /\ connection_recv(recv_len, wait_events, is_hupd,
                       others /\ UNCHANGED <<sendIf, recv_job, send_count, ready, room, fin, rst, written>>,
                       report, closed)

(* connection_recv_job_handler, for a receive that shared its event with a  *)
(* send.                                                                    *)
connection_recv_job_handler(others, report, closed) ==
    /\ recv_job
    /\ connection_recv(recv_len, wait_events, is_hupd,
                       others /\ recv_job' = FALSE
                              /\ UNCHANGED <<sendIf, send_count, ready, room, fin, rst, written>>,
                       report, closed)

(* The events that BReactor_Exec passes to the handler: the ones returned   *)
(* by the last wait that are still asked for, and errors.                   *)
events == (ready \cap wait_events) \cup (ready \cap {"ERROR", "HUP"})

trouble == ready \cap {"ERROR", "HUP"} # {}
haveSend == "WRITE" \in events \/ (trouble /\ send = "busy")
haveRecv == "READ" \in events \/ (trouble /\ recv = "busy")

(* Mutant: an event for both directions serves only the send.               *)
connection_fd_handler_sends(others, report, closed) ==
    /\ events # {}
    /\ \/ /\ haveSend
          /\ connection_send(send_len, wait_events \ events, "HUP" \in events,
                             others /\ ready' = {}
                                    /\ UNCHANGED <<recvIf, recv_job, recv_count, inq, fin, rst, received>>,
                             report)
       \/ /\ ~haveSend /\ haveRecv
          /\ connection_recv(recv_len, wait_events \ events, "HUP" \in events,
                             others /\ ready' = {}
                                    /\ UNCHANGED <<sendIf, recv_job, send_count, room, fin, rst, written>>,
                             report, closed)
       \/ /\ ~haveSend /\ ~haveRecv /\ "HUP" \in events
          /\ is_hupd' = TRUE /\ wait_events' = wait_events \ events /\ ready' = {}
          /\ UNCHANGED <<sendIf, recvIf, recv_job, send_count, recv_count, sockVars>>
          /\ others
       \/ ~haveSend /\ ~haveRecv /\ "HUP" \notin events /\ report

(* connection_fd_handler: handled events are no longer awaited, HUP ends    *)
(* the monitoring, and both directions are served, the send first.          *)
connection_fd_handler(others, report, closed) ==
    /\ events # {}
    /\ \/ /\ haveSend
          /\ connection_send(send_len, wait_events \ events, "HUP" \in events,
                             others /\ recv_job' = haveRecv /\ ready' = {}
                                    /\ UNCHANGED <<recvIf, recv_count, inq, fin, rst, received>>,
                             report)
       \/ /\ ~haveSend /\ haveRecv
          /\ connection_recv(recv_len, wait_events \ events, "HUP" \in events,
                             others /\ ready' = {}
                                    /\ UNCHANGED <<sendIf, recv_job, send_count, room, fin, rst, written>>,
                             report, closed)
       \/ /\ ~haveSend /\ ~haveRecv /\ "HUP" \in events
          /\ is_hupd' = TRUE /\ wait_events' = wait_events \ events /\ ready' = {}
          /\ UNCHANGED <<sendIf, recvIf, recv_job, send_count, recv_count, sockVars>>
          /\ others
       \/ ~haveSend /\ ~haveRecv /\ "HUP" \notin events /\ report
-----------------------------------------------------------------------------
(* wait_for_events: the limits start again, and the kernel says which of    *)
(* the awaited events there are; an error it always reports.                *)
pollable ==
    ((IF inq > 0 \/ fin \/ rst THEN {"READ"} ELSE {}) \cup
     (IF room > 0 \/ rst THEN {"WRITE"} ELSE {})) \cap wait_events

wait_for_events ==
    /\ send # "off" /\ ~is_hupd /\ ready = {} /\ ~conJobs
    /\ \E e \in SUBSET {"ERROR", "HUP"} :
          /\ (e # {}) <=> rst
          /\ ready' = pollable \cup e
    /\ send_count' = 0 /\ recv_count' = 0
    /\ UNCHANGED <<sendIf, recvIf, recv_job, wait_events, is_hupd, sockVars>>

(* BReactor_Exec finds nothing left to report of a returned entry.          *)
no_events ==
    /\ ready # {} /\ events = {}
    /\ ready' = {}
    /\ UNCHANGED <<sendIf, recvIf, recv_job, wait_events, is_hupd,
                   send_count, recv_count, sockVars>>

(* The peer.                                                                *)
peer_sends(n) ==
    /\ ~fin /\ ~rst
    /\ inq' = inq + n
    /\ UNCHANGED <<room, fin, rst, received, written>>

peer_reads == room < ROOM /\ ~rst /\ room' = ROOM /\ UNCHANGED <<inq, fin, rst, received, written>>

peer_closes == ~fin /\ ~rst /\ fin' = TRUE /\ UNCHANGED <<inq, room, rst, received, written>>

(* A reset may lose what was not read yet.                                  *)
peer_resets ==
    /\ ~rst /\ rst' = TRUE
    /\ inq' \in {0, inq}
    /\ UNCHANGED <<room, fin, received, written>>
=============================================================================
