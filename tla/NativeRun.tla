------------------------------ MODULE NativeRun ------------------------------
(***************************************************************************)
(* One native thread in tun2socks.c: runTun2Socks and run(), with the      *)
(* handlers that the reactor dispatches, and terminateTun2Socks from       *)
(* another thread.  run() acquires its resources in order, enters the      *)
(* event loop, and releases them in the opposite order from the label that *)
(* fits how far it came.  In the loop a packet travels through one buffer: *)
(* device, SinglePacketBuffer, device_read_handler_send, lwIP; lwIP calls  *)
(* the handlers of TcpClient.tla, which call BReactor_Synchronize, so that *)
(* other handlers run inside a call of lwIP.  Of a TCP connection only its *)
(* pcb list and its SOCKS jobs are kept.  Options are those of the JNI     *)
(* entry point: no signal handler, no udpgw, DNS through the UDP relay.    *)
(***************************************************************************)
EXTENDS BReactor, DnsRelay

CONSTANTS
    Conns,  \* TCP connections of applications; each one is its SOCKS descriptor
    LIMIT   \* BCONNECTION_SEND_LIMIT and BCONNECTION_RECV_LIMIT

ASSUME LimitPositive == LIMIT \in Nat \ {0}

(* A connection is told apart from the other owners of jobs and descriptors. *)
ASSUME ConnsAreConns ==
    /\ Conns \intersect {"tun", "udp", "lwip", "device", "device_read_interface", "sync_mark"} = {}
    /\ NoFd \notin Conns \union {"tun", "udp"}

VARIABLES
    pc,             \* where run() is: a stage of the set-up, "loop", or a label
    held,           \* what this run has acquired and not released
    failed,         \* the stage whose failure ended the set-up, or "none"
    quitting, g_terminate,
    output_packet,  \* BTap waits for the device with the buffer of a receive
    pcbs,           \* the lwIP pcb of each connection
    live,           \* connections that have a BSocksClient
    blocked,        \* SOCKS operations that wait for their descriptor
    used            \* BReactorLimit counts of SOCKS operations since the last wait

runVars == <<pc, held, failed, quitting>>
deviceVars == <<output_packet>>
connVars == <<pcbs, live, blocked, used>>
vars == <<runVars, g_terminate, deviceVars, connVars, reactorVars, dnsVars>>

Stages == {"init", "tap", "read", "lwip", "udp"}
Labels == {"free_clients", "free_lwip", "free_udp",
           "fail5", "fail4a", "fail4", "fail3", "fail2", "fail1"}

(* What each part of the teardown frees.                                    *)
Frees ==
    [l \in Labels |->
        CASE l = "free_udp" -> {"udp_buffer", "udp_socket", "device_write_buf"}
          [] l = "fail5"    -> {"lwip_init_job"}
          [] l = "fail4a"   -> {"device_read_buffer"}
          [] l = "fail4"    -> {"device_read_interface", "device"}
          [] l = "fail2"    -> {"reactor"}
          [] OTHER          -> {}]

Lwip == {"netif", "listener"}
Resources == Lwip \union UNION {Frees[l] : l \in Labels}

(* Jobs: lwIP's start, the two halves of the interface between device and   *)
(* buffer and of the one between buffer and device_read_handler_send, and   *)
(* those of a SOCKS connection in each direction.                           *)
LwipInit == <<"lwip", "init">>
Device(job) == <<"device", job>>
ReadInterface(job) == <<"device_read_interface", job>>
DeviceJobs == {Device("operation"), Device("done")}
ReadJobs == {ReadInterface("operation"), ReadInterface("done")}
Directions == {"send", "recv"}
Socks(c, d, job) == <<c, <<d, job>>>>
SocksJobs(c) == {Socks(c, d, job) : d \in Directions, job \in {"operation", "done"}}
Jobs == {LwipInit} \union DeviceJobs \union ReadJobs \union UNION {SocksJobs(c) : c \in Conns}
Fds == {"tun", "udp"} \union Conns

(* "client" has a tcp_client; "active" and "time_wait" no longer have one.  *)
PcbStates == {"none", "syn_rcvd", "client", "active", "time_wait"}

TypeOK ==
    /\ pc \in {"idle", "loop"} \union Stages \union Labels
    /\ held \subseteq Resources /\ failed \in Stages \union {"none"}
    /\ quitting \in BOOLEAN /\ g_terminate \in BOOLEAN /\ output_packet \in BOOLEAN
    /\ pcbs \in [Conns -> PcbStates] /\ live \subseteq Conns
    /\ blocked \subseteq Conns \X Directions /\ used \in [Conns \X Directions -> 0..LIMIT]
    /\ \A i \in DOMAIN jobs : jobs[i] \in Jobs \union {Mark(1), Mark(2)}
    /\ syncs \in Seq({"input", "timer", "output"})
    /\ timer \in {"off", "running", "expired"} /\ due \in BOOLEAN /\ exiting \in BOOLEAN
    /\ armed \subseteq active /\ active \subseteq Fds
    /\ \A i \in DOMAIN results : results[i] \in Fds \union {NoFd}
    /\ DnsTypeOK

Init ==
    /\ pc = "idle" /\ held = {} /\ failed = "none"
    /\ quitting = FALSE /\ g_terminate = FALSE /\ output_packet = FALSE
    /\ pcbs = [c \in Conns |-> "none"] /\ live = {} /\ blocked = {}
    /\ used = [o \in Conns \X Directions |-> 0]
    /\ jobs = <<>> /\ syncs = <<>> /\ timer = "off" /\ due = FALSE
    /\ active = {} /\ armed = {} /\ results = <<>> /\ exiting = FALSE
    /\ DnsInit
-----------------------------------------------------------------------------
(* Set-up.  A stage that succeeds goes on to the next; one that fails goes  *)
(* to a label of the teardown.                                              *)

runTun2Socks ==
    /\ pc = "idle"
    /\ pc' = "init" /\ held' = {} /\ failed' = "none"
    /\ g_terminate' = FALSE
    /\ UNCHANGED <<quitting, deviceVars, connVars, reactorVars, dnsVars>>

fails(stage, label) == pc = stage /\ pc' = label /\ failed' = stage

(* BNetwork_GlobalInit, process_arguments and BReactor_Init.                *)
initReactor ==
    \/ /\ pc = "init" /\ pc' = "tap"
       /\ held' = {"reactor"} /\ quitting' = FALSE
       /\ BReactor_Init
       /\ UNCHANGED <<failed, g_terminate, deviceVars, connVars, dnsVars>>
    \/ /\ fails("init", "fail1")
       /\ UNCHANGED <<held, quitting, g_terminate, deviceVars, connVars, reactorVars, dnsVars>>

(* BTap_InitWithFD registers the descriptor and waits for nothing yet.      *)
initDevice ==
    \/ /\ pc = "tap" /\ pc' = "read"
       /\ held' = held \union {"device"}
       /\ active' = active \union {"tun"} /\ output_packet' = FALSE
       /\ UNCHANGED <<failed, quitting, g_terminate, connVars, dnsVars,
                      jobs, syncs, timer, due, armed, results, exiting>>
    \/ /\ fails("tap", "fail3")
       /\ UNCHANGED <<held, quitting, g_terminate, deviceVars, connVars, reactorVars, dnsVars>>

(* Mutant: a buffer that could not be allocated is freed.                   *)
initReading_fail4a ==
    /\ UNCHANGED <<quitting, g_terminate, deviceVars, connVars, dnsVars,
                   syncs, timer, due, active, armed, results, exiting>>
    /\ \/ /\ pc = "read" /\ pc' = "lwip"
          /\ held' = held \union {"device_read_interface", "device_read_buffer"}
          /\ jobs' = BPending_Set(jobs, Device("operation"))
          /\ UNCHANGED failed
       \/ /\ fails("read", "fail4a")
          /\ held' = held \union {"device_read_interface"}
          /\ UNCHANGED jobs

(* PacketPassInterface_Init, and SinglePacketBuffer_Init, which schedules   *)
(* the first receive.                                                       *)
initReading ==
    /\ UNCHANGED <<quitting, g_terminate, deviceVars, connVars, dnsVars,
                   syncs, timer, due, active, armed, results, exiting>>
    /\ \/ /\ pc = "read" /\ pc' = "lwip"
          /\ held' = held \union {"device_read_interface", "device_read_buffer"}
          /\ jobs' = BPending_Set(jobs, Device("operation"))
          /\ UNCHANGED failed
       \/ /\ fails("read", "fail4")
          /\ held' = held \union {"device_read_interface"}
          /\ UNCHANGED jobs

(* The lwIP job is set; then the write buffer is allocated and the timer is *)
(* started.                                                                 *)
initLwipJob ==
    /\ jobs' = BPending_Set(jobs, LwipInit)
    /\ UNCHANGED <<quitting, g_terminate, deviceVars, connVars, dnsVars,
                   syncs, active, armed, results, exiting>>
    /\ \/ /\ pc = "lwip" /\ pc' = "udp"
          /\ held' = held \union {"lwip_init_job", "device_write_buf"}
          /\ BReactor_SetTimer
          /\ UNCHANGED failed
       \/ /\ fails("lwip", "fail5")
          /\ held' = held \union {"lwip_init_job"}
          /\ UNCHANGED <<timer, due>>

(* udp_init: buffer, socket, registration, empty map.  When it fails, the   *)
(* buffer may have been allocated, and run() jumps past the calls that free *)
(* the timer and the write buffer.                                          *)
initUdp ==
    /\ UNCHANGED <<quitting, g_terminate, deviceVars, connVars,
                   jobs, syncs, timer, due, results, exiting>>
    /\ \/ /\ pc = "udp" /\ pc' = "loop"
          /\ held' = held \union {"udp_buffer", "udp_socket"}
          /\ active' = active \union {"udp"} /\ armed' = armed \union {"udp"}
          /\ dnsEmpty
          /\ UNCHANGED failed
       \/ /\ fails("udp", "fail5")
          /\ held' \in {held, held \union {"udp_buffer"}}
          /\ UNCHANGED <<active, armed, dnsVars>>

setUp == initReactor \/ initDevice \/ initReading \/ initLwipJob \/ initUdp
-----------------------------------------------------------------------------
(* Freeing a SOCKS connection.                                              *)

(* The jobs of c are freed.                                                 *)
freesJobs(q, c) ==
    LET frees(p, d) == BPending_Free(BPending_Free(p, Socks(c, d, "operation")), Socks(c, d, "done"))
    IN  frees(frees(q, "send"), "recv")

(* Mutant: the jobs of the connection are not freed with it.                *)
dropsSocks_jobs(c, q, res) ==
    /\ live' = live \ {c}
    /\ blocked' = {b \in blocked : b[1] # c}
    /\ used' = [o \in DOMAIN used |-> IF o[1] = c THEN 0 ELSE used[o]]
    /\ jobs' = q
    /\ BReactor_RemoveFileDescriptor(c, res)

(* Freeing the BSocksClient, with job list q and results res.               *)
dropsSocks(c, q, res) ==
    /\ live' = live \ {c}
    /\ blocked' = {b \in blocked : b[1] # c}
    /\ used' = [o \in DOMAIN used |-> IF o[1] = c THEN 0 ELSE used[o]]
    /\ jobs' = freesJobs(q, c)
    /\ BReactor_RemoveFileDescriptor(c, res)

keepsSocks(q) == jobs' = q /\ UNCHANGED <<live, blocked, used, active, armed, results>>

-----------------------------------------------------------------------------
(* Teardown: one action per label, each falling through to the next.        *)

to(label, next) ==
    /\ pc = label /\ pc' = next
    /\ UNCHANGED <<failed, quitting, g_terminate>>

leaveLoop ==
    /\ exiting /\ syncs = <<>>
    /\ to("loop", "free_clients")
    /\ UNCHANGED <<held, deviceVars, connVars, reactorVars, dnsVars>>

(* A connection whose tcp_client is in the list tcp_clients.                *)
hasClient(c) == pcbs[c] = "client" \/ c \in live

(* The pcb is aborted, and no packet is sent because run() is quitting; the *)
(* SOCKS connection is freed.                                               *)
client_murder(c) ==
    /\ pc = "free_clients" /\ hasClient(c)
    /\ pcbs' = IF pcbs[c] = "client" THEN [pcbs EXCEPT ![c] = "none"] ELSE pcbs
    /\ IF c \in live THEN dropsSocks(c, jobs, results) ELSE keepsSocks(jobs)
    /\ UNCHANGED <<runVars, g_terminate, deviceVars, dnsVars, syncs, timer, due, exiting>>

freeClients ==
    \/ \E c \in Conns : client_murder(c)
    \/ /\ to("free_clients", "free_lwip") /\ \A c \in Conns : ~hasClient(c)
       /\ UNCHANGED <<held, deviceVars, connVars, reactorVars, dnsVars>>

(* Mutant: connections in TIME_WAIT are left to the end of the process.     *)
freeLwip_tw ==
    /\ to("free_lwip", "free_udp")
    /\ held' = held \ Lwip
    /\ pcbs' = [c \in Conns |-> IF pcbs[c] = "time_wait" THEN "time_wait" ELSE "none"]
    /\ UNCHANGED <<deviceVars, live, blocked, used, reactorVars, dnsVars>>

(* The listener and the netif go, and tcp_remove aborts every pcb that is   *)
(* still bound, active or in TIME_WAIT.                                     *)
freeLwip ==
    /\ to("free_lwip", "free_udp")
    /\ held' = held \ Lwip
    /\ pcbs' = [c \in Conns |-> "none"]
    /\ UNCHANGED <<deviceVars, live, blocked, used, reactorVars, dnsVars>>

(* udp_free closes the socket and frees the map, but leaves the descriptor  *)
(* registered.                                                              *)
freeUdp ==
    /\ to("free_udp", "fail5")
    /\ held' = held \ Frees["free_udp"]
    /\ BReactor_RemoveTimer /\ dnsEmpty
    /\ UNCHANGED <<deviceVars, connVars, jobs, syncs, active, armed, results, exiting>>

freeLwipJob ==
    /\ to("fail5", "fail4a")
    /\ held' = held \ Frees["fail5"]
    /\ jobs' = BPending_Free(jobs, LwipInit)
    /\ UNCHANGED <<deviceVars, connVars, dnsVars, syncs, timer, due, active, armed, results, exiting>>

(* PacketPassInterface_Free and BTap_Free.                                  *)
freeDevice ==
    /\ to("fail4", "fail3")
    /\ held' = held \ Frees["fail4"]
    /\ LET q == BPending_Free(BPending_Free(jobs, ReadInterface("operation")), ReadInterface("done"))
       IN  jobs' = BPending_Free(BPending_Free(q, Device("operation")), Device("done"))
    /\ BReactor_RemoveFileDescriptor("tun", results)
    /\ UNCHANGED <<deviceVars, connVars, dnsVars, syncs, timer, due, exiting>>

freeRest ==
    /\ \/ to("fail4a", "fail4") \/ to("fail3", "fail2")
       \/ to("fail2", "fail1") \/ to("fail1", "idle")
    /\ held' = held \ Frees[pc]
    /\ UNCHANGED <<deviceVars, connVars, reactorVars, dnsVars>>

tearDown ==
    \/ leaveLoop \/ freeClients \/ freeLwip \/ freeUdp
    \/ freeLwipJob \/ freeDevice \/ freeRest
-----------------------------------------------------------------------------
(* Handlers.  terminate() is called by three of them.                       *)

inLoop == pc = "loop" /\ UNCHANGED <<pc, held, failed, g_terminate>>

terminate == quitting' = TRUE /\ exiting' = TRUE

stays == UNCHANGED <<quitting, exiting>>

(* The job list once j has been taken from it.                              *)
without(j) == BPending_Free(jobs, j)

(* lwIP starts: netif, then the listener, which binds only if no pcb of an  *)
(* earlier run is left.  Any of the steps may fail.                         *)
lwip_init_job_handler ==
    /\ pc = "loop" /\ executesJob(LwipInit)
    /\ jobs' = without(LwipInit)
    /\ \/ /\ \A c \in Conns : pcbs[c] = "none"
          /\ held' = held \union Lwip
          /\ stays
       \/ /\ held' \in {held, held \union {"netif"}}
          /\ terminate
    /\ UNCHANGED <<pc, failed, g_terminate, deviceVars, connVars, dnsVars,
                   syncs, timer, due, active, armed, results>>

(* BTap: a receive reads at once; it waits for the descriptor only if the   *)
(* device has nothing.                                                      *)
output_handler_recv(outcome) ==
    /\ inLoop /\ executesJob(Device("operation"))
    /\ LET q == without(Device("operation")) IN
       \/ /\ outcome = "would block"
          /\ output_packet' = TRUE /\ armed' = armed \union {"tun"}
          /\ jobs' = q /\ stays
       \/ /\ outcome = "packet"
          /\ jobs' = BPending_Set(q, Device("done")) /\ stays
          /\ UNCHANGED <<output_packet, armed>>
       \/ /\ outcome = "error"
          /\ jobs' = q /\ terminate
          /\ UNCHANGED <<output_packet, armed>>
    /\ UNCHANGED <<connVars, dnsVars, syncs, timer, due, active, results>>

(* Mutant: the read event stays armed after the packet.                     *)
fd_handler_armed(outcome) ==
    /\ inLoop /\ dispatches("tun")
    /\ outcome # "would block" => "tun" \in armed
    /\ results' = Tail(results)
    /\ \/ outcome = "would block" /\ stays /\ UNCHANGED <<output_packet, armed, jobs>>
       \/ /\ outcome = "packet"
          /\ output_packet' = FALSE
          /\ jobs' = BPending_Set(jobs, Device("done")) /\ stays /\ UNCHANGED armed
       \/ outcome = "error" /\ terminate /\ UNCHANGED <<output_packet, armed, jobs>>
    /\ UNCHANGED <<connVars, dnsVars, syncs, timer, due, active>>

(* BTap: the device has become readable.                                    *)
fd_handler(outcome) ==
    /\ inLoop /\ dispatches("tun")
    /\ outcome # "would block" => "tun" \in armed
    /\ results' = Tail(results)
    /\ \/ outcome = "would block" /\ stays /\ UNCHANGED <<output_packet, armed, jobs>>
       \/ /\ outcome = "packet"
          /\ output_packet' = FALSE /\ armed' = armed \ {"tun"}
          /\ jobs' = BPending_Set(jobs, Device("done")) /\ stays
       \/ outcome = "error" /\ terminate /\ UNCHANGED <<output_packet, armed, jobs>>
    /\ UNCHANGED <<connVars, dnsVars, syncs, timer, due, active>>

(* SinglePacketBuffer: a packet received is sent on, a packet sent on makes *)
(* room for the next.                                                       *)
passesPacket ==
    /\ inLoop /\ stays
    /\ \/ /\ executesJob(Device("done"))
          /\ jobs' = BPending_Set(without(Device("done")), ReadInterface("operation"))
       \/ /\ executesJob(ReadInterface("done"))
          /\ jobs' = BPending_Set(without(ReadInterface("done")), Device("operation"))
    /\ UNCHANGED <<deviceVars, connVars, dnsVars, syncs, timer, due, active, armed, results>>
-----------------------------------------------------------------------------
(* The SOCKS connection of c.                                               *)

idle(c, d, q) ==
    /\ <<c, d>> \notin blocked
    /\ \A j \in {Socks(c, d, "operation"), Socks(c, d, "done")} : ~BPending_IsSet(q, j)

(* The operation of c in direction d becomes a job if d is one of D.        *)
starts(q, c, d, D) == IF d \in D THEN BPending_Set(q, Socks(c, d, "operation")) ELSE q

(* client_free_socks: the pcb of the client stays, is closed or aborted.    *)
client_free_socks(c, q, res) ==
    /\ dropsSocks(c, q, res)
    /\ \/ UNCHANGED pcbs
       \/ pcbs[c] = "client" /\ \E p \in {"none", "active"} : pcbs' = [pcbs EXCEPT ![c] = p]

(* client_free_client and client_abort_client, and client_err_func when p   *)
(* is "none": SOCKS stays if it still has data to send.                     *)
client_free_client(c, p, q) ==
    /\ pcbs[c] = "client" /\ pcbs' = [pcbs EXCEPT ![c] = p]
    /\ keepsSocks(q) \/ (c \in live /\ dropsSocks(c, q, results))

(* BReactorLimit_Increment.                                                 *)
counted(c, d) == IF c \in active THEN [used EXCEPT ![<<c, d>>] = @ + 1] ELSE used

(* Mutant: a connection goes on as long as its descriptor lets it.          *)
connection_io_unlimited(c, d, q, res, fds, ops) ==
    \/ /\ c \in active
       /\ blocked' = ops \union {<<c, d>>} /\ armed' = fds \union {c}
       /\ jobs' = q /\ results' = res
       /\ UNCHANGED <<pcbs, live, active, used>>
    \/ /\ blocked' = ops /\ armed' = fds
       /\ jobs' = BPending_Set(q, Socks(c, d, "done")) /\ results' = res
       /\ UNCHANGED <<pcbs, live, active, used>>
    \/ client_free_socks(c, q, res)

(* connection_send and connection_recv.  A registered connection has LIMIT  *)
(* attempts between two waits; one that was hung up never waits.  fds are   *)
(* the armed descriptors and ops the blocked operations at this point.      *)
connection_io(c, d, q, res, fds, ops) ==
    \/ /\ c \in active
       /\ used' = IF used[<<c, d>>] = LIMIT THEN used ELSE counted(c, d)
       /\ blocked' = ops \union {<<c, d>>} /\ armed' = fds \union {c}
       /\ jobs' = q /\ results' = res
       /\ UNCHANGED <<pcbs, live, active>>
    \/ /\ c \in active => used[<<c, d>>] < LIMIT
       /\ used' = counted(c, d)
       /\ blocked' = ops /\ armed' = fds
       /\ jobs' = BPending_Set(q, Socks(c, d, "done")) /\ results' = res
       /\ UNCHANGED <<pcbs, live, active>>
    \/ /\ c \in active => used[<<c, d>>] < LIMIT
       /\ client_free_socks(c, q, res)

unchangedBySocks == UNCHANGED <<quitting, deviceVars, dnsVars, timer, due, exiting>>

socksOperation(c, d) ==
    /\ inLoop /\ unchangedBySocks /\ UNCHANGED syncs
    /\ executesJob(Socks(c, d, "operation"))
    /\ connection_io(c, d, without(Socks(c, d, "operation")), results, armed, blocked)

(* The done handlers of BSocksClient and of the client: further operations  *)
(* are started, lwIP may send a packet from inside the handler, or one of   *)
(* the ends is closed.  An operation that follows the packet is already set *)
(* here; it waits below the mark until the packet is out.                   *)
socksDone(c, d) ==
    /\ inLoop /\ unchangedBySocks
    /\ executesJob(Socks(c, d, "done"))
    /\ LET q == without(Socks(c, d, "done"))
           ready == {e \in Directions : idle(c, e, q)}
       IN
       \/ \E ops \in SUBSET ready :
             LET started == starts(starts(q, c, "send", ops), c, "recv", ops) IN
             /\ UNCHANGED <<pcbs, live, blocked, used, active, armed, results>>
             /\ \/ jobs' = started /\ UNCHANGED syncs
                \/ pcbs[c] = "client" /\ SYNC_COMMIT("output", SYNC_FROMHERE(started))
       \/ client_free_socks(c, q, results) /\ UNCHANGED syncs
       \/ client_free_client(c, "none", q) /\ UNCHANGED syncs

(* connection_fd_handler.  Of two operations that can go on, the send goes  *)
(* on now and the receive becomes a job.                                    *)
connection_fd_handler(c) ==
    /\ inLoop /\ unchangedBySocks /\ UNCHANGED syncs
    /\ dispatches(c)
    /\ \E D \in (SUBSET {d \in Directions : <<c, d>> \in blocked}) \ {{}} :
          LET ops == blocked \ ({c} \X D)
              fds == IF \E b \in ops : b[1] = c THEN armed ELSE armed \ {c}
          IN
          IF "send" \in D
          THEN connection_io(c, "send",
                             IF "recv" \in D THEN BPending_Set(jobs, Socks(c, "recv", "operation")) ELSE jobs,
                             Tail(results), fds, ops)
          ELSE connection_io(c, "recv", jobs, Tail(results), fds, ops)

(* The descriptor was hung up: it is not monitored any more, and operations *)
(* that waited for it go on at once, until one of them fails.               *)
hangsUp(c) ==
    /\ inLoop /\ unchangedBySocks /\ UNCHANGED syncs
    /\ dispatches(c)
    /\ \/ /\ BReactor_RemoveFileDescriptor(c, Tail(results))
          /\ blocked' = {b \in blocked : b[1] # c}
          /\ LET D == {d \in Directions : <<c, d>> \in blocked}
             IN  jobs' = starts(starts(jobs, c, "recv", D), c, "send", D)
          /\ UNCHANGED <<pcbs, live, used>>
       \/ client_free_socks(c, jobs, Tail(results))
-----------------------------------------------------------------------------
(* What a call of lwIP does to the connections: what names the caller, q is *)
(* the job list at that point.  Packets that lwIP sends and the callbacks   *)
(* of TcpClient.tla synchronize.  A packet sent in the same call as another *)
(* of these effects is left out: no job is above its mark.                  *)

unchangedConns == UNCHANGED <<pcbs, live, blocked, used, active, armed, results>>

lwipOutput(what, q) == SYNC_COMMIT(what, SYNC_FROMHERE(q)) /\ unchangedConns

(* client_recv_func with data, for an idle SOCKS connection; lwIP calls it  *)
(* for new data and, from its timer, for data that was refused.             *)
client_recv_func(c, what, q) ==
    /\ pcbs[c] = "client" /\ c \in live /\ idle(c, "send", q)
    /\ SYNC_COMMIT(what, BPending_Set(SYNC_FROMHERE(q), Socks(c, "send", "operation")))
    /\ unchangedConns

(* client_sent_func when all data received from SOCKS has been queued.      *)
client_sent_func(c, what, q) ==
    /\ pcbs[c] = "client" /\ c \in live /\ idle(c, "recv", q)
    /\ SYNC_COMMIT(what, BPending_Set(SYNC_FROMHERE(q), Socks(c, "recv", "operation")))
    /\ unchangedConns

(* listener_accept_func: the SOCKS connection is being made, was made at    *)
(* once, or could not be started and lwIP aborts the pcb.  Connecting       *)
(* stands as a send that waits for its descriptor.                          *)
listener_accept_func(c, what, q) ==
    /\ pcbs[c] = "syn_rcvd"
    /\ \/ /\ pcbs' = [pcbs EXCEPT ![c] = "client"]
          /\ live' = live \union {c} /\ active' = active \union {c}
          /\ \/ /\ blocked' = blocked \union {<<c, "send">>} /\ armed' = armed \union {c}
                /\ SYNC_COMMIT(what, SYNC_FROMHERE(q))
             \/ /\ SYNC_COMMIT(what, BPending_Set(SYNC_FROMHERE(q), Socks(c, "send", "done")))
                /\ UNCHANGED <<blocked, armed>>
          /\ UNCHANGED <<used, results>>
       \/ /\ pcbs' = [pcbs EXCEPT ![c] = "none"]
          /\ keepsSocks(q) /\ UNCHANGED syncs

(* pcbs without a client come and go by themselves.                         *)
changesPcb(c, from, p, q) ==
    /\ pcbs[c] \in from /\ pcbs' = [pcbs EXCEPT ![c] = p]
    /\ keepsSocks(q) /\ UNCHANGED syncs

(* tcp_input of a segment of c.                                             *)
tcp_input(c, q) ==
    \/ c \notin live /\ changesPcb(c, {"none"}, "syn_rcvd", q)
    \/ listener_accept_func(c, "input", q)
    \/ client_recv_func(c, "input", q) \/ client_sent_func(c, "input", q)
    \/ \E p \in {"none", "active"} : client_free_client(c, p, q) /\ UNCHANGED syncs
    \/ changesPcb(c, {"active"}, "time_wait", q)
    \/ changesPcb(c, {"syn_rcvd", "active"}, "none", q)

(* tcp_tmr: retransmissions, refused data, time-outs.                       *)
tcp_tmr(q) ==
    \/ lwipOutput("timer", q)
    \/ keepsSocks(q) /\ UNCHANGED <<pcbs, syncs>>
    \/ \E c \in Conns :
          \/ client_recv_func(c, "timer", q)
          \/ client_free_client(c, "none", q) /\ UNCHANGED syncs
          \/ changesPcb(c, {"syn_rcvd", "active", "time_wait"}, "none", q)

(* The packet is accepted first, so that the buffer's next receive is       *)
(* pending while the packet is processed: a DNS query goes to the relay,    *)
(* and everything else to lwIP, which may ignore it.                        *)
device_read_handler_send ==
    /\ inLoop /\ stays /\ UNCHANGED <<deviceVars, timer, due>>
    /\ executesJob(ReadInterface("operation"))
    /\ LET q == BPending_Set(without(ReadInterface("operation")), ReadInterface("done")) IN
       \/ /\ \E id \in Ids, app \in Apps : processDnsQuery(id, app)
          /\ keepsSocks(q) /\ UNCHANGED <<pcbs, syncs>>
       \/ /\ \/ lwipOutput("input", q)
             \/ keepsSocks(q) /\ UNCHANGED <<pcbs, syncs>>
             \/ \E c \in Conns : tcp_input(c, q)
          /\ UNCHANGED dnsVars

(* The flag that terminateTun2Socks sets is polled here, before the timer   *)
(* is set again and lwIP's timers run.                                      *)
tcp_timer_handler ==
    /\ inLoop /\ expiresTimer /\ UNCHANGED <<deviceVars, dnsVars>>
    /\ \/ /\ g_terminate /\ BReactor_RemoveTimer /\ terminate
          /\ keepsSocks(jobs) /\ UNCHANGED <<pcbs, syncs>>
       \/ /\ ~g_terminate /\ BReactor_SetTimer /\ stays
          /\ tcp_tmr(jobs)
-----------------------------------------------------------------------------
udpReadable ==
    /\ inLoop /\ stays /\ dispatches("udp")
    /\ udp_fd_handler
    /\ results' = Tail(results)
    /\ UNCHANGED <<deviceVars, connVars, jobs, syncs, timer, due, active, armed>>

(* Limits start again with every wait, but not when timers were already due. *)
reactorWaits ==
    /\ inLoop /\ wait_for_events
    /\ used' = [o \in DOMAIN used |-> 0] \/ (timer' # timer /\ used' = used)
    /\ UNCHANGED <<quitting, deviceVars, pcbs, live, blocked, dnsVars>>

reactorReturns ==
    /\ inLoop /\ (synchronized \/ skipsRemoved)
    /\ UNCHANGED <<quitting, deviceVars, connVars, dnsVars>>

environment ==
    /\ UNCHANGED <<runVars, g_terminate, deviceVars, connVars>>
    /\ \/ pc = "loop" /\ timePasses /\ UNCHANGED dnsVars
       \/ pc = "loop" /\ (relayLoses \/ relayRepeats) /\ UNCHANGED reactorVars

terminateTun2Socks ==
    /\ g_terminate' = TRUE
    /\ UNCHANGED <<runVars, deviceVars, connVars, reactorVars, dnsVars>>

Outcomes == {"would block", "packet", "error"}

handler ==
    \/ lwip_init_job_handler \/ passesPacket \/ device_read_handler_send
    \/ \E o \in Outcomes : output_handler_recv(o) \/ fd_handler(o)
    \/ \E c \in Conns : \/ \E d \in Directions : socksOperation(c, d) \/ socksDone(c, d)
                        \/ connection_fd_handler(c) \/ hangsUp(c)
    \/ tcp_timer_handler \/ udpReadable \/ reactorWaits \/ reactorReturns

Next ==
    \/ runTun2Socks \/ setUp \/ tearDown \/ handler
    \/ environment \/ terminateTun2Socks

Spec == Init /\ [][Next]_vars

(* The thread of run() is scheduled, time passes, the device has no packet  *)
(* every now and then, and a connection that was hung up runs out of data.  *)
(* Without the third, reads that succeed keep the job list from becoming    *)
(* empty, and the timer is never served.                                    *)
hungUpEnds(c) == \E d \in Directions : c \notin active /\ socksOperation(c, d) /\ c \notin live'

FairSpec ==
    /\ Spec
    /\ WF_vars(setUp \/ tearDown) /\ WF_vars(handler)
    /\ WF_vars(pc = "loop" /\ environment /\ due')
    /\ SF_vars(output_handler_recv("would block"))
    /\ \A c \in Conns : SF_vars(hungUpEnds(c))
-----------------------------------------------------------------------------
(* Properties.                                                              *)

(* Every job that is pending belongs to an object that exists: no handler   *)
(* of a freed client, device or lwIP job can run (BPending_Free).           *)
JobsHaveOwners ==
    \A i \in DOMAIN jobs :
        LET j == jobs[i] IN
        /\ j = LwipInit => "lwip_init_job" \in held
        /\ j \in DeviceJobs => "device" \in held
        /\ j \in ReadJobs => "device_read_interface" \in held
        /\ \A c \in Conns : j \in SocksJobs(c) => c \in live
        /\ \A n \in 1..2 : j = Mark(n) => n <= Len(syncs)

(* A descriptor that epoll returned is dispatched only while it is          *)
(* registered, although handlers that run before its turn may free it.      *)
NoStaleDispatch ==
    pc = "loop" => \A i \in DOMAIN results : results[i] \in active \union {NoFd}

(* The buffer of device_read_buffer has one owner: the device that fills it *)
(* or waits to, the job that hands it on, or device_read_handler_send, until *)
(* a device error ends the loop; and the device descriptor is armed exactly *)
(* when the device waits with the buffer (the assertions in BTap.c).        *)
BufferHasOneOwner ==
    pc = "loop" =>
        /\ ~exiting =>
              LET buffer == DeviceJobs \union ReadJobs
              IN  IF output_packet THEN \A j \in buffer : ~BPending_IsSet(jobs, j)
                  ELSE \E j \in buffer : \A k \in buffer : BPending_IsSet(jobs, k) <=> k = j
        /\ output_packet <=> "tun" \in armed

(* lwIP is entered by one at a time, and not before it exists.  Within      *)
(* BReactor_Synchronize only jobs of SOCKS connections run, so no second    *)
(* packet is read into lwIP, no timer runs, and nobody quits there; the     *)
(* calls nest at most two deep.  lwIP is initialised by the first job that  *)
(* runs in the loop, before the device is read and before the timer ("the   *)
(* order of the following is important" in run()); after it, netif and      *)
(* listener are there.                                                      *)
LwipNotReentered ==
    /\ Len(syncs) <= 2
    /\ Len(syncs) = 2 => syncs[2] = "output"
    /\ exiting => syncs = <<>>
    /\ pc = "loop" /\ ~exiting =>
          IF BPending_IsSet(jobs, LwipInit) THEN Head(jobs) = LwipInit /\ timer # "expired"
          ELSE Lwip \subseteq held

(* Every label of the teardown frees what this run acquired and still has,  *)
(* from wherever the set-up jumped to it, and a run that failed elsewhere   *)
(* than in udp_init, or that got to the loop, has released everything when  *)
(* it ends.                                                                 *)
FreesWhatIsHeld ==
    /\ pc \in Labels => Frees[pc] \subseteq held
    /\ pc = "idle" /\ failed # "udp" => held = {}

(* No pcb, SOCKS connection or DNS question outlives a run, so that the     *)
(* next run in the process can bind its listener (tcp_remove).              *)
NothingOutlivesRun ==
    pc \in {"idle"} \union Stages =>
        /\ \A c \in Conns : pcbs[c] = "none"
        /\ live = {} /\ \A id \in Ids : map[id] = NoApp

(* When BReactor_Free is called nothing uses the reactor: the documented    *)
(* condition in BReactor_badvpn.h.                                          *)
ReactorFreedUnused ==
    pc = "fail2" => jobs = <<>> /\ timer = "off" /\ active = {}

(* A request to terminate that is made while run() is running ends it.      *)
TerminateStops == (g_terminate /\ pc # "idle") ~> (pc = "idle")
=============================================================================
