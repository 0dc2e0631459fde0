# Verification of the tun2socks Cordova plugin

The plugin routes all traffic of an Android device through a SOCKS server. Java
code sets up a VPN interface and runs native code on it; the native code ends the
TCP connections of the device in lwIP and relays each one to the SOCKS server. DNS
queries go to a UDP relay, other UDP packets to a UDP gateway if there is one. This
directory holds TLA+ modules of that program, the configurations TLC checks them
with, and proofs that TLAPS checks.

Run `tlc -config X.cfg M` for the pairs in the table of runs, and `tlapm M.tla` for
the modules whose names end in `Proofs`; each takes a few minutes.

## The system and its parts

| Part | Source | Module |
|---|---|---|
| Cordova plugin: start, stop, consent dialog, callbacks | `Tun2Socks.java`, `tun2socks.js` | `Tun2Socks` |
| VPN service, registry of the running manager | `TunnelVpnService.java`, `TunnelState.java` | `TunnelService` |
| Tunnel manager: the runTunnel thread, restart, stop signal | `TunnelManager.java` | `TunnelService` |
| Tunnel: VPN descriptor, tun2socks thread | `Tunnel.java`, `Tun2SocksJni.java` | `Tunnel` |
| Android: main looper, service life cycle, local broadcasts | external | `AndroidMain` |
| JNI entry points, `run()`, its handlers and its teardown | `tun2socks.c` | `NativeRun` |
| TCP relay: `struct tcp_client` and its callbacks | `tun2socks.c` | `TcpClient`; what it promises: `Relay` |
| SOCKS client: handshake, then the user's stream | `BSocksClient.c`, `PacketStreamSender.c` | `SocksClient` |
| Stream connections: connector, send, receive | `BConnection_unix.c` | `BConnection` |
| DNS relay and the id map | `tun2socks.c`, `BStringMap.c` | `DnsRelay` |
| Event loop, job list | `BReactor_badvpn.c`, `BPending.c` | `BReactor` |
| UDP gateway client: conids, keep-alives, reconnecting | `UdpGwClient.c`, `SocksUdpGwClient.c` | `UdpGwClient` |
| UDP gateway, as one client sees it | `udpgw.c` | `UdpGwServer` |
| Lists of connections in order of use | `LinkedList1.h` | `LinkedList1` |
| All UDP: DNS relay, gateway client, stream, gateway | the parts above | `UdpGw` |
| Fair queue of packets | `PacketPassFairQueue.c` | `FairQueue` |
| Packets over a stream: connector, sender, decoder | `PacketPassConnector.c`, `PacketStreamSender.c`, `PacketProtoDecoder.c`, `PacketProtoEncoder.c` | `PacketLink` |
| TUN device, packet buffer | `BTap.c`, `SinglePacketBuffer.c` | `NativeRun` |
| lwIP | `lwip/` | environment of `TcpClient` and `NativeRun` |

`Tun2Socks` extends `TunnelService`, which extends `AndroidMain` and `Tunnel`;
`NativeRun` extends `BReactor` and `DnsRelay`; `SocksClient` extends `BConnection`;
`UdpGw` extends `DnsRelay`, `UdpGwClient` and `UdpGwServer`, which both extend
`LinkedList1`; `PacketLink` extends `FairQueue`. `TcpClient` instantiates `Relay`.
`PROJECT.json` maps every definition to its lines, and lists all parts, including
those without a module.

Threads. The JavaScript bridge calls `execute` on the WebCore thread. Service
callbacks, the consent result and broadcasts run on the main thread. Each start
creates a runTunnel thread, which starts one tun2socks thread. A revocation comes
on a binder thread. Native code is single-threaded but not simple: the reactor
runs jobs last-set first, and `BReactor_Synchronize` runs jobs from inside a
lwIP callback.

## The modules

**Tunnel.** State: the static `mTunnel`, the fields of each Tunnel, each TUN
descriptor, the shared flag `g_terminate`. Methods are synchronized, so a call is
one step. The exception is a stopping call that finds a thread: it signals, then
waits in `join` while it holds the monitor (`joining`), and completes when the thread
has exited. The native thread has four steps: it clears the flag, polls it, leaves,
returns. `TunnelSpec` is also the abstract specification of how the class may
be used.

**AndroidMain, TunnelService, Tun2Socks.** The main looper is a queue of messages;
`LocalBroadcastManager` is a list of pending broadcasts and one message. The
plugin's `startTunnelService` reads `TunnelState` up to three times, each read a
step (`getStarting`, `getManager`, `getRunning`), because the WebCore thread and the
main thread can both be inside it. The runTunnel thread has one step per shared
access: start, broadcast, read of the latch field, await, finally, stop,
`stopSelf`, clearing the reconnect flag. `onDestroy` blocks the main thread in `join`.

**TcpClient.** One connection, counted in bytes. The record `c` holds the fields of
`struct tcp_client` and lwIP's accounts (receive window, unacknowledged bytes,
installed callbacks). A handler is one step, except the callbacks that run
`SYNC_COMMIT`: `callback` names the one in progress, and the jobs it caused run
before it returns. `ret` is what it returned to lwIP.

**Relay.** What one connection is for, in four variables: bytes under way in each
direction and the state of both ends. Bytes are dropped only when the end they are
meant for is gone, and an end left alone is closed once it was given everything.
`TcpClient` maps its record to these (`relayUp`, `relayDown`, `relaySocks`) and
implements `Relay!Spec`.

**BConnection, SocksClient.** A stream connection is two asynchronous interfaces on
one descriptor, each `off`, `idle`, `op` (the job that starts the operation is set),
`busy`, or `done` (the job that reports it is set). The kernel's side is the room
and data of the socket and how it ended. On top is the SOCKS5 handshake, one
action per handler, with its buffer, the packet sender for requests and the exact
receives for answers. Streams are counted in bytes, so that the boundary between
handshake and data can be stated; a byte's contents are chosen when the client
looks at it. The user may free the client in every handler and at any other time.

**BReactor.** Operators of the event loop: job list (a sequence, next job first),
marks of nested synchronizations, one timer, registered and armed descriptors,
epoll results still to be served, `exiting`.

**DnsRelay.** The map from DNS id to asker, answers on their way, and counts of what
was asked and delivered. The relay may lose, repeat and reorder.

**UdpGwClient, UdpGwServer, UdpGw.** The client has, per conid, the pair of addresses
it serves and a queue; the list of conids in order of use; the flow that is being
sent; the timers of the keep-alive and of reconnecting; and the SOCKS connection as
three flags. The gateway has, per connection, its socket's remote address, its queue,
and whether it is live or closing. `UdpGw` puts a stream between them that carries
packets in order, may stall and may break, and adds the DNS relay, because
`process_device_udp_packet` chooses between the two. Time is a tick of all running
timers; it passes when all that is under way has arrived, unless the network
stalls. `users` (the applications whose packets a socket has sent), `reused` and
`rebind_lost` are history variables. The plugin sets no gateway address, so it runs
the case without; `options` covers every case in which there is any UDP.

**FairQueue, PacketLink.** The queue's virtual times, with the width of their type and
what the code does before they overflow; then the path of a packet through
connector and sender into a stream that takes it in pieces, and through the decoder
out again. A byte carries its flow, its packet's length and its place, so that a
decoder that is out of step is seen. The stream may break at any byte; the
connector keeps its packet. `passed` (what a flow was sent while another waited) and
`no_time` (a flow came when the queue had no current time) are history variables.

**NativeRun.** `run()` from the JNI call to its return, any number of times in one
process. `pc` is the stage of the set-up, `"loop"`, or the label reached in the
teardown; `held` is what has been acquired. In the loop one action stands for each
handler that the reactor dispatches, and after it one step frees one client
(`client_murder`) until none is left. Of a TCP connection only its pcb list and
its SOCKS jobs and descriptor are kept; its bytes are the subject of `TcpClient`.
Options are those `runTun2Socks` sets: no signals, no udpgw. An ordinary release
build is modelled, in which `ASSERT` is empty.

## Runs

| Run | Module, cfg | Result | Question |
|---|---|---|---|
| `plugin` | MCTun2Socks, Plugin | pass | With consent given, do signals reach threads, do destroyed services leave anything behind, can a thread and a closed descriptor meet, and is Tunnel used as `TunnelSpec` allows (refinement)? |
| `plugin_race` | MCTun2Socks, PluginRace | pass | What survives when the consent result and a start() race, and one manager gets two threads? |
| `plugin_live` | MCTun2Socks, PluginLive | pass | Does every callback return, every signalled thread end, the first start() get an answer, a revocation reach JavaScript? |
| `tcp_client` | TcpClient, TcpClient | pass | Do windows and buffers agree, can a direction stall, is anything used after it is freed, and does a client implement `Relay`, its liveness included? |
| `socks` | MCSocksClient, SocksClient | pass | Is a wake-up lost, is a byte of the handshake taken for data or the reverse, is the socket closed once, does a handshake with a dead server end, does the user hear of the end? |
| `udp` | MCUdpGw, UdpGw | pass | Do replies reach the application that asked, through reused conids, REBIND, both limits, lost streams? Does the client always reconnect, and is it kept alive? |
| `link` | PacketLink, PacketLink | pass | Is the queue fair across an overflow of its times, does the decoder stay in step and have room, is every queued packet sent? |
| `native` | NativeRun, NativeRun | pass | Are jobs and epoll results of live objects, is lwIP initialised first and never re-entered, does the teardown match the set-up, does a termination request end the run? |
| `terminate_lost` | MCTunnel, TunnelTerminate | violation | see below |
| `restart_never_restarts` | MCTun2Socks, PluginRestart | violation | see below |
| `pbuf_leaked` | TcpClient, TcpClientPbuf | violation | see below |
| `reactor_freed_in_use` | NativeRun, NativeFree | violation | see below |

Each violation is a statement of the repository that the code does not keep:

- **terminate_lost.** `Tun2SocksJni.java:21-22` says that runTun2Socks blocks until
  terminateTun2Socks is called and that calling it from another thread is safe. The
  new thread clears the flag (`tun2socks.c:485`); a termination sent
  before that is lost, and the caller waits in `join` forever.
- **restart_never_restarts.** `README.md:22` says that start() restarts tunnelling
  when the plugin is running. With a new address the thread stops
  tun2socks and ends; nothing starts it again.
- **pbuf_leaked.** `tcp_in.c:1354-1356` leaves the pbuf to the application.
  `client_recv_func` returns without freeing it when the SOCKS connection fails
  inside `SYNC_COMMIT`.
- **reactor_freed_in_use.** `BReactor_badvpn.h:306` wants no running timer when the
  reactor is freed. When `udp_init` fails, `run()` jumps past the call that removes the
  timer. (On the ordinary path the UDP socket stays registered.) For the same
  reason `FreesWhatIsHeld` excludes runs that failed in `udp_init`.

### Bounds

- `plugin`: two services, descriptors and threads, two addresses, three start() calls
  and one stop(), so that a service is started, restarted and replaced.
  `MaxDialogs = 0` means that consent is already given.
- `plugin_race`: one dialog, three threads and descriptors. The race takes many steps,
  so the run starts from the initial state and from the state it leads to
  (`AfterRace` in `MCTun2Socks`, described there). The run checks that every step is
  one of `TunnelNext`; both starting states satisfy the inductive invariant
  `TunnelInv` of `Tun2SocksProofs`.
- `plugin_live` and `restart_never_restarts`: one service. `terminate_lost`: two Tunnels.
- `tcp_client`: window 6, send buffer 4, receive buffer 5. Partial sends, a full
  send buffer and data that needs two rounds of acknowledgement all occur.
- `socks`: `LIMIT = 1`, room for 4 bytes in the socket, 2 bytes of data each way. The
  request is longer than the room, and a read or a write may stop at any byte. Three
  option sets (no password, a password, a name that is too long) meet four servers
  (each method, an IPv6 reply, a reply of unknown type).
- `udp`: two applications, two remote addresses of which one is the resolver, two
  conids, one connection at the gateway, queues of one packet, four packets and one
  reply. Two conids for up to four pairs force reuse; one connection at the gateway
  forces it to close conids that the client still uses. Keep-alive after 2
  ticks, disconnect after 4, in the code's ratio.
- `link`: two flows, times up to 8 and packets up to 4 with weight 1, so that the
  times overflow every second packet; a decoder buffer of 3 bytes and a stream of
  2, so that headers and packets are cut everywhere.
- `native`: one connection, one DNS query per run, `LIMIT = 1` (the code has 2;
  the limit is reached either way), `BSYSTEM_MAX_RESULTS = 3` (room for all three
  descriptors; the code has room for 64). One connection already nests two
  synchronizations. The number of runs is not bounded.

Symmetry is used in the two safety runs of the plugin and in `udp`, over sets whose
members occur in no definition. Deadlock checking is off where the bounds on calls
or the end of a connection really stop the system.

### Fairness

- Tunnel and plugin: every thread that can go on does so. Nothing is assumed of the
  user, of revocations or of device errors.
- `plugin_live` excepts states in which a termination has been lost
  (`TerminationLost`), which `terminate_lost` shows to be reachable.
  `FirstStartAnswered` also excepts a startService that returns null, which the code only logs.
- `TcpClient`: a callback returns, a connection attempt or a send to the SOCKS server
  ends in success or an error, sent data is acknowledged or lwIP gives up.
  Nothing is assumed of an idle end.
- `SocksClient`: jobs run, the reactor dispatches what is ready, and the server reads what
  it was sent (all weak). Nothing is assumed of what the server answers.
- `PacketLink`: a lost stream is made again, jobs run, the stream takes bytes and
  the decoder receives them (all weak). `NoStarvation` is stated for behaviours in
  which the stream stays up from some time on and flows stop coming and going: a
  flow that is freed and made again starts with time 0, ahead of the others.
- `Relay`: an end left alone is drained (weak). That `TcpClient` implements this is
  part of the run `tcp_client`.
- `NativeRun`: the thread is scheduled (weak), time passes (weak), a device read would
  block infinitely often if it is tried infinitely often (strong), and a connection
  that was hung up runs out of data (strong). The third is a real assumption
  about traffic: device reads have no `BReactorLimit`, and with an endless supply of
  packets the job list never becomes empty, so the timer that polls
  `g_terminate` is never served. For SOCKS connections nothing of the kind is
  needed: their limits make them wait.

## Proofs

TLAPS proves these for every value of the constants.

- **Tun2SocksProofs**, the Java side. From `NullsAreNotObjects`, the Tunnel class
  under any legal use: `TunnelTypeOK`, `OneNativeThread`, `DeviceOpenWhileUsed`,
  `SupersededIsInert`, `CloseOnlyWhenQuiet`. None of the invariants is inductive.
  `TunnelInv` adds that only the Tunnel in the static `mTunnel` has a thread, a
  descriptor or a waiting caller (`OnlyCurrent`), and that both its descriptor and the
  one its thread was given are open (`HeldOpen`). `newTunnel` stops the old Tunnel
  before it replaces it, which keeps `OnlyCurrent`; the rest follows.
  Then, from `OneTunnelPerService`, `NoServiceIsNone`, `NoRunIsNone` and `PluginBounds`,
  the plugin with consent dialogs and everything that can race them: types,
  `Spec => TunnelSpec` (and so `TunnelSteps`, `OneNativeThread` and `DeviceOpenWhileUsed`
  inside the plugin), and `NoDeadManager`. The legal use rests on the order of the main
  queue: a start command or a destruction finds in `mTunnel` the Tunnel of its own service
  (`Current`, `QueueInv`), which newTunnel of an earlier create message put there.
  `Registered` says the same of `TunnelState`: a service is started, or has its
  destruction in the queue, or its manager is not registered.
- **ConsentProofs**: `ThreadHearsSignal` and `DestroyedIsQuiet` when `MaxDialogs = 0`,
  that is, when `prepare()` finds the consent given. Then only the WebCore thread calls
  startService. `ConsentInv` says that whenever `TunnelState` lets it do so, or it is past
  the reads, no service is started and no message for one is left except a destruction
  past its unregistering (`Quiet`); that a destruction is the last message of its service
  (`DestroyLast`); and that there is one start command at most (`StartOnce`). So a
  service gets one runTunnel thread, its manager knows it (`RunsKnown`), and onDestroy
  joins it. The two properties fail without `MaxDialogs = 0`: the consent race gives a
  manager two threads.
- **TcpClientProofs**, from `SizesPositive`: `TypeOK`, `WindowIsBuffer`,
  `PendingIsUnacked`, `NeverStalls`, `CallbacksAreLive`, `NoZombie`, `ReturnIsTrue`,
  `NoSilentLoss` and the action property `FreedIsFinal`, for all sizes of the window and the
  buffers. The invariant `Inv` has three parts: `CInv` for the client (accounts,
  callbacks, the SOCKS side, flows, half-closed states), `CallbackInv` for a callback
  inside `SYNC_COMMIT`, `EndedInv` for which end failed. Each operator on clients
  has a lemma that says what it preserves; each action cites them. The last section
  proves `Spec => RelaySafety`, the refinement of `Relay` without its fairness: from
  `Inv` each handler is one step of `Relay` or changes nothing that `Relay` sees.
- **NativeRunProofs**, from `ConnsAreConns` (connections are told apart from the other
  owners of jobs and descriptors): `JobsHaveOwners`, `NoStaleDispatch`,
  `BufferHasOneOwner`, `LwipNotReentered`, `FreesWhatIsHeld`, `NothingOutlivesRun`, for
  any set of connections. `FreesWhatIsHeld` needs only `HeldByStage`: what is held
  at each place of `run()` is known up to what a failed `udp_init` leaves. The others need
  all of `IInv`. `GoneByStage` says what the teardown has released; `FdsAreServed` that
  epoll's results are registered or cleared. `JobsByStage` has the main argument, the
  shape of the job list in the loop: lwIP's start is the first job (`Fresh`); or it
  has run and at most one synchronization is in progress, above whose mark are only
  SOCKS jobs (`Calm`); or there are two, and the inner one has nothing to run (`Nested`).
  So the packet jobs stay below the mark and lwIP is not entered again; a SOCKS job
  may free any connection, which takes its jobs out of the list but moves no mark. The
  lemmas about `BPending_Set` and `BPending_Free` say which jobs a call adds or takes and
  that the order of the others stays; each handler cites them.
- **SocksClientProofs**, from `ConnectionSizes` and `OptionsAssumption`: types,
  `WakesUp`, `StreamsExact`, `BufferFits`, `ClosedOnce`, for all lengths of names and
  passwords and all limits. `Inv` says per state of the handshake how much of each
  stream has passed and which interface is in use (`Sending`, `Receiving`, `Methods`,
  `Up`), who owns the descriptor (`Owner`), and what the reactor's last result leaves
  to be done (`Returned`).
- **UdpGwProofs**. From `DnsConstants`, the DNS relay alone: `AnswersWereAskedFor`,
  `EntriesAreOpenQuestions`, for any ids, applications and bounds. The two need each
  other: an answer is delivered for an entry, and it is owed because the entry is an
  open question. From the constants' assumptions of the gateway, of which
  `KEEPALIVE_TIME < CLIENT_DISCONNECT_TIMEOUT` is the one that matters:
  `ReconnectsAlways` and `KeptAlive`, which needs the chain in `UdpInv`: nothing is sent
  only if nothing is queued, so a keep-alive under way will go out; the monitor's timer
  runs exactly while nothing is sent; once all has arrived, the gateway's timer shows no
  more than the monitor's. Also `Spec => DnsSpec`: the gateway does not disturb the DNS
  relay, and `AnswersWereAskedFor` carries over. The rest of the module says what each
  step does to the lists and to the packets under way, for the next one.
- **UdpGwFlowProofs**, from the same assumptions: `RepliesReachAsker`,
  `SocketsAreNotShared`, `ClosingIsBusy`, for any numbers of conids, connections,
  applications and addresses. `FlowInv` adds two parts to `UdpInv` and `ServerInv`.
  `AskInv` is about tables and streams: the client's list holds the conids that have a
  pair of addresses, the gateway's the live connections, each once and in no more places
  than allowed; and a packet, a socket and an answer, wherever they are, belong to the
  application of their conid's pair alone, if the conid was never reused. `WayInv` is
  why a socket has one user. Put what is in the stream and what is queued for a conid
  into one sequence. Its packets of that conid belong to one application up to the next
  REBIND; the first stretch belongs to the socket's user, if there is a socket, and the
  last one to the pair that the client has now. Sending, losing the stream and closing a
  connection shorten the sequence or forget the socket; only a REBIND that is dropped
  breaks it, and `rebind_lost` records that. Two facts come from counting:
  `find_unused_conid` finds a conid when the list is shorter than the limit, and there
  is memory for a connection because at most one is closing. Taking an element out of a
  list is written by index (`LinkedList1_Remove`), so its lemmas need no induction over
  sequences.
- **PacketLinkProofs**. From `QueueConstants`, the queue alone: the times stay within
  their type, `QueueMoves` (when packets are queued, one is being sent or the job is
  set), `FairShare`, `SentIsCharged`. `FairShare` is about history, and `IInv` ties
  history to the times: the flow being sent was the first (`SentFirst`), no flow is
  ahead of a queued one by more than the largest packet (`Close`), and what a flow was
  sent while another waited shows in its time (`Charged`). The last two fail once a flow
  came when there was no current time, which `no_time` records. From `LinkConstants`,
  the link: `Spec => QueueSpec`, so the queue's results hold of the link;
  `RoomToReceive`; and `DecoderInStep`. `DecoderInStep` compares neighbours, which is
  not inductive: when a packet is handed on, the byte at its length must be the first of
  another. `StepInv` therefore says of every byte that the rest of its packet follows it
  as far as bytes have come, that a last byte is followed by a first one, and that only
  the packet being sent is cut, after `in_used` bytes. The queue picks another packet
  only when none is being sent (`QueueMoves`), so no step changes the packet that is
  cut.

Only model-checked: all liveness properties and the fairness of `Relay` (the prover
has no support for fairness), `TerminateStops` of `NativeRun` among them. Every safety
invariant and action property of a passing run is also proved, `ThreadHearsSignal` and
`DestroyedIsQuiet` for the case `MaxDialogs = 0` in which their run checks them.

The type invariants of `NativeRun`, `UdpGw` and `PacketLink` describe the state and are not
properties of a run (they hold in the runs' instances);
those of `Tunnel`, `Tun2Socks`, `TcpClient`, `SocksClient` and `FairQueue` are proved.

## Not modelled

- Most of the source tree by lines is not the plugin: NCD, the peer-to-peer VPN
  client and server, DHCP and ARP clients, threadwork, the examples and their
  libraries. `Android.mk` does not compile them and nothing here calls them. The
  gateway `udpgw.c` is the exception: it is not compiled either, but it is the other
  end of a protocol whose client is.
- TCP and IP inside lwIP: third-party code; its callbacks and accounts are the
  environment of `TcpClient` and `NativeRun`.
- Option parsing, logging, packet headers and checksums, `selectPrivateAddress`,
  the data structures (trees and lists stand as sets, functions and sequences).
- The bytes of `PacketBuffer` and `ChunkBuffer2`: a queue's room is in packets.
  `BListener`, the gateway's DNS address, its local ports and its number of clients.
- The reactor's other back ends (poll, kqueue, Windows, GLib), and several timers in
  one reactor.
- The interrupt of the runTunnel thread's await, and calls with null arguments that
  return early.

Hazards without a property are in `PROJECT.json`, with the reason. These behaviours are
in the models too, and no property excludes them because nothing in the repository
promises otherwise:

- a stop() that arrives before the manager has a latch does nothing
  (`TunnelManager.java:100`);
- a second start() replaces the callback of the first, which is then never settled
  (`Tun2Socks.java:52`), and a start() with the address last stored is reported as
  started although nothing may be up yet (`TunnelManager.java:109`);
- two applications with the same DNS id share one entry of the map, and an entry
  whose answer is lost stays until the run ends (`tun2socks.c:1534`);
- a flow that comes to an idle fair queue is not raised to the current time, because
  there is none (`PacketPassFairQueue.c:76`).

Open work: `NativeRun` as a refinement of the native thread in `Tunnel`, and of the
SOCKS events that `TcpClient` assumes by `SocksClient`.
