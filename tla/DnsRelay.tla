------------------------------ MODULE DnsRelay ------------------------------
(***************************************************************************)
(* The DNS path of tun2socks.c.  A DNS query that an application sends to  *)
(* the resolver is wrapped in a SOCKS UDP header and sent to the UDP relay *)
(* through one connected socket; udp_pcb.map remembers, per DNS id, the    *)
(* address that asked.  A datagram from the relay goes back to the address *)
(* remembered for its id.  The relay may lose, repeat and reorder.         *)
(***************************************************************************)
EXTENDS Integers, Functions

CONSTANTS
    Ids,        \* DNS ids
    Apps,       \* local addresses that send queries
    NoApp,      \* no entry in the map
    MaxAsks,    \* bound: queries in one run
    MaxRepeats  \* bound: datagrams that the relay repeats in one run

ASSUME DnsConstants ==
    NoApp \notin Apps /\ MaxAsks \in Nat /\ MaxRepeats \in Nat

VARIABLES
    map,        \* udp_pcb.map: BStringMap from DNS id to the address that asked
    relay,      \* answers on their way from the relay, per id
    repeats,    \* answers that the relay has repeated
    asked,      \* queries that each application has made with each id
    got         \* answers that each application was sent for each id

dnsVars == <<map, relay, repeats, asked, got>>

DnsTypeOK ==
    /\ map \in [Ids -> Apps \union {NoApp}]
    /\ relay \in [Ids -> 0..(MaxAsks + MaxRepeats)]
    /\ repeats \in 0..MaxRepeats
    /\ asked \in [Ids \X Apps -> 0..MaxAsks]
    /\ got \in [Ids \X Apps -> 0..(MaxAsks + MaxRepeats)]

(* BStringMap_Init, and BStringMap_Free with the socket closed: nothing is  *)
(* remembered and nothing can arrive.                                       *)
dnsEmpty ==
    /\ map' = [i \in Ids |-> NoApp]
    /\ relay' = [i \in Ids |-> 0]
    /\ repeats' = 0
    /\ asked' = [q \in Ids \X Apps |-> 0]
    /\ got' = [q \in Ids \X Apps |-> 0]

DnsInit ==
    /\ map = [i \in Ids |-> NoApp]
    /\ relay = [i \in Ids |-> 0]
    /\ repeats = 0
    /\ asked = [q \in Ids \X Apps |-> 0]
    /\ got = [q \in Ids \X Apps |-> 0]
-----------------------------------------------------------------------------
(* BStringMap_Set replaces an entry that is there; BStringMap_Unset removes *)
(* it.                                                                      *)
BStringMap_Set(m, id, app) == [m EXCEPT ![id] = app]

(* Mutant: the entry stays after its answer.                                *)
BStringMap_Unset_keeps(m, id) == m

BStringMap_Unset(m, id) == [m EXCEPT ![id] = NoApp]

(* The DNS branch of process_device_udp_packet: the query is sent, and then *)
(* the asker is remembered.  Sending may fail, and so may the allocation in *)
(* BStringMap_Set once the query is out.                                    *)
processDnsQuery(id, app) ==
    /\ SumFunction(asked) < MaxAsks
    /\ asked' = [asked EXCEPT ![<<id, app>>] = @ + 1]
    /\ \/ UNCHANGED <<map, relay>>                                  \* send failed
       \/ relay' = [relay EXCEPT ![id] = @ + 1] /\ UNCHANGED map    \* no memory
       \/ /\ relay' = [relay EXCEPT ![id] = @ + 1]
          /\ map' = BStringMap_Set(map, id, app)
    /\ UNCHANGED <<repeats, got>>

(* udp_fd_handler with an answer: an unknown id is dropped; otherwise the   *)
(* entry is removed and udp_send_packet_to_device writes the answer to the  *)
(* device, unless it is too large.  The address that BAddr_Print wrote into *)
(* the map is one that BAddr_Parse reads.                                   *)
udpAnswer(id) ==
    /\ relay[id] > 0
    /\ relay' = [relay EXCEPT ![id] = @ - 1]
    /\ \/ map[id] = NoApp /\ UNCHANGED <<map, got>>
       \/ /\ map[id] # NoApp
          /\ map' = BStringMap_Unset(map, id)
          /\ \/ got' = [got EXCEPT ![<<id, map[id]>>] = @ + 1]
             \/ UNCHANGED got      \* too large for the device
    /\ UNCHANGED <<repeats, asked>>

(* udp_recv fails, or what came is no longer than a SOCKS UDP header.       *)
udpNothing == UNCHANGED dnsVars

udp_fd_handler == udpNothing \/ \E id \in Ids : udpAnswer(id)

(* The relay and the network between: an answer is lost, or comes twice.    *)
relayLoses ==
    \E id \in Ids :
        /\ relay[id] > 0
        /\ relay' = [relay EXCEPT ![id] = @ - 1]
        /\ UNCHANGED <<map, repeats, asked, got>>

relayRepeats ==
    \E id \in Ids :
        /\ relay[id] > 0 /\ repeats < MaxRepeats
        /\ relay' = [relay EXCEPT ![id] = @ + 1]
        /\ repeats' = repeats + 1
        /\ UNCHANGED <<map, asked, got>>

DnsNext ==
    \/ \E id \in Ids, app \in Apps : processDnsQuery(id, app)
    \/ udp_fd_handler
    \/ relayLoses \/ relayRepeats
    \/ dnsEmpty     \* the run ends and another one starts

DnsSpec == DnsInit /\ [][DnsNext]_dnsVars
-----------------------------------------------------------------------------
(* No application is sent more answers for an id than it asked questions    *)
(* with that id, whatever the relay repeats and whoever else uses the id    *)
(* (udp_fd_handler removes the entry before it delivers).                   *)
AnswersWereAskedFor == \A q \in Ids \X Apps : got[q] <= asked[q]

(* An entry of the map is a question of that application which was not      *)
(* answered: an answer that comes for it is wanted.                         *)
EntriesAreOpenQuestions ==
    \A id \in Ids : map[id] # NoApp => got[<<id, map[id]>>] < asked[<<id, map[id]>>]
=============================================================================
