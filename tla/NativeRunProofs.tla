--------------------------- MODULE NativeRunProofs ---------------------------
(***************************************************************************)
(* The safety properties of NativeRun.tla, for any set of connections, any *)
(* LIMIT and any bounds of the DNS relay.  First the inductive invariant;  *)
(* then the lemmas about the job list and about the connections, one lemma *)
(* for each handler of the loop and each part of run(), and the theorems.  *)
(***************************************************************************)
EXTENDS NativeRun, TLAPS

(* What run() holds at each place, netif and listener apart.                *)
Upto(stage) ==
    CASE stage \in {"init", "fail1", "idle"} -> {}
      [] stage \in {"tap", "fail2", "fail3"} -> {"reactor"}
      [] stage = "read" -> {"reactor", "device"}
      [] stage = "fail4" -> {"reactor", "device", "device_read_interface"}
      [] stage \in {"lwip", "fail4a"} ->
            {"reactor", "device", "device_read_interface", "device_read_buffer"}
      [] stage = "fail5" ->
            {"reactor", "device", "device_read_interface", "device_read_buffer", "lwip_init_job"}
      [] stage = "udp" ->
            {"reactor", "device", "device_read_interface", "device_read_buffer",
             "lwip_init_job", "device_write_buf"}
      [] OTHER ->
            {"reactor", "device", "device_read_interface", "device_read_buffer",
             "lwip_init_job", "device_write_buf", "udp_buffer", "udp_socket"}

(* A run whose udp_init failed may keep the two buffers to its end.         *)
Extra ==
    IF pc \in {"loop", "free_clients", "free_lwip"} THEN Lwip
    ELSE IF failed = "udp" THEN {"device_write_buf", "udp_buffer"} ELSE {}

Places == {"idle", "loop"} \union Stages \union Labels

HeldByStage ==
    /\ pc \in Places
    /\ Upto(pc) \subseteq held /\ held \subseteq Upto(pc) \union Extra
    /\ pc \in Stages \union {"loop", "free_clients", "free_lwip", "free_udp"} => failed = "none"

(* What has been released on the way out.                                   *)
GoneByStage ==
    /\ pcbs \in [Conns -> PcbStates] /\ live \subseteq Conns
    /\ pc \notin {"loop", "free_clients", "free_lwip"} => \A c \in Conns : pcbs[c] = "none"
    /\ pc \notin {"loop", "free_clients"} => live = {}
    /\ pc \notin {"loop", "free_clients", "free_lwip", "free_udp"} => \A id \in Ids : map[id] = NoApp
    /\ \A c \in Conns : pcbs[c] = "syn_rcvd" => c \notin live

(* The results res of epoll name descriptors of act, and those of act are   *)
(* the device, the UDP socket, or belong to one of the connections L.       *)
Served(res, act, L) ==
    /\ res \in Seq(Fds \union {NoFd}) /\ act \subseteq {"tun", "udp"} \union L
    /\ \A i \in DOMAIN res : res[i] \in act \union {NoFd}

FdsAreServed ==
    /\ pc \in {"tap", "read", "lwip", "udp"} =>
          results = <<>> /\ armed = {} /\ active \subseteq {"tun"}
    /\ pc \in {"read", "lwip", "udp"} => ~output_packet
    /\ pc = "loop" => Served(results, active, live) /\ (output_packet <=> "tun" \in armed)
-----------------------------------------------------------------------------
(* The job list.                                                            *)

PacketJobs == DeviceJobs \union ReadJobs
AllSocks == UNION {SocksJobs(c) : c \in Conns}
Marks == {Mark(1), Mark(2)}
Elements == Jobs \union Marks

JobList(q) ==
    /\ q \in Seq(Elements)
    /\ \A i, k \in DOMAIN q : q[i] = q[k] => i = k

(* Above the outer mark are only SOCKS jobs and the inner mark.             *)
Above(q) ==
    \E n \in DOMAIN q : /\ q[n] = Mark(1)
                        /\ \A i \in 1..(n - 1) : q[i] \in AllSocks \union {Mark(2)}

OwnedBy(q, L) == \A c \in Conns : \A j \in SocksJobs(c) : BPending_IsSet(q, j) => c \in L

(* A list in which handlers run: lwIP is there, and at most one call of     *)
(* BReactor_Synchronize is in progress.                                     *)
Calm(q, calls, L) ==
    /\ JobList(q) /\ OwnedBy(q, L)
    /\ ~BPending_IsSet(q, LwipInit) /\ ~BPending_IsSet(q, Mark(2))
    /\ calls = <<>> \/ \E w \in {"input", "timer", "output"} : calls = <<w>>
    /\ IF calls = <<>> THEN ~BPending_IsSet(q, Mark(1)) ELSE Above(q)

(* Two calls are in progress: the inner one has nothing to run.             *)
Nested(q, calls, L) ==
    /\ JobList(q) /\ OwnedBy(q, L)
    /\ ~BPending_IsSet(q, LwipInit)
    /\ \E w \in {"input", "timer", "output"} : calls = <<w, "output">>
    /\ Above(q) /\ q # <<>> /\ Head(q) = Mark(2)

(* Before lwIP's start: its job is the first.                               *)
Fresh(q, calls, L) ==
    /\ JobList(q) /\ OwnedBy(q, L)
    /\ q # <<>> /\ Head(q) = LwipInit
    /\ \A m \in Marks : ~BPending_IsSet(q, m)
    /\ calls = <<>>

OneOwner(q) ==
    IF output_packet THEN \A j \in PacketJobs : ~BPending_IsSet(q, j)
    ELSE \E j \in PacketJobs :
            /\ BPending_IsSet(q, j)
            /\ \A k \in PacketJobs : BPending_IsSet(q, k) => k = j

LoopJobs ==
    /\ exiting => syncs = <<>>
    /\ \/ Fresh(jobs, syncs, live) /\ (~exiting => timer # "expired")
       \/ (Calm(jobs, syncs, live) \/ Nested(jobs, syncs, live)) /\ (~exiting => Lwip \subseteq held)
    /\ ~exiting => OneOwner(jobs)

JobsByStage ==
    /\ JobList(jobs) /\ OwnedBy(jobs, live)
    /\ pc # "loop" =>
          /\ syncs = <<>>
          /\ \A m \in Marks : ~BPending_IsSet(jobs, m)
    /\ pc \in {"tap", "read"} => jobs = <<>> /\ ~exiting /\ timer = "off"
    /\ pc = "lwip" =>
          /\ \A j \in Elements : BPending_IsSet(jobs, j) <=> j = Device("operation")
          /\ ~exiting /\ timer = "off"
    /\ pc = "udp" =>
          /\ \A j \in Elements : BPending_IsSet(jobs, j) <=> j \in {LwipInit, Device("operation")}
          /\ jobs # <<>> /\ Head(jobs) = LwipInit
          /\ ~exiting /\ timer = "running"
    /\ pc \in {"idle", "init", "fail1", "fail2", "fail3"} =>
          \A j \in PacketJobs : ~BPending_IsSet(jobs, j)
    /\ pc \in {"idle", "init", "fail1", "fail2", "fail3", "fail4", "fail4a"} =>
          ~BPending_IsSet(jobs, LwipInit)
    /\ pc = "loop" => LoopJobs

IInv == HeldByStage /\ GoneByStage /\ FdsAreServed /\ JobsByStage
-----------------------------------------------------------------------------
(* Removing a job keeps the others, in their order.                         *)
LEMMA FreeFacts ==
    ASSUME NEW q, JobList(q), NEW j
    PROVE  /\ JobList(BPending_Free(q, j))
           /\ \A k : BPending_IsSet(BPending_Free(q, j), k) <=> BPending_IsSet(q, k) /\ k # j
           /\ Above(q) /\ j # Mark(1) => Above(BPending_Free(q, j))
<1> DEFINE r == BPending_Free(q, j)
<1>1. CASE ~BPending_IsSet(q, j)
  BY <1>1, Zenon DEF BPending_Free
<1>2. CASE BPending_IsSet(q, j)
  <2> DEFINE at == CHOOSE i \in DOMAIN q : q[i] = j
  <2>1. at \in DOMAIN q /\ q[at] = j
    BY <1>2, Zenon DEF BPending_IsSet
  <2>2. r = [k \in 1..(Len(q) - 1) |-> IF k < at THEN q[k] ELSE q[k + 1]]
    BY <1>2, Zenon DEF BPending_Free
  <2> HIDE DEF at
  <2>3. q \in Seq(Elements) /\ Len(q) \in Nat /\ DOMAIN q = 1..Len(q) /\ at \in 1..Len(q)
    BY <2>1 DEF JobList
  <2>4. \A k \in 1..(Len(q) - 1) : r[k] = IF k < at THEN q[k] ELSE q[k + 1]
    BY <2>2, Zenon
  <2>5. r \in Seq(Elements) /\ DOMAIN r = 1..(Len(q) - 1)
    BY <2>2, <2>3
  <2> HIDE DEF r
  <2>6. ASSUME NEW i \in DOMAIN r, NEW k \in DOMAIN r, r[i] = r[k] PROVE i = k
    <3>1. i \in 1..(Len(q) - 1) /\ k \in 1..(Len(q) - 1)
      BY <2>5, Zenon
    <3>2. PICK a \in 1..Len(q) : r[i] = q[a] /\ a = IF i < at THEN i ELSE i + 1
      BY <3>1, <2>3, <2>4
    <3>3. PICK b \in 1..Len(q) : r[k] = q[b] /\ b = IF k < at THEN k ELSE k + 1
      BY <3>1, <2>3, <2>4
    <3>4. a = b
      BY <3>2, <3>3, <2>6, <2>3, Zenon DEF JobList
    <3> QED BY <3>1, <3>2, <3>3, <3>4, <2>3
  <2>7. JobList(r)
    BY <2>5, <2>6, Zenon DEF JobList
  <2>8. ASSUME NEW k PROVE BPending_IsSet(r, k) <=> BPending_IsSet(q, k) /\ k # j
    <3>1. ASSUME BPending_IsSet(r, k) PROVE BPending_IsSet(q, k) /\ k # j
      <4>1. PICK i \in 1..(Len(q) - 1) : r[i] = k
        BY <3>1, <2>5, Zenon DEF BPending_IsSet
      <4>2. PICK a \in 1..Len(q) : k = q[a] /\ a # at
        BY <4>1, <2>3, <2>4
      <4> QED BY <4>2, <2>1, <2>3, Zenon DEF BPending_IsSet, JobList
    <3>2. ASSUME BPending_IsSet(q, k), k # j PROVE BPending_IsSet(r, k)
      <4>1. PICK a \in 1..Len(q) : q[a] = k
        BY <3>2, <2>3, Zenon DEF BPending_IsSet
      <4>2. a # at
        BY <4>1, <3>2, <2>1, Zenon
      <4>3. PICK i \in 1..(Len(q) - 1) : r[i] = k
        <5>1. CASE a < at
          <6>1. a \in 1..(Len(q) - 1) /\ r[a] = k
            BY <5>1, <4>1, <2>3, <2>4
          <6> QED BY <6>1, Zenon
        <5>2. CASE a > at
          <6>1. a - 1 \in 1..(Len(q) - 1) /\ r[a - 1] = k
            BY <5>2, <4>1, <2>3, <2>4
          <6> QED BY <6>1, Zenon
        <5> QED BY <5>1, <5>2, <4>2, <2>3
      <4> QED BY <4>3, <2>5, Zenon DEF BPending_IsSet
    <3> QED BY <3>1, <3>2, Zenon
  <2>9. ASSUME Above(q), j # Mark(1) PROVE Above(r)
    <3>1. PICK n \in 1..Len(q) : /\ q[n] = Mark(1)
                                 /\ \A i \in 1..(n - 1) : q[i] \in AllSocks \union {Mark(2)}
      BY <2>9, <2>3, Zenon DEF Above
    <3>2. n # at
      BY <3>1, <2>1, <2>9, Zenon
    <3>3. CASE n < at
      <4>1. n \in 1..(Len(q) - 1) /\ r[n] = Mark(1)
        BY <3>3, <3>1, <2>3, <2>4
      <4>2. \A i \in 1..(n - 1) : r[i] = q[i]
        BY <3>3, <3>1, <2>3, <2>4
      <4> QED BY <4>1, <4>2, <3>1, <2>5, Zenon DEF Above
    <3>4. CASE n > at
      <4>1. n - 1 \in 1..(Len(q) - 1) /\ r[n - 1] = Mark(1)
        BY <3>4, <3>1, <2>3, <2>4
      <4>2. \A i \in 1..((n - 1) - 1) : \E a \in 1..(n - 1) : r[i] = q[a]
        <5> TAKE i \in 1..((n - 1) - 1)
        <5>1. i \in 1..(n - 1) /\ i + 1 \in 1..(n - 1) /\ i \in 1..(Len(q) - 1)
          BY <3>1, <2>3
        <5>2. r[i] = q[i] \/ r[i] = q[i + 1]
          BY <5>1, <2>4, Zenon
        <5> QED BY <5>1, <5>2, Zenon
      <4> QED BY <4>1, <4>2, <3>1, <2>5, Zenon DEF Above
    <3> QED BY <3>2, <3>3, <3>4, <2>3
  <2> QED BY <2>7, <2>8, <2>9, Zenon DEF r
<1> QED BY <1>1, <1>2, Zenon

(* A job that is set is the first, and the others keep their order.         *)
LEMMA SetFacts ==
    ASSUME NEW q, JobList(q), NEW j \in Elements
    PROVE  /\ JobList(BPending_Set(q, j))
           /\ \A k : BPending_IsSet(BPending_Set(q, j), k) <=> BPending_IsSet(q, k) \/ k = j
           /\ BPending_Set(q, j) # <<>> /\ Head(BPending_Set(q, j)) = j
           /\ j = Mark(1) => Above(BPending_Set(q, j))
           /\ Above(q) /\ j \in AllSocks \union {Mark(2)} /\ j # Mark(1) => Above(BPending_Set(q, j))
<1> DEFINE r == BPending_Free(q, j)
           s == BPending_Set(q, j)
<1>1. /\ JobList(r)
      /\ \A k : BPending_IsSet(r, k) <=> BPending_IsSet(q, k) /\ k # j
      /\ Above(q) /\ j # Mark(1) => Above(r)
  BY FreeFacts, Zenon
<1>2. s = <<j>> \o r
  BY Zenon DEF BPending_Set
<1> HIDE DEF r, s
<1>3. r \in Seq(Elements) /\ Len(r) \in Nat /\ DOMAIN r = 1..Len(r)
  BY <1>1 DEF JobList
<1>4. /\ s \in Seq(Elements) /\ Len(s) = Len(r) + 1 /\ DOMAIN s = 1..(Len(r) + 1)
      /\ s[1] = j /\ s # <<>> /\ Head(s) = j
      /\ \A i \in 2..(Len(r) + 1) : s[i] = r[i - 1]
  BY <1>2, <1>3
<1>5. \A i \in 1..Len(r) : s[i + 1] = r[i]
  BY <1>4, <1>3
<1>6. \A k : BPending_IsSet(s, k) <=> BPending_IsSet(r, k) \/ k = j
  <2> TAKE k
  <2>1. ASSUME BPending_IsSet(s, k), k # j PROVE BPending_IsSet(r, k)
    <3>1. PICK i \in 1..(Len(r) + 1) : s[i] = k
      BY <2>1, <1>4, Zenon DEF BPending_IsSet
    <3>2. i - 1 \in 1..Len(r) /\ r[i - 1] = k
      BY <3>1, <2>1, <1>3, <1>4
    <3> QED BY <3>2, <1>3, Zenon DEF BPending_IsSet
  <2>2. ASSUME BPending_IsSet(r, k) PROVE BPending_IsSet(s, k)
    <3>1. PICK i \in 1..Len(r) : r[i] = k
      BY <2>2, <1>3, Zenon DEF BPending_IsSet
    <3>2. i + 1 \in DOMAIN s /\ s[i + 1] = k
      BY <3>1, <1>3, <1>4, <1>5
    <3> QED BY <3>2, Zenon DEF BPending_IsSet
  <2>3. 1 \in DOMAIN s /\ s[1] = j
    BY <1>3, <1>4
  <2>4. BPending_IsSet(s, j)
    BY <2>3, Zenon DEF BPending_IsSet
  <2> QED BY <2>1, <2>2, <2>4, Zenon
<1>7. ~BPending_IsSet(r, j)
  BY <1>1, Zenon
<1>8. ASSUME NEW i \in DOMAIN s, NEW k \in DOMAIN s, s[i] = s[k] PROVE i = k
  <2>1. ASSUME NEW m \in 2..(Len(r) + 1) PROVE m - 1 \in DOMAIN r /\ s[m] = r[m - 1] /\ s[m] # j
    <3>1. m - 1 \in DOMAIN r /\ s[m] = r[m - 1]
      BY <1>3, <1>4
    <3> QED BY <3>1, <1>7, Zenon DEF BPending_IsSet
  <2>2. i \in 1..(Len(r) + 1) /\ k \in 1..(Len(r) + 1)
    BY <1>4, Zenon
  <2>3. CASE i = 1 \/ k = 1
    BY <2>1, <2>2, <2>3, <1>3, <1>4, <1>8
  <2>4. CASE i # 1 /\ k # 1
    <3>1. i \in 2..(Len(r) + 1) /\ k \in 2..(Len(r) + 1)
      BY <2>2, <2>4, <1>3
    <3>2. i - 1 = k - 1
      BY <3>1, <2>1, <1>1, <1>8, Zenon DEF JobList
    <3> QED BY <3>1, <3>2, <1>3
  <2> QED BY <2>3, <2>4, Zenon
<1>9. JobList(s)
  BY <1>4, <1>8, Zenon DEF JobList
<1>10. ASSUME j = Mark(1) PROVE Above(s)
  <2>1. 1 \in DOMAIN s /\ s[1] = Mark(1) /\ \A i \in 1..(1 - 1) : FALSE
    BY <1>3, <1>4, <1>10
  <2> QED BY <2>1, Zenon DEF Above
<1>11. ASSUME Above(q), j \in AllSocks \union {Mark(2)}, j # Mark(1) PROVE Above(s)
  <2>1. PICK n \in 1..Len(r) : /\ r[n] = Mark(1)
                               /\ \A i \in 1..(n - 1) : r[i] \in AllSocks \union {Mark(2)}
    BY <1>1, <1>3, <1>11, Zenon DEF Above
  <2>2. n + 1 \in DOMAIN s /\ s[n + 1] = Mark(1)
    BY <2>1, <1>3, <1>4, <1>5
  <2>3. \A i \in 1..((n + 1) - 1) : i = 1 \/ (i - 1 \in 1..(n - 1) /\ s[i] = r[i - 1])
    BY <2>1, <1>3, <1>4
  <2>4. \A i \in 1..((n + 1) - 1) : s[i] \in AllSocks \union {Mark(2)}
    BY <2>1, <2>3, <1>4, <1>11, Zenon
  <2> QED BY <2>2, <2>4, Zenon DEF Above
<1> QED BY <1>1, <1>4, <1>6, <1>9, <1>10, <1>11, Zenon DEF s

(* The jobs are told apart by their owners and their names.                 *)
LEMMA JobNames ==
    /\ \A j \in AllSocks : j \notin PacketJobs /\ j \notin Marks /\ j # LwipInit
    /\ \A c, e \in Conns : \A j \in SocksJobs(c) : j \in SocksJobs(e) => c = e
    /\ \A j \in PacketJobs : j \notin Marks /\ j # LwipInit
    /\ LwipInit \notin Marks /\ Mark(1) # Mark(2)
    /\ Device("operation") # Device("done")
    /\ ReadInterface("operation") # ReadInterface("done")
    /\ \A j \in DeviceJobs : j \notin ReadJobs
<1>1. \A c \in Conns : c \notin {"lwip", "device", "device_read_interface", "sync_mark"}
  BY ConnsAreConns, Zenon
<1>2. \A j \in AllSocks : \E c \in Conns : j[1] = c
  BY DEF AllSocks, SocksJobs, Socks
<1>3. \A j \in PacketJobs : j[1] \in {"device", "device_read_interface"}
  BY DEF PacketJobs, DeviceJobs, ReadJobs, Device, ReadInterface
<1>4. \A j \in Marks : j[1] = "sync_mark"
  BY DEF Marks, Mark
<1>5. LwipInit[1] = "lwip"
  BY Zenon DEF LwipInit
<1>6. \A c, e \in Conns : \A j \in SocksJobs(c) : j \in SocksJobs(e) => c = e
  <2>1. \A c \in Conns : \A j \in SocksJobs(c) : j[1] = c
    BY DEF SocksJobs, Socks
  <2> QED BY <2>1, Zenon
<1>7. /\ Mark(1) # Mark(2) /\ Device("operation") # Device("done")
      /\ ReadInterface("operation") # ReadInterface("done")
      /\ \A j \in DeviceJobs : j \notin ReadJobs
  BY DEF Mark, Device, ReadInterface, DeviceJobs, ReadJobs
<1> QED BY <1>1, <1>2, <1>3, <1>4, <1>5, <1>6, <1>7, Zenon

LEMMA JobTypes ==
    /\ \A c \in Conns : \A d \in Directions : \A job \in {"operation", "done"} :
          Socks(c, d, job) \in SocksJobs(c)
    /\ \A c \in Conns : \A j \in SocksJobs(c) : j \in AllSocks
    /\ AllSocks \subseteq Elements /\ PacketJobs \subseteq Elements /\ Marks \subseteq Elements
    /\ LwipInit \in Elements
    /\ \A job \in {"operation", "done"} :
          Device(job) \in PacketJobs /\ ReadInterface(job) \in PacketJobs
    /\ Mark(1) \in Marks /\ Mark(2) \in Marks
<1>1. \A c \in Conns : \A d \in Directions : \A job \in {"operation", "done"} :
          Socks(c, d, job) \in SocksJobs(c)
  BY DEF SocksJobs
<1>2. \A c \in Conns : \A j \in SocksJobs(c) : j \in AllSocks
  BY Zenon DEF AllSocks
<1>3. AllSocks \subseteq Elements /\ PacketJobs \subseteq Elements /\ Marks \subseteq Elements
  BY Zenon DEF AllSocks, Elements, Jobs, PacketJobs
<1>4. LwipInit \in Elements
  BY Zenon DEF Elements, Jobs
<1>5. \A job \in {"operation", "done"} :
          Device(job) \in PacketJobs /\ ReadInterface(job) \in PacketJobs
  BY Zenon DEF PacketJobs, DeviceJobs, ReadJobs
<1>6. Mark(1) \in Marks /\ Mark(2) \in Marks
  BY Zenon DEF Marks
<1> QED BY <1>1, <1>2, <1>3, <1>4, <1>5, <1>6, Zenon

(* The marks and lwIP's job are none of the others.                         *)
LEMMA MarksApart ==
    /\ \A j \in AllSocks \union PacketJobs : j # Mark(1) /\ j # Mark(2) /\ j # LwipInit
    /\ \A m \in Marks : m \in Elements /\ m # LwipInit /\ m \notin AllSocks
    /\ LwipInit \notin AllSocks
<1>1. Mark(1) \in Marks /\ Mark(2) \in Marks /\ Marks \subseteq Elements
  BY JobTypes, Zenon
<1>2. \A j \in AllSocks : j \notin Marks /\ j # LwipInit
  BY JobNames, Zenon
<1>3. \A j \in PacketJobs : j \notin Marks /\ j # LwipInit
  BY JobNames, Zenon
<1>4. LwipInit \notin Marks
  BY JobNames, Zenon
<1> QED BY <1>1, <1>2, <1>3, <1>4, Zenon

(* From the list q to the list r only SOCKS jobs came and went.             *)
SocksOnly(q, r) ==
    /\ JobList(r)
    /\ \A j : j \notin AllSocks => (BPending_IsSet(r, j) <=> BPending_IsSet(q, j))
    /\ Above(q) => Above(r)

LEMMA SocksOnlyTransitive ==
    ASSUME NEW q, NEW r, NEW s, SocksOnly(q, r), SocksOnly(r, s)
    PROVE  SocksOnly(q, s)
BY Zenon DEF SocksOnly

LEMMA FreeSocks ==
    ASSUME NEW q, JobList(q), NEW j \in AllSocks, NEW L
    PROVE  /\ SocksOnly(q, BPending_Free(q, j))
           /\ OwnedBy(q, L) => OwnedBy(BPending_Free(q, j), L)
<1>1. j # Mark(1)
  BY MarksApart, Zenon
<1>2. /\ JobList(BPending_Free(q, j))
      /\ \A k : BPending_IsSet(BPending_Free(q, j), k) <=> BPending_IsSet(q, k) /\ k # j
      /\ Above(q) => Above(BPending_Free(q, j))
  BY FreeFacts, <1>1, Zenon
<1>3. SocksOnly(q, BPending_Free(q, j))
  BY <1>2, Zenon DEF SocksOnly
<1> QED BY <1>2, <1>3, Zenon DEF OwnedBy

LEMMA SetSocks ==
    ASSUME NEW q, JobList(q), NEW L, OwnedBy(q, L), NEW c \in Conns, c \in L, NEW j \in SocksJobs(c)
    PROVE  /\ SocksOnly(q, BPending_Set(q, j)) /\ OwnedBy(BPending_Set(q, j), L)
           /\ BPending_Set(q, j) # <<>> /\ Head(BPending_Set(q, j)) = j
<1>1. j \in AllSocks /\ j \in Elements
  BY JobTypes, Zenon
<1>2. j # Mark(1)
  BY <1>1, MarksApart, Zenon
<1>3. /\ JobList(BPending_Set(q, j))
      /\ \A k : BPending_IsSet(BPending_Set(q, j), k) <=> BPending_IsSet(q, k) \/ k = j
      /\ BPending_Set(q, j) # <<>> /\ Head(BPending_Set(q, j)) = j
      /\ Above(q) => Above(BPending_Set(q, j))
  BY SetFacts, <1>1, <1>2, Zenon
<1>4. SocksOnly(q, BPending_Set(q, j))
  BY <1>1, <1>3, Zenon DEF SocksOnly
<1>5. OwnedBy(BPending_Set(q, j), L)
  <2>1. \A e \in Conns : j \in SocksJobs(e) => e = c
    BY JobNames, Zenon
  <2> QED BY <2>1, <1>3, Zenon DEF OwnedBy
<1> QED BY <1>3, <1>4, <1>5, Zenon

LEMMA Starts ==
    ASSUME NEW q, JobList(q), NEW L, OwnedBy(q, L), NEW c \in Conns, c \in L,
           NEW d \in Directions, NEW D
    PROVE  SocksOnly(q, starts(q, c, d, D)) /\ OwnedBy(starts(q, c, d, D), L)
<1>1. Socks(c, d, "operation") \in SocksJobs(c)
  BY JobTypes, Zenon
<1>2. /\ SocksOnly(q, BPending_Set(q, Socks(c, d, "operation")))
      /\ OwnedBy(BPending_Set(q, Socks(c, d, "operation")), L)
  BY SetSocks, <1>1, Zenon
<1>3. SocksOnly(q, q)
  BY Zenon DEF SocksOnly
<1> QED BY <1>2, <1>3, Zenon DEF starts

(* Freeing the jobs of a connection leaves none of them.                    *)
LEMMA FreesJobs ==
    ASSUME NEW q, JobList(q), NEW L, OwnedBy(q, L), NEW c \in Conns
    PROVE  SocksOnly(q, freesJobs(q, c)) /\ OwnedBy(freesJobs(q, c), L \ {c})
<1> DEFINE q1 == BPending_Free(q, Socks(c, "send", "operation"))
           q2 == BPending_Free(q1, Socks(c, "send", "done"))
           q3 == BPending_Free(q2, Socks(c, "recv", "operation"))
           q4 == BPending_Free(q3, Socks(c, "recv", "done"))
<1>1. freesJobs(q, c) = q4
  BY Zenon DEF freesJobs
<1>2. \A d \in Directions : \A job \in {"operation", "done"} : Socks(c, d, job) \in AllSocks
  BY JobTypes, Zenon
<1>3. "send" \in Directions /\ "recv" \in Directions
  BY Zenon DEF Directions
<1>4. /\ Socks(c, "send", "operation") \in AllSocks /\ Socks(c, "send", "done") \in AllSocks
      /\ Socks(c, "recv", "operation") \in AllSocks /\ Socks(c, "recv", "done") \in AllSocks
  BY <1>2, <1>3, Zenon
<1>5. SocksOnly(q, q1) /\ OwnedBy(q1, L) /\ JobList(q1)
      /\ \A k : BPending_IsSet(q1, k) <=> BPending_IsSet(q, k) /\ k # Socks(c, "send", "operation")
  BY <1>4, FreeSocks, FreeFacts, Zenon
<1> HIDE DEF q1
<1>6. SocksOnly(q1, q2) /\ OwnedBy(q2, L) /\ JobList(q2)
      /\ \A k : BPending_IsSet(q2, k) <=> BPending_IsSet(q1, k) /\ k # Socks(c, "send", "done")
  BY <1>4, <1>5, FreeSocks, FreeFacts, Zenon
<1> HIDE DEF q2
<1>7. SocksOnly(q2, q3) /\ OwnedBy(q3, L) /\ JobList(q3)
      /\ \A k : BPending_IsSet(q3, k) <=> BPending_IsSet(q2, k) /\ k # Socks(c, "recv", "operation")
  BY <1>4, <1>6, FreeSocks, FreeFacts, Zenon
<1> HIDE DEF q3
<1>8. SocksOnly(q3, q4) /\ OwnedBy(q4, L) /\ JobList(q4)
      /\ \A k : BPending_IsSet(q4, k) <=> BPending_IsSet(q3, k) /\ k # Socks(c, "recv", "done")
  BY <1>4, <1>7, FreeSocks, FreeFacts, Zenon
<1> HIDE DEF q4
<1>9. SocksOnly(q, q4)
  <2>1. SocksOnly(q, q2)
    BY <1>5, <1>6, SocksOnlyTransitive, Zenon
  <2>2. SocksOnly(q, q3)
    BY <2>1, <1>7, SocksOnlyTransitive, Zenon
  <2> QED BY <2>2, <1>8, SocksOnlyTransitive, Zenon
<1>10. ASSUME NEW j \in SocksJobs(c) PROVE ~BPending_IsSet(q4, j)
  <2>1. \/ j = Socks(c, "send", "operation") \/ j = Socks(c, "send", "done")
        \/ j = Socks(c, "recv", "operation") \/ j = Socks(c, "recv", "done")
    BY DEF SocksJobs, Directions
  <2> QED BY <2>1, <1>6, <1>7, <1>8, <1>5, Zenon
<1>11. OwnedBy(q4, L \ {c})
  BY <1>8, <1>10, Zenon DEF OwnedBy
<1> QED BY <1>1, <1>9, <1>11, Zenon

-----------------------------------------------------------------------------
(* The loop's jobs.                                                         *)

LEMMA CalmKept ==
    ASSUME NEW q, NEW calls, NEW L, Calm(q, calls, L), NEW r, SocksOnly(q, r), NEW M, OwnedBy(r, M)
    PROVE  Calm(r, calls, M)
<1>1. LwipInit \notin AllSocks /\ Mark(1) \notin AllSocks /\ Mark(2) \notin AllSocks
  BY MarksApart, Zenon DEF Marks
<1> QED BY <1>1, Zenon DEF Calm, SocksOnly

(* A packet job replaces what was there, when nobody synchronizes.          *)
LEMMA CalmSet ==
    ASSUME NEW q, NEW L, Calm(q, <<>>, L), NEW j \in PacketJobs
    PROVE  Calm(BPending_Set(q, j), <<>>, L)
<1>1. JobList(q) /\ OwnedBy(q, L) /\ ~BPending_IsSet(q, LwipInit)
      /\ ~BPending_IsSet(q, Mark(1)) /\ ~BPending_IsSet(q, Mark(2))
  BY Zenon DEF Calm
<1>2. j \in Elements /\ j # LwipInit /\ j # Mark(1) /\ j # Mark(2) /\ j \notin AllSocks
  <2>1. j \in Elements /\ Mark(1) \in Marks /\ Mark(2) \in Marks
    BY JobTypes, Zenon
  <2>2. j \notin Marks /\ j # LwipInit /\ j \notin AllSocks
    BY JobNames, Zenon
  <2> QED BY <2>1, <2>2, Zenon
<1>3. JobList(BPending_Set(q, j)) 
      /\ \A k : BPending_IsSet(BPending_Set(q, j), k) <=> BPending_IsSet(q, k) \/ k = j
  BY <1>1, <1>2, SetFacts, Zenon
<1>4. \A c \in Conns : j \notin SocksJobs(c)
  BY <1>2, JobTypes, Zenon
<1>5. OwnedBy(BPending_Set(q, j), L)
  BY <1>1, <1>3, <1>4, Zenon DEF OwnedBy
<1> QED BY <1>1, <1>2, <1>3, <1>5, Zenon DEF Calm

(* The mark of a first call of BReactor_Synchronize.                        *)
LEMMA CalmMark ==
    ASSUME NEW q, NEW L, Calm(q, <<>>, L), NEW what \in {"input", "timer", "output"}
    PROVE  Calm(BPending_Set(q, Mark(1)), <<what>>, L)
<1>1. JobList(q) /\ OwnedBy(q, L) /\ ~BPending_IsSet(q, LwipInit) /\ ~BPending_IsSet(q, Mark(2))
  BY Zenon DEF Calm
<1>2. Mark(1) \in Elements /\ Mark(1) # LwipInit /\ Mark(1) # Mark(2) /\ Mark(1) \notin AllSocks
  <2>1. Mark(1) # Mark(2)
    BY JobNames, Zenon
  <2> QED BY <2>1, MarksApart, Zenon DEF Marks
<1>3. JobList(BPending_Set(q, Mark(1))) /\ Above(BPending_Set(q, Mark(1)))
      /\ \A k : BPending_IsSet(BPending_Set(q, Mark(1)), k) <=> BPending_IsSet(q, k) \/ k = Mark(1)
  BY <1>1, <1>2, SetFacts, Zenon
<1>4. \A c \in Conns : Mark(1) \notin SocksJobs(c)
  BY <1>2, JobTypes, Zenon
<1>5. OwnedBy(BPending_Set(q, Mark(1)), L)
  BY <1>1, <1>3, <1>4, Zenon DEF OwnedBy
<1>6. <<what>> # <<>>
  OBVIOUS
<1> QED BY <1>1, <1>2, <1>3, <1>5, <1>6, Zenon DEF Calm

(* The mark of a call of BReactor_Synchronize inside another.               *)
LEMMA NestedMark ==
    ASSUME NEW q, NEW L, NEW w \in {"input", "timer", "output"}, Calm(q, <<w>>, L)
    PROVE  Nested(BPending_Set(q, Mark(2)), <<w, "output">>, L)
<1>1. JobList(q) /\ OwnedBy(q, L) /\ ~BPending_IsSet(q, LwipInit)
  BY Zenon DEF Calm
<1>2. Above(q)
  <2>1. <<w>> # <<>>
    OBVIOUS
  <2> QED BY <2>1, Zenon DEF Calm
<1>3. Mark(2) \in Elements /\ Mark(2) # LwipInit /\ Mark(1) # Mark(2) /\ Mark(2) \notin AllSocks
  <2>1. Mark(1) # Mark(2)
    BY JobNames, Zenon
  <2> QED BY <2>1, MarksApart, Zenon DEF Marks
<1>4. JobList(BPending_Set(q, Mark(2))) /\ Above(BPending_Set(q, Mark(2)))
      /\ BPending_Set(q, Mark(2)) # <<>> /\ Head(BPending_Set(q, Mark(2))) = Mark(2)
      /\ \A k : BPending_IsSet(BPending_Set(q, Mark(2)), k) <=> BPending_IsSet(q, k) \/ k = Mark(2)
  BY <1>1, <1>2, <1>3, SetFacts, Zenon
<1>5. \A c \in Conns : Mark(2) \notin SocksJobs(c)
  BY <1>3, JobTypes, Zenon
<1>6. OwnedBy(BPending_Set(q, Mark(2)), L)
  BY <1>1, <1>4, <1>5, Zenon DEF OwnedBy
<1> QED BY <1>1, <1>3, <1>4, <1>6, Zenon DEF Nested

LEMMA HeadIsSet ==
    ASSUME NEW q, JobList(q), q # <<>>
    PROVE  BPending_IsSet(q, Head(q))
<1>1. 1 \in DOMAIN q /\ q[1] = Head(q)
  BY DEF JobList
<1> QED BY <1>1, Zenon DEF BPending_IsSet

(* Whichever job but lwIP's own runs, lwIP has been started; and a job that *)
(* runs inside BReactor_Synchronize is one of a SOCKS connection.           *)
LEMMA Executes ==
    ASSUME LoopJobs, NEW j, executesJob(j), j # LwipInit
    PROVE  /\ Calm(jobs, syncs, live) /\ Calm(BPending_Free(jobs, j), syncs, live)
           /\ \A k : BPending_IsSet(BPending_Free(jobs, j), k) <=> BPending_IsSet(jobs, k) /\ k # j
           /\ BPending_IsSet(jobs, j)
           /\ j \notin AllSocks => syncs = <<>>
           /\ ~exiting /\ Lwip \subseteq held /\ OneOwner(jobs)
<1>1. ~exiting /\ jobs # <<>> /\ Head(jobs) = j /\ (syncs # <<>> => j # Mark(Len(syncs)))
  BY Zenon DEF executesJob
<1>2. ~Fresh(jobs, syncs, live)
  BY <1>1, Zenon DEF Fresh
<1>3. ~Nested(jobs, syncs, live)
  <2> SUFFICES ASSUME Nested(jobs, syncs, live) PROVE FALSE
    OBVIOUS
  <2>1. PICK w \in {"input", "timer", "output"} : syncs = <<w, "output">>
    BY Zenon DEF Nested
  <2>2. Len(syncs) = 2 /\ syncs # <<>>
    BY <2>1, Zenon
  <2> QED BY <1>1, <2>2, Zenon DEF Nested
<1>4. Calm(jobs, syncs, live) /\ Lwip \subseteq held /\ OneOwner(jobs)
  BY <1>1, <1>2, <1>3, Zenon DEF LoopJobs
<1>5. JobList(jobs) /\ OwnedBy(jobs, live) /\ ~BPending_IsSet(jobs, LwipInit)
      /\ ~BPending_IsSet(jobs, Mark(2))
      /\ (syncs = <<>> \/ \E w \in {"input", "timer", "output"} : syncs = <<w>>)
      /\ (syncs = <<>> => ~BPending_IsSet(jobs, Mark(1)))
      /\ (syncs # <<>> => Above(jobs))
  BY <1>4, Zenon DEF Calm
<1>6. BPending_IsSet(jobs, j)
  BY <1>1, <1>5, HeadIsSet, Zenon
<1>7. /\ JobList(BPending_Free(jobs, j))
      /\ \A k : BPending_IsSet(BPending_Free(jobs, j), k) <=> BPending_IsSet(jobs, k) /\ k # j
      /\ Above(jobs) /\ j # Mark(1) => Above(BPending_Free(jobs, j))
  BY <1>5, FreeFacts, Zenon
<1>8. ASSUME syncs # <<>> PROVE j \in AllSocks /\ j # Mark(1)
  <2>1. PICK w \in {"input", "timer", "output"} : syncs = <<w>>
    BY <1>5, <1>8, Zenon
  <2>2. Len(syncs) = 1
    BY <2>1, Zenon
  <2>3. j # Mark(1)
    BY <1>1, <1>8, <2>2, Zenon
  <2>4. PICK n \in DOMAIN jobs : /\ jobs[n] = Mark(1)
                                 /\ \A i \in 1..(n - 1) : jobs[i] \in AllSocks \union {Mark(2)}
    BY <1>5, <1>8, Zenon DEF Above
  <2>5. jobs[1] = j /\ DOMAIN jobs = 1..Len(jobs) /\ Len(jobs) \in Nat
    BY <1>1, <1>5 DEF JobList
  <2>6. n # 1
    BY <2>3, <2>4, <2>5, Zenon
  <2>7. 1 \in 1..(n - 1)
    BY <2>5, <2>6
  <2>8. j \in AllSocks \union {Mark(2)}
    BY <2>4, <2>5, <2>7, Zenon
  <2> QED BY <2>3, <2>8, <1>5, <1>6, Zenon
<1>9. OwnedBy(BPending_Free(jobs, j), live)
  BY <1>5, <1>7, Zenon DEF OwnedBy
<1>10. Calm(BPending_Free(jobs, j), syncs, live)
  BY <1>5, <1>7, <1>8, <1>9, Zenon DEF Calm
<1> QED BY <1>1, <1>4, <1>6, <1>7, <1>8, <1>10, Zenon

(* With no job left, and nobody in BReactor_Synchronize.                    *)
LEMMA NoJobs ==
    ASSUME LoopJobs, jobs = <<>>, syncs = <<>>, ~exiting
    PROVE  Calm(jobs, syncs, live) /\ Lwip \subseteq held /\ OneOwner(jobs)
<1>1. ~Fresh(jobs, syncs, live) /\ ~Nested(jobs, syncs, live)
  BY Zenon DEF Fresh, Nested
<1> QED BY <1>1, Zenon DEF LoopJobs

-----------------------------------------------------------------------------
(* What is held.                                                            *)

LEMMA UptoFacts ==
    /\ Upto("init") = {} /\ Upto("fail1") = {} /\ Upto("idle") = {}
    /\ Upto("tap") = {"reactor"} /\ Upto("fail2") = {"reactor"} /\ Upto("fail3") = {"reactor"}
    /\ Upto("read") = {"reactor", "device"}
    /\ Upto("fail4") = Upto("read") \union {"device_read_interface"}
    /\ Upto("fail4a") = Upto("fail4") \union {"device_read_buffer"}
    /\ Upto("lwip") = Upto("fail4a")
    /\ Upto("fail5") = Upto("lwip") \union {"lwip_init_job"}
    /\ Upto("udp") = Upto("fail5") \union {"device_write_buf"}
    /\ Upto("loop") = Upto("udp") \union {"udp_buffer", "udp_socket"}
    /\ Upto("free_clients") = Upto("loop") /\ Upto("free_lwip") = Upto("loop")
    /\ Upto("free_udp") = Upto("loop")
<1>1. /\ Upto("init") = {} /\ Upto("fail1") = {} /\ Upto("idle") = {}
      /\ Upto("tap") = {"reactor"} /\ Upto("fail2") = {"reactor"} /\ Upto("fail3") = {"reactor"}
      /\ Upto("read") = {"reactor", "device"}
  BY Zenon DEF Upto
<1>2. /\ Upto("fail4") = {"reactor", "device", "device_read_interface"}
      /\ Upto("fail4a") = {"reactor", "device", "device_read_interface", "device_read_buffer"}
      /\ Upto("lwip") = {"reactor", "device", "device_read_interface", "device_read_buffer"}
  BY Zenon DEF Upto
<1>3. /\ Upto("fail5") = {"reactor", "device", "device_read_interface", "device_read_buffer",
                          "lwip_init_job"}
      /\ Upto("udp") = {"reactor", "device", "device_read_interface", "device_read_buffer",
                        "lwip_init_job", "device_write_buf"}
  BY Zenon DEF Upto
<1>4. Upto("loop") = {"reactor", "device", "device_read_interface", "device_read_buffer",
                      "lwip_init_job", "device_write_buf", "udp_buffer", "udp_socket"}
  BY Zenon DEF Upto
<1>5. /\ Upto("free_clients") = Upto("loop") /\ Upto("free_lwip") = Upto("loop")
      /\ Upto("free_udp") = Upto("loop")
  BY Zenon DEF Upto
<1> QED BY <1>1, <1>2, <1>3, <1>4, <1>5, Zenon

LEMMA FreesFacts ==
    /\ Frees["free_udp"] = {"udp_buffer", "udp_socket", "device_write_buf"}
    /\ Frees["fail5"] = {"lwip_init_job"} /\ Frees["fail4a"] = {"device_read_buffer"}
    /\ Frees["fail4"] = {"device_read_interface", "device"} /\ Frees["fail2"] = {"reactor"}
    /\ \A l \in {"free_clients", "free_lwip", "fail3", "fail1"} : Frees[l] = {}
BY Zenon DEF Frees, Labels

(* In the loop, run() itself stays where it is; only lwIP's start acquires. *)
LEMMA LoopFrame ==
    ASSUME handler
    PROVE  /\ pc = "loop" /\ pc' = pc /\ failed' = failed
           /\ held' = held \/ held' = held \union {"netif"} \/ held' = held \union Lwip
           /\ held' = held \/ lwip_init_job_handler
<1>1. CASE lwip_init_job_handler
  BY <1>1, Zenon DEF lwip_init_job_handler
<1>2. CASE inLoop
  BY <1>2, Zenon DEF inLoop
<1>3. lwip_init_job_handler \/ inLoop
  BY Zenon DEF handler, passesPacket, device_read_handler_send, output_handler_recv, fd_handler,
         socksOperation, socksDone, connection_fd_handler, hangsUp, tcp_timer_handler,
         udpReadable, reactorWaits, reactorReturns
<1> QED BY <1>1, <1>2, <1>3, Zenon

LEMMA HeldStep ==
    ASSUME HeldByStage, [Next]_vars
    PROVE  HeldByStage'
<1> USE UptoFacts, FreesFacts
<1>1. CASE UNCHANGED <<pc, held, failed>>
  BY <1>1, Zenon DEF HeldByStage, Extra
<1>2. CASE runTun2Socks
  BY <1>2, Zenon DEF runTun2Socks, HeldByStage, Extra, Places, Stages, Labels, Lwip
<1>3. CASE initReactor
  BY <1>3 DEF initReactor, fails, HeldByStage, Extra, Places, Stages, Labels, Lwip
<1>4. CASE initDevice
  BY <1>4 DEF initDevice, fails, HeldByStage, Extra, Places, Stages, Labels, Lwip
<1>5. CASE initReading
  BY <1>5 DEF initReading, fails, HeldByStage, Extra, Places, Stages, Labels, Lwip
<1>6. CASE initLwipJob
  BY <1>6, Zenon DEF initLwipJob, fails, HeldByStage, Extra, Places, Stages, Labels, Lwip
<1>7. CASE initUdp
  BY <1>7, Zenon DEF initUdp, fails, HeldByStage, Extra, Places, Stages, Labels, Lwip
<1>8. CASE leaveLoop
  BY <1>8, Zenon DEF leaveLoop, to, HeldByStage, Extra, Places, Stages, Labels, Lwip
<1>9. CASE freeClients
  BY <1>9, <1>1, Zenon DEF freeClients, client_murder, runVars, to, HeldByStage, Extra, Places, Stages, Labels, Lwip
<1>10. CASE freeLwip
  BY <1>10, Zenon DEF freeLwip, to, HeldByStage, Extra, Places, Stages, Labels, Lwip
<1>11. CASE freeUdp
  BY <1>11, Zenon DEF freeUdp, to, HeldByStage, Extra, Places, Stages, Labels, Lwip
<1>12. CASE freeLwipJob
  BY <1>12, Zenon DEF freeLwipJob, to, HeldByStage, Extra, Places, Stages, Labels, Lwip
<1>13. CASE freeDevice
  BY <1>13, Zenon DEF freeDevice, to, HeldByStage, Extra, Places, Stages, Labels, Lwip
<1>14. CASE freeRest
  BY <1>14 DEF freeRest, to, HeldByStage, Extra, Places, Stages, Labels, Lwip
<1>15. CASE handler
  BY <1>15, LoopFrame, Zenon DEF HeldByStage, Extra, Places, Stages, Labels, Lwip
<1>16. CASE environment \/ terminateTun2Socks
  BY <1>16, <1>1, Zenon DEF environment, terminateTun2Socks, runVars
<1>17. CASE UNCHANGED vars
  BY <1>17, <1>1, Zenon DEF vars, runVars
<1> QED BY <1>2, <1>3, <1>4, <1>5, <1>6, <1>7, <1>8, <1>9, <1>10, <1>11, <1>12, <1>13, <1>14,
           <1>15, <1>16, <1>17, Zenon, Zenon DEF Next, setUp, tearDown

LEMMA HeldImplies == HeldByStage => FreesWhatIsHeld
<1> USE UptoFacts, FreesFacts
<1>1. ASSUME HeldByStage, pc \in Labels PROVE Frees[pc] \subseteq held
  BY <1>1 DEF HeldByStage, Labels
<1>2. ASSUME HeldByStage, pc = "idle", failed # "udp" PROVE held = {}
  BY <1>2, Zenon DEF HeldByStage, Extra
<1> QED BY <1>1, <1>2, Zenon DEF FreesWhatIsHeld

-----------------------------------------------------------------------------
(* What the code of the connections does to the lists of the loop.          *)

SamePackets(q, r) == \A j \in PacketJobs : BPending_IsSet(r, j) <=> BPending_IsSet(q, j)

ConnsOK(p, L) ==
    /\ p \in [Conns -> PcbStates] /\ L \subseteq Conns
    /\ \A c \in Conns : p[c] = "syn_rcvd" => c \notin L

(* A handler is at a point where q is the job list and res the results.     *)
At(q, res) ==
    /\ ConnsOK(pcbs, live) /\ Calm(q, syncs, live) /\ Served(res, active, live)

(* It has come from there to the end of a step.                             *)
EndOf(q) ==
    /\ ConnsOK(pcbs', live') /\ Served(results', active', live')
    /\ "tun" \in armed' <=> "tun" \in armed
    /\ Calm(jobs', syncs', live') \/ Nested(jobs', syncs', live')
    /\ SamePackets(q, jobs')

LEMMA SocksOnlyPackets ==
    ASSUME NEW q, NEW r, SocksOnly(q, r) PROVE SamePackets(q, r)
BY JobNames, Zenon DEF SocksOnly, SamePackets

LEMMA MarkPackets ==
    ASSUME NEW q, JobList(q), NEW m \in Marks PROVE SamePackets(q, BPending_Set(q, m))
<1>1. m \in Elements
  BY JobTypes, Zenon
<1>2. \A j \in PacketJobs : j # m
  BY JobNames, Zenon
<1>3. \A k : BPending_IsSet(BPending_Set(q, m), k) <=> BPending_IsSet(q, k) \/ k = m
  BY <1>1, SetFacts, Zenon
<1> QED BY <1>2, <1>3, Zenon DEF SamePackets

LEMMA SameList ==
    ASSUME NEW S, NEW s \in Seq(S), NEW t \in Seq(S), Len(s) = Len(t),
           \A i \in 1..Len(s) : s[i] = t[i]
    PROVE  s = t
OBVIOUS

LEMMA TwoCalls ==
    ASSUME NEW w \in {"input", "timer", "output"}
    PROVE  /\ Append(<<w>>, "output") = <<w, "output">>
           /\ SubSeq(<<w, "output">>, 1, Len(<<w, "output">>) - 1) = <<w>>
           /\ SubSeq(<<w>>, 1, Len(<<w>>) - 1) = <<>>
<1> DEFINE Calls == {"input", "timer", "output"}
           one == <<w>>
           two == <<w, "output">>
           both == Append(one, "output")
           first == SubSeq(two, 1, Len(two) - 1)
<1>1. one \in Seq(Calls) /\ two \in Seq(Calls) /\ both \in Seq(Calls) /\ first \in Seq(Calls)
  OBVIOUS
<1>2. Len(both) = 2 /\ both[1] = w /\ both[2] = "output"
  BY <1>1
<1>3. Len(two) = 2 /\ two[1] = w /\ two[2] = "output"
  BY <1>1, Zenon
<1>4. Len(first) = 1 /\ first[1] = w
  BY <1>1, <1>3
<1>5. Len(one) = 1 /\ one[1] = w
  BY <1>1, Zenon
<1>6. SubSeq(one, 1, Len(one) - 1) = <<>>
  BY <1>1, <1>5
<1> HIDE DEF one, two, both, first
<1>7. (\A i \in 1..2 : both[i] = two[i]) /\ (\A i \in 1..1 : first[i] = one[i])
  BY <1>2, <1>3, <1>4, <1>5
<1>8. both = two /\ first = one
  BY <1>1, <1>2, <1>3, <1>4, <1>5, <1>7, SameList
<1> QED BY <1>6, <1>8, Zenon DEF one, two, both, first

LEMMA SyncFirst ==
    ASSUME NEW q, syncs = <<>>, Calm(q, syncs, live), NEW what \in {"input", "timer", "output"}
    PROVE  /\ Calm(SYNC_FROMHERE(q), Append(syncs, what), live)
           /\ SamePackets(q, SYNC_FROMHERE(q))
<1>1. Len(syncs) + 1 = 1 /\ Append(syncs, what) = <<what>>
  OBVIOUS
<1>2. SYNC_FROMHERE(q) = BPending_Set(q, Mark(1))
  BY <1>1, Zenon DEF SYNC_FROMHERE
<1>3. Calm(BPending_Set(q, Mark(1)), <<what>>, live)
  BY CalmMark, Zenon
<1>4. JobList(q) /\ Mark(1) \in Marks
  BY JobTypes, Zenon DEF Calm
<1> QED BY <1>1, <1>2, <1>3, <1>4, MarkPackets, Zenon

LEMMA SyncOutput ==
    ASSUME NEW q, Calm(q, syncs, live)
    PROVE  /\ \/ Calm(SYNC_FROMHERE(q), Append(syncs, "output"), live)
              \/ Nested(SYNC_FROMHERE(q), Append(syncs, "output"), live)
           /\ SamePackets(q, SYNC_FROMHERE(q))
<1>1. CASE syncs = <<>>
  BY <1>1, SyncFirst, Zenon
<1>2. CASE syncs # <<>>
  <2>1. PICK w \in {"input", "timer", "output"} : syncs = <<w>>
    BY <1>2, Zenon DEF Calm
  <2>2. Len(syncs) + 1 = 2 /\ Append(syncs, "output") = <<w, "output">>
    BY <2>1, TwoCalls
  <2>3. SYNC_FROMHERE(q) = BPending_Set(q, Mark(2))
    BY <2>2, Zenon DEF SYNC_FROMHERE
  <2>4. Nested(BPending_Set(q, Mark(2)), <<w, "output">>, live)
    BY <2>1, NestedMark, Zenon
  <2>5. JobList(q) /\ Mark(2) \in Marks
    BY JobTypes, Zenon DEF Calm
  <2> QED BY <2>2, <2>3, <2>4, <2>5, MarkPackets, Zenon
<1> QED BY <1>1, <1>2, Zenon

LEMMA TailServed ==
    ASSUME NEW res, NEW act, NEW L, Served(res, act, L), res # <<>>
    PROVE  Served(Tail(res), act, L)
<1>1. res \in Seq(Fds \union {NoFd})
  BY Zenon DEF Served
<1>2. Tail(res) \in Seq(Fds \union {NoFd})
  BY <1>1
<1>3. \A i \in DOMAIN Tail(res) : i + 1 \in DOMAIN res /\ Tail(res)[i] = res[i + 1]
  BY <1>1
<1>4. \A i \in DOMAIN Tail(res) : Tail(res)[i] \in act \union {NoFd}
  BY <1>3, Zenon DEF Served
<1> QED BY <1>2, <1>4, Zenon DEF Served

(* No result names a descriptor once it is removed.                         *)
LEMMA RemoveServed ==
    ASSUME NEW res, NEW L, Served(res, active, L), NEW fd, fd # "tun", NEW M,
           active \ {fd} \subseteq {"tun", "udp"} \union M,
           BReactor_RemoveFileDescriptor(fd, res)
    PROVE  /\ Served(results', active', M)
           /\ "tun" \in armed' <=> "tun" \in armed
<1>1. /\ active' = active \ {fd} /\ armed' = armed \ {fd}
      /\ results' = [i \in DOMAIN res |-> IF res[i] = fd THEN NoFd ELSE res[i]]
  BY Zenon DEF BReactor_RemoveFileDescriptor
<1>2. res \in Seq(Fds \union {NoFd}) /\ \A i \in DOMAIN res : res[i] \in active \union {NoFd}
  BY Zenon DEF Served
<1>3. results' \in Seq(Fds \union {NoFd}) /\ DOMAIN results' = DOMAIN res
  BY <1>1, <1>2
<1>4. \A i \in DOMAIN res : results'[i] = IF res[i] = fd THEN NoFd ELSE res[i]
  BY <1>1, Zenon
<1>5. \A i \in DOMAIN results' : results'[i] \in active' \union {NoFd}
  BY <1>1, <1>2, <1>3, <1>4, Zenon
<1>6. active' \subseteq {"tun", "udp"} \union M
  BY <1>1, Zenon
<1> QED BY <1>1, <1>3, <1>5, <1>6, Zenon DEF Served

LEMMA ConnName == \A c \in Conns : c # "tun" /\ c # "udp" /\ c # NoFd
BY ConnsAreConns, Zenon

(* Freeing a BSocksClient.                                                  *)
LEMMA DropsSocks ==
    ASSUME NEW c \in Conns, NEW q, NEW res, At(q, res), dropsSocks(c, q, res)
    PROVE  /\ live' = live \ {c} /\ Served(results', active', live')
           /\ "tun" \in armed' <=> "tun" \in armed
           /\ Calm(jobs', syncs, live') /\ SamePackets(q, jobs')
<1>1. live' = live \ {c} /\ jobs' = freesJobs(q, c) /\ BReactor_RemoveFileDescriptor(c, res)
  BY Zenon DEF dropsSocks
<1>2. Calm(q, syncs, live) /\ Served(res, active, live) /\ JobList(q) /\ OwnedBy(q, live)
  BY Zenon DEF At, Calm
<1>3. active \ {c} \subseteq {"tun", "udp"} \union (live \ {c})
  BY <1>2, Zenon DEF Served
<1>4. Served(results', active', live \ {c}) /\ ("tun" \in armed' <=> "tun" \in armed)
  BY <1>1, <1>2, <1>3, RemoveServed, ConnName, Zenon
<1>5. SocksOnly(q, freesJobs(q, c)) /\ OwnedBy(freesJobs(q, c), live \ {c})
  BY <1>2, FreesJobs, Zenon
<1>6. Calm(freesJobs(q, c), syncs, live \ {c}) /\ SamePackets(q, freesJobs(q, c))
  BY <1>2, <1>5, CalmKept, SocksOnlyPackets, Zenon
<1> QED BY <1>1, <1>4, <1>6, Zenon

LEMMA ConnsChange ==
    ASSUME ConnsOK(pcbs, live), NEW c \in Conns, NEW p \in PcbStates, pcbs' = [pcbs EXCEPT ![c] = p],
           live' \subseteq live \union {c}, p = "syn_rcvd" => c \notin live'
    PROVE  ConnsOK(pcbs', live')
BY Zenon DEF ConnsOK

LEMMA ClientFreeSocks ==
    ASSUME NEW c \in Conns, NEW q, NEW res, At(q, res), client_free_socks(c, q, res), UNCHANGED syncs
    PROVE  EndOf(q)
<1>1. dropsSocks(c, q, res)
  BY Zenon DEF client_free_socks
<1>2. /\ live' = live \ {c} /\ Served(results', active', live')
      /\ "tun" \in armed' <=> "tun" \in armed
      /\ Calm(jobs', syncs, live') /\ SamePackets(q, jobs')
  BY <1>1, DropsSocks, Zenon
<1>3. ConnsOK(pcbs, live)
  BY Zenon DEF At
<1>4. ConnsOK(pcbs', live')
  <2>1. CASE UNCHANGED pcbs
    BY <2>1, <1>2, <1>3, Zenon DEF ConnsOK
  <2>2. CASE \E p \in {"none", "active"} : pcbs' = [pcbs EXCEPT ![c] = p]
    BY <2>2, <1>2, <1>3, ConnsChange, Zenon DEF PcbStates
  <2> QED BY <2>1, <2>2, Zenon DEF client_free_socks
<1> QED BY <1>2, <1>4, Zenon DEF EndOf

LEMMA KeepsSocks ==
    ASSUME NEW q, At(q, results), keepsSocks(q), UNCHANGED syncs
    PROVE  /\ live' = live /\ Served(results', active', live') /\ armed' = armed
           /\ Calm(jobs', syncs', live') /\ SamePackets(q, jobs')
<1>1. jobs' = q /\ UNCHANGED <<live, blocked, used, active, armed, results>>
  BY Zenon DEF keepsSocks
<1>2. Calm(q, syncs, live) /\ Served(results, active, live)
  BY Zenon DEF At
<1>3. Served(results', active', live') /\ Calm(jobs', syncs', live')
  BY <1>1, <1>2, Zenon
<1> QED BY <1>1, <1>3, Zenon DEF SamePackets

LEMMA ClientFreeClient ==
    ASSUME NEW c \in Conns, NEW p \in {"none", "active"}, NEW q, At(q, results),
           client_free_client(c, p, q), UNCHANGED syncs
    PROVE  EndOf(q)
<1>1. ConnsOK(pcbs, live) /\ pcbs' = [pcbs EXCEPT ![c] = p] /\ p \in PcbStates /\ p # "syn_rcvd"
  BY Zenon DEF At, client_free_client, PcbStates
<1>2. CASE keepsSocks(q)
  <2>1. /\ live' = live /\ Served(results', active', live') /\ armed' = armed
        /\ Calm(jobs', syncs', live') /\ SamePackets(q, jobs')
    BY <1>2, KeepsSocks, Zenon
  <2>2. ConnsOK(pcbs', live')
    BY <1>1, <2>1, ConnsChange, Zenon
  <2> QED BY <2>1, <2>2, Zenon DEF EndOf
<1>3. CASE dropsSocks(c, q, results)
  <2>1. /\ live' = live \ {c} /\ Served(results', active', live')
        /\ "tun" \in armed' <=> "tun" \in armed
        /\ Calm(jobs', syncs, live') /\ SamePackets(q, jobs')
    BY <1>3, DropsSocks, Zenon
  <2>2. ConnsOK(pcbs', live')
    BY <1>1, <2>1, ConnsChange, Zenon
  <2> QED BY <2>1, <2>2, Zenon DEF EndOf
<1> QED BY <1>2, <1>3, Zenon DEF client_free_client

LEMMA ConnectionIo ==
    ASSUME NEW c \in Conns, c \in live, NEW d \in Directions, NEW q, NEW res, NEW fds, NEW ops,
           At(q, res), "tun" \in fds <=> "tun" \in armed,
           connection_io(c, d, q, res, fds, ops), UNCHANGED syncs
    PROVE  EndOf(q)
<1>1. ConnsOK(pcbs, live) /\ Calm(q, syncs, live) /\ Served(res, active, live)
      /\ JobList(q) /\ OwnedBy(q, live)
  BY Zenon DEF At, Calm
<1>2. CASE /\ armed' = fds \union {c} /\ jobs' = q /\ results' = res
           /\ UNCHANGED <<pcbs, live, active>>
  <2>1. ConnsOK(pcbs', live') /\ Served(results', active', live') /\ Calm(jobs', syncs', live')
    BY <1>1, <1>2, Zenon
  <2>2. "tun" \in armed' <=> "tun" \in armed
    BY <1>2, ConnName, Zenon
  <2>3. SamePackets(q, jobs')
    BY <1>2, Zenon DEF SamePackets
  <2> QED BY <2>1, <2>2, <2>3, Zenon DEF EndOf
<1>3. CASE /\ armed' = fds /\ jobs' = BPending_Set(q, Socks(c, d, "done")) /\ results' = res
           /\ UNCHANGED <<pcbs, live, active>>
  <2>1. Socks(c, d, "done") \in SocksJobs(c)
    BY JobTypes, Zenon
  <2>2. SocksOnly(q, jobs') /\ OwnedBy(jobs', live)
    BY <1>1, <1>3, <2>1, SetSocks, Zenon
  <2>3. Calm(jobs', syncs, live) /\ SamePackets(q, jobs')
    BY <1>1, <2>2, CalmKept, SocksOnlyPackets, Zenon
  <2>4. ConnsOK(pcbs', live') /\ Served(results', active', live') /\ Calm(jobs', syncs', live')
    BY <1>1, <1>3, <2>3, Zenon
  <2> QED BY <1>3, <2>3, <2>4, Zenon DEF EndOf
<1>4. CASE client_free_socks(c, q, res)
  BY <1>4, ClientFreeSocks, Zenon
<1> QED BY <1>2, <1>3, <1>4, Zenon DEF connection_io

LEMMA Outputs ==
    ASSUME NEW q, At(q, results), NEW what \in {"input", "timer"}, syncs = <<>>, lwipOutput(what, q)
    PROVE  EndOf(q)
<1>1. ConnsOK(pcbs, live) /\ Calm(q, syncs, live) /\ Served(results, active, live)
  BY Zenon DEF At
<1>2. /\ jobs' = SYNC_FROMHERE(q) /\ syncs' = Append(syncs, what)
      /\ UNCHANGED <<pcbs, live, blocked, used, active, armed, results>>
  BY Zenon DEF lwipOutput, SYNC_COMMIT, unchangedConns
<1>3. Calm(SYNC_FROMHERE(q), Append(syncs, what), live) /\ SamePackets(q, SYNC_FROMHERE(q))
  BY <1>1, SyncFirst, Zenon
<1>4. ConnsOK(pcbs', live') /\ Served(results', active', live') /\ Calm(jobs', syncs', live')
      /\ SamePackets(q, jobs')
  BY <1>1, <1>2, <1>3, Zenon
<1> QED BY <1>2, <1>4, Zenon DEF EndOf

(* A callback of lwIP sets one job of the connection and synchronizes.      *)
LEMMA Callback ==
    ASSUME NEW c \in Conns, c \in live, NEW j \in SocksJobs(c), NEW q, At(q, results),
           NEW what \in {"input", "timer"}, syncs = <<>>,
           SYNC_COMMIT(what, BPending_Set(SYNC_FROMHERE(q), j)), unchangedConns
    PROVE  EndOf(q)
<1>1. ConnsOK(pcbs, live) /\ Calm(q, syncs, live) /\ Served(results, active, live)
  BY Zenon DEF At
<1>2. /\ jobs' = BPending_Set(SYNC_FROMHERE(q), j) /\ syncs' = Append(syncs, what)
      /\ UNCHANGED <<pcbs, live, blocked, used, active, armed, results>>
  BY Zenon DEF SYNC_COMMIT, unchangedConns
<1>3. Calm(SYNC_FROMHERE(q), Append(syncs, what), live) /\ SamePackets(q, SYNC_FROMHERE(q))
  BY <1>1, SyncFirst, Zenon
<1>4. JobList(SYNC_FROMHERE(q)) /\ OwnedBy(SYNC_FROMHERE(q), live)
  BY <1>3, Zenon DEF Calm
<1>5. SocksOnly(SYNC_FROMHERE(q), jobs') /\ OwnedBy(jobs', live)
  BY <1>2, <1>4, SetSocks, Zenon
<1>6. Calm(jobs', Append(syncs, what), live) /\ SamePackets(SYNC_FROMHERE(q), jobs')
  BY <1>3, <1>5, CalmKept, SocksOnlyPackets, Zenon
<1>7. SamePackets(q, jobs')
  BY <1>3, <1>6, Zenon DEF SamePackets
<1>8. ConnsOK(pcbs', live') /\ Served(results', active', live') /\ Calm(jobs', syncs', live')
  BY <1>1, <1>2, <1>6, Zenon
<1> QED BY <1>2, <1>7, <1>8, Zenon DEF EndOf

LEMMA ServedMore ==
    ASSUME NEW res, NEW act, NEW L, Served(res, act, L), NEW c
    PROVE  Served(res, act \union {c}, L \union {c})
<1>1. res \in Seq(Fds \union {NoFd}) /\ act \union {c} \subseteq {"tun", "udp"} \union (L \union {c})
  BY Zenon DEF Served
<1>2. \A i \in DOMAIN res : res[i] \in (act \union {c}) \union {NoFd}
  BY Zenon DEF Served
<1> QED BY <1>1, <1>2, Zenon DEF Served

LEMMA CalmMore ==
    ASSUME NEW q, NEW calls, NEW L, Calm(q, calls, L), NEW c
    PROVE  Calm(q, calls, L \union {c})
<1>1. OwnedBy(q, L \union {c})
  BY Zenon DEF Calm, OwnedBy
<1> QED BY <1>1, Zenon DEF Calm

LEMMA Accepts ==
    ASSUME NEW c \in Conns, NEW q, At(q, results), syncs = <<>>, listener_accept_func(c, "input", q)
    PROVE  EndOf(q)
<1>1. ConnsOK(pcbs, live) /\ Calm(q, syncs, live) /\ Served(results, active, live)
  BY Zenon DEF At
<1> DEFINE L == live \union {c}
           r == SYNC_FROMHERE(q)
           s == Append(syncs, "input")
<1>2. Calm(r, s, live) /\ SamePackets(q, r)
  BY <1>1, SyncFirst, Zenon
<1>3. Calm(r, s, L) /\ Served(results, active \union {c}, L)
  BY <1>1, <1>2, CalmMore, ServedMore, Zenon
<1>4. JobList(r) /\ OwnedBy(r, L) /\ c \in L
  BY <1>3, Zenon DEF Calm
<1> HIDE DEF r, s
<1>5. Socks(c, "send", "done") \in SocksJobs(c)
  BY JobTypes, Zenon DEF Directions
<1>6. SocksOnly(r, BPending_Set(r, Socks(c, "send", "done")))
      /\ OwnedBy(BPending_Set(r, Socks(c, "send", "done")), L)
  BY <1>4, <1>5, SetSocks, Zenon
<1>7. Calm(BPending_Set(r, Socks(c, "send", "done")), s, L)
      /\ SamePackets(r, BPending_Set(r, Socks(c, "send", "done")))
  BY <1>3, <1>6, CalmKept, SocksOnlyPackets, Zenon
<1>8. CASE /\ pcbs' = [pcbs EXCEPT ![c] = "client"] /\ live' = L /\ active' = active \union {c}
           /\ \/ armed' = armed \union {c} /\ SYNC_COMMIT("input", r)
              \/ armed' = armed /\ SYNC_COMMIT("input", BPending_Set(r, Socks(c, "send", "done")))
           /\ results' = results
  <2>1. ConnsOK(pcbs', live')
    BY <1>1, <1>8, ConnsChange, Zenon DEF PcbStates
  <2>2. Served(results', active', live')
    BY <1>3, <1>8, Zenon
  <2>3. "tun" \in armed' <=> "tun" \in armed
    BY <1>8, ConnName, Zenon
  <2>4. syncs' = s /\ (jobs' = r \/ jobs' = BPending_Set(r, Socks(c, "send", "done")))
    BY <1>8, Zenon DEF SYNC_COMMIT, s
  <2>5. Calm(jobs', syncs', live')
    BY <1>3, <1>7, <1>8, <2>4, Zenon
  <2>6. SamePackets(q, jobs')
    BY <1>2, <1>7, <2>4, Zenon DEF SamePackets
  <2> QED BY <2>1, <2>2, <2>3, <2>5, <2>6, Zenon DEF EndOf
<1>9. CASE pcbs' = [pcbs EXCEPT ![c] = "none"] /\ keepsSocks(q) /\ UNCHANGED syncs
  <2>1. /\ live' = live /\ Served(results', active', live') /\ armed' = armed
        /\ Calm(jobs', syncs', live') /\ SamePackets(q, jobs')
    BY <1>9, KeepsSocks, Zenon
  <2>2. ConnsOK(pcbs', live')
    BY <1>1, <1>9, <2>1, ConnsChange, Zenon DEF PcbStates
  <2> QED BY <2>1, <2>2, Zenon DEF EndOf
<1> QED BY <1>8, <1>9, Zenon DEF listener_accept_func, r

LEMMA ChangesPcb ==
    ASSUME NEW c \in Conns, NEW from, NEW p \in PcbStates, NEW q, At(q, results),
           changesPcb(c, from, p, q), p = "syn_rcvd" => c \notin live
    PROVE  EndOf(q)
<1>1. ConnsOK(pcbs, live) /\ pcbs' = [pcbs EXCEPT ![c] = p] /\ keepsSocks(q) /\ UNCHANGED syncs
  BY Zenon DEF At, changesPcb
<1>2. /\ live' = live /\ Served(results', active', live') /\ armed' = armed
      /\ Calm(jobs', syncs', live') /\ SamePackets(q, jobs')
  BY <1>1, KeepsSocks, Zenon
<1>3. ConnsOK(pcbs', live')
  BY <1>1, <1>2, ConnsChange, Zenon
<1> QED BY <1>2, <1>3, Zenon DEF EndOf

LEMMA NothingHappens ==
    ASSUME NEW q, At(q, results), keepsSocks(q), UNCHANGED <<pcbs, syncs>>
    PROVE  EndOf(q)
<1>1. /\ live' = live /\ Served(results', active', live') /\ armed' = armed
      /\ Calm(jobs', syncs', live') /\ SamePackets(q, jobs')
  BY KeepsSocks, Zenon
<1>2. ConnsOK(pcbs', live')
  BY <1>1, Zenon DEF At
<1> QED BY <1>1, <1>2, Zenon DEF EndOf

LEMMA ClientRecv ==
    ASSUME NEW c \in Conns, NEW q, At(q, results), syncs = <<>>, NEW what \in {"input", "timer"},
           client_recv_func(c, what, q) \/ client_sent_func(c, what, q)
    PROVE  EndOf(q)
<1>1. \A d \in Directions : Socks(c, d, "operation") \in SocksJobs(c)
  BY JobTypes, Zenon
<1>2. CASE client_recv_func(c, what, q)
  BY <1>1, <1>2, Callback, Zenon DEF client_recv_func, Directions
<1>3. CASE client_sent_func(c, what, q)
  BY <1>1, <1>3, Callback, Zenon DEF client_sent_func, Directions
<1> QED BY <1>2, <1>3, Zenon

(* A segment, or lwIP's timers.                                             *)
LEMMA LwipCall ==
    ASSUME NEW q, At(q, results), syncs = <<>>,
           (\E c \in Conns : tcp_input(c, q)) \/ tcp_tmr(q)
    PROVE  EndOf(q)
<1> USE DEF PcbStates
<1>1. ASSUME NEW c \in Conns, tcp_input(c, q) PROVE EndOf(q)
  <2>1. CASE c \notin live /\ changesPcb(c, {"none"}, "syn_rcvd", q)
    BY <2>1, ChangesPcb, Zenon
  <2>2. CASE listener_accept_func(c, "input", q)
    BY <2>2, Accepts, Zenon
  <2>3. CASE client_recv_func(c, "input", q) \/ client_sent_func(c, "input", q)
    BY <2>3, ClientRecv, Zenon
  <2>4. CASE \E p \in {"none", "active"} : client_free_client(c, p, q) /\ UNCHANGED syncs
    BY <2>4, ClientFreeClient, Zenon
  <2>5. CASE changesPcb(c, {"active"}, "time_wait", q)
    BY <2>5, ChangesPcb, Zenon
  <2>6. CASE changesPcb(c, {"syn_rcvd", "active"}, "none", q)
    BY <2>6, ChangesPcb, Zenon
  <2> QED BY <1>1, <2>1, <2>2, <2>3, <2>4, <2>5, <2>6, Zenon DEF tcp_input
<1>2. ASSUME tcp_tmr(q) PROVE EndOf(q)
  <2>1. CASE lwipOutput("timer", q)
    BY <2>1, Outputs, Zenon
  <2>2. CASE keepsSocks(q) /\ UNCHANGED <<pcbs, syncs>>
    BY <2>2, NothingHappens, Zenon
  <2>3. ASSUME NEW c \in Conns, client_recv_func(c, "timer", q) PROVE EndOf(q)
    BY <2>3, ClientRecv, Zenon
  <2>4. ASSUME NEW c \in Conns, client_free_client(c, "none", q) /\ UNCHANGED syncs PROVE EndOf(q)
    BY <2>4, ClientFreeClient, Zenon
  <2>5. ASSUME NEW c \in Conns, changesPcb(c, {"syn_rcvd", "active", "time_wait"}, "none", q)
        PROVE  EndOf(q)
    BY <2>5, ChangesPcb, Zenon
  <2> QED BY <1>2, <2>1, <2>2, <2>3, <2>4, <2>5, Zenon DEF tcp_tmr
<1> QED BY <1>1, <1>2, Zenon

-----------------------------------------------------------------------------
(* The handlers of the loop.                                                *)

LoopOK ==
    /\ ConnsOK(pcbs, live) /\ Served(results, active, live)
    /\ output_packet <=> "tun" \in armed
    /\ LoopJobs

LEMMA Finish ==
    ASSUME LoopOK, NEW q, EndOf(q), OneOwner(q), ~exiting, Lwip \subseteq held,
           UNCHANGED <<exiting, held, output_packet>>
    PROVE  LoopOK'
<1>1. OneOwner(jobs)'
  BY Zenon DEF OneOwner, EndOf, SamePackets
<1>2. LoopJobs'
  BY <1>1, Zenon DEF LoopJobs, EndOf
<1>3. output_packet' <=> "tun" \in armed'
  BY Zenon DEF LoopOK, EndOf
<1> QED BY <1>2, <1>3, Zenon DEF LoopOK, EndOf

(* A job of a SOCKS connection runs: the connection exists.                 *)
LEMMA ExecutesSocks ==
    ASSUME LoopOK, NEW c \in Conns, NEW j \in SocksJobs(c), executesJob(j)
    PROVE  /\ c \in live /\ At(without(j), results) /\ OneOwner(without(j))
           /\ ~exiting /\ Lwip \subseteq held
<1>1. j \in AllSocks /\ j # LwipInit /\ j \notin PacketJobs
  BY JobTypes, JobNames, Zenon
<1>2. /\ Calm(jobs, syncs, live) /\ Calm(BPending_Free(jobs, j), syncs, live)
      /\ \A k : BPending_IsSet(BPending_Free(jobs, j), k) <=> BPending_IsSet(jobs, k) /\ k # j
      /\ BPending_IsSet(jobs, j)
      /\ ~exiting /\ Lwip \subseteq held /\ OneOwner(jobs)
  BY <1>1, Executes, Zenon DEF LoopOK
<1>3. c \in live
  BY <1>2, Zenon DEF Calm, OwnedBy
<1>4. OneOwner(BPending_Free(jobs, j))
  BY <1>1, <1>2, Zenon DEF OneOwner
<1>5. At(BPending_Free(jobs, j), results)
  BY <1>2, Zenon DEF At, LoopOK
<1> QED BY <1>2, <1>3, <1>4, <1>5, Zenon DEF without

LEMMA SocksOperationStep ==
    ASSUME LoopOK, NEW c \in Conns, NEW d \in Directions, socksOperation(c, d)
    PROVE  LoopOK'
<1> DEFINE j == Socks(c, d, "operation")
<1>1. executesJob(j) /\ j \in SocksJobs(c)
  BY JobTypes, Zenon DEF socksOperation
<1>2. /\ c \in live /\ At(without(j), results) /\ OneOwner(without(j))
      /\ ~exiting /\ Lwip \subseteq held
  BY <1>1, ExecutesSocks, Zenon
<1>3. connection_io(c, d, without(j), results, armed, blocked) /\ UNCHANGED syncs
      /\ UNCHANGED <<exiting, held, output_packet>>
  BY Zenon DEF socksOperation, inLoop, unchangedBySocks, deviceVars
<1>4. EndOf(without(j))
  BY <1>2, <1>3, ConnectionIo, Zenon
<1> QED BY <1>2, <1>3, <1>4, Finish, Zenon

LEMMA SocksDoneStep ==
    ASSUME LoopOK, NEW c \in Conns, NEW d \in Directions, socksDone(c, d)
    PROVE  LoopOK'
<1> DEFINE j == Socks(c, d, "done")
           q == without(j)
           ready == {e \in Directions : idle(c, e, q)}
           started(ops) == starts(starts(q, c, "send", ops), c, "recv", ops)
<1>1. executesJob(j) /\ j \in SocksJobs(c)
  BY JobTypes, Zenon DEF socksDone
<1>2. c \in live /\ At(q, results) /\ OneOwner(q) /\ ~exiting /\ Lwip \subseteq held
  BY <1>1, ExecutesSocks, Zenon
<1>3. UNCHANGED <<exiting, held, output_packet>>
  BY Zenon DEF socksDone, inLoop, unchangedBySocks, deviceVars
<1>4. \/ \E ops \in SUBSET ready :
            /\ UNCHANGED <<pcbs, live, blocked, used, active, armed, results>>
            /\ \/ jobs' = started(ops) /\ UNCHANGED syncs
               \/ SYNC_COMMIT("output", SYNC_FROMHERE(started(ops)))
      \/ client_free_socks(c, q, results) /\ UNCHANGED syncs
      \/ client_free_client(c, "none", q) /\ UNCHANGED syncs
  BY Zenon DEF socksDone
<1> HIDE DEF q, j, ready
<1>5. ConnsOK(pcbs, live) /\ Calm(q, syncs, live) /\ Served(results, active, live)
      /\ JobList(q) /\ OwnedBy(q, live)
  BY <1>2, Zenon DEF At, Calm
<1>6. ASSUME NEW ops \in SUBSET ready,
             UNCHANGED <<pcbs, live, blocked, used, active, armed, results>>,
             \/ jobs' = started(ops) /\ UNCHANGED syncs
             \/ SYNC_COMMIT("output", SYNC_FROMHERE(started(ops)))
      PROVE  EndOf(q)
  <2> DEFINE r == starts(q, c, "send", ops)
             s == started(ops)
  <2>1. SocksOnly(q, r) /\ OwnedBy(r, live) /\ JobList(r)
    BY <1>2, <1>5, Starts, Zenon DEF Directions, SocksOnly
  <2>2. SocksOnly(r, s) /\ OwnedBy(s, live)
    BY <1>2, <2>1, Starts, Zenon DEF Directions
  <2> HIDE DEF r, s
  <2>3. Calm(s, syncs, live) /\ SamePackets(q, s)
    BY <1>5, <2>1, <2>2, SocksOnlyTransitive, CalmKept, SocksOnlyPackets, Zenon
  <2>4. ConnsOK(pcbs', live') /\ Served(results', active', live') /\ armed' = armed
    BY <1>5, <1>6, Zenon
  <2>5. CASE jobs' = s /\ UNCHANGED syncs
    <3>1. Calm(jobs', syncs', live') /\ SamePackets(q, jobs')
      BY <1>6, <2>3, <2>5, Zenon
    <3> QED BY <2>4, <3>1, Zenon DEF EndOf
  <2>6. CASE SYNC_COMMIT("output", SYNC_FROMHERE(s))
    <3>1. /\ \/ Calm(SYNC_FROMHERE(s), Append(syncs, "output"), live)
             \/ Nested(SYNC_FROMHERE(s), Append(syncs, "output"), live)
          /\ SamePackets(s, SYNC_FROMHERE(s))
      BY <2>3, SyncOutput, Zenon
    <3>2. jobs' = SYNC_FROMHERE(s) /\ syncs' = Append(syncs, "output") /\ live' = live
      BY <1>6, <2>6, Zenon DEF SYNC_COMMIT
    <3>3. Calm(jobs', syncs', live') \/ Nested(jobs', syncs', live')
      BY <3>1, <3>2, Zenon
    <3>4. SamePackets(q, jobs')
      BY <2>3, <3>1, <3>2, Zenon DEF SamePackets
    <3> QED BY <2>4, <3>3, <3>4, Zenon DEF EndOf
  <2> QED BY <1>6, <2>5, <2>6, Zenon DEF s
<1>7. ASSUME client_free_socks(c, q, results), UNCHANGED syncs PROVE EndOf(q)
  BY <1>2, <1>7, ClientFreeSocks, Zenon
<1>8. ASSUME client_free_client(c, "none", q), UNCHANGED syncs PROVE EndOf(q)
  BY <1>2, <1>8, ClientFreeClient, Zenon
<1>9. EndOf(q)
  BY <1>4, <1>6, <1>7, <1>8, Zenon
<1> QED BY <1>2, <1>3, <1>9, Finish, Zenon

(* The reactor hands the next result to its handler.                        *)
LEMMA Dispatches ==
    ASSUME LoopOK, NEW fd, dispatches(fd)
    PROVE  /\ ~exiting /\ jobs = <<>> /\ syncs = <<>>
           /\ fd \in active \union {NoFd}
           /\ At(jobs, Tail(results)) /\ At(jobs, results)
           /\ Lwip \subseteq held /\ OneOwner(jobs)
<1>1. ~exiting /\ jobs = <<>> /\ syncs = <<>> /\ results # <<>> /\ Head(results) = fd
  BY Zenon DEF dispatches
<1>2. Calm(jobs, syncs, live) /\ Lwip \subseteq held /\ OneOwner(jobs)
  BY <1>1, NoJobs, Zenon DEF LoopOK
<1>3. ConnsOK(pcbs, live) /\ Served(results, active, live)
  BY Zenon DEF LoopOK
<1>4. Served(Tail(results), active, live)
  BY <1>1, <1>3, TailServed, Zenon
<1>5. 1 \in DOMAIN results /\ results[1] = fd
  BY <1>1, <1>3 DEF Served
<1>6. fd \in active \union {NoFd}
  BY <1>3, <1>5, Zenon DEF Served
<1> QED BY <1>1, <1>2, <1>3, <1>4, <1>6, Zenon DEF At

LEMMA DispatchesConn ==
    ASSUME LoopOK, NEW c \in Conns, dispatches(c)
    PROVE  c \in live
<1>1. c \in active
  BY Dispatches, ConnName, Zenon
<1> QED BY <1>1, ConnName, Zenon DEF LoopOK, Served

LEMMA ConnectionFdStep ==
    ASSUME LoopOK, NEW c \in Conns, connection_fd_handler(c)
    PROVE  LoopOK'
<1>1. dispatches(c) /\ UNCHANGED syncs /\ UNCHANGED <<exiting, held, output_packet>>
  BY Zenon DEF connection_fd_handler, inLoop, unchangedBySocks, deviceVars
<1>2. /\ ~exiting /\ At(jobs, Tail(results)) /\ Lwip \subseteq held /\ OneOwner(jobs) /\ c \in live
  BY <1>1, Dispatches, DispatchesConn, Zenon
<1>3. PICK D \in (SUBSET {d \in Directions : <<c, d>> \in blocked}) \ {{}} :
          LET ops == blocked \ ({c} \X D)
              fds == IF \E b \in ops : b[1] = c THEN armed ELSE armed \ {c}
          IN
          IF "send" \in D
          THEN connection_io(c, "send",
                             IF "recv" \in D THEN BPending_Set(jobs, Socks(c, "recv", "operation")) ELSE jobs,
                             Tail(results), fds, ops)
          ELSE connection_io(c, "recv", jobs, Tail(results), fds, ops)
  BY Zenon DEF connection_fd_handler
<1> DEFINE ops == blocked \ ({c} \X D)
           fds == IF \E b \in ops : b[1] = c THEN armed ELSE armed \ {c}
           r == BPending_Set(jobs, Socks(c, "recv", "operation"))
<1>4. \/ connection_io(c, "send", r, Tail(results), fds, ops)
      \/ connection_io(c, "send", jobs, Tail(results), fds, ops)
      \/ connection_io(c, "recv", jobs, Tail(results), fds, ops)
  BY <1>3, Zenon
<1>5. "tun" \in fds <=> "tun" \in armed
  BY ConnName, Zenon
<1> HIDE DEF ops, fds
<1>6. JobList(jobs) /\ OwnedBy(jobs, live) /\ Calm(jobs, syncs, live)
  BY <1>2, Zenon DEF At, Calm
<1>7. "send" \in Directions /\ "recv" \in Directions
  BY Zenon DEF Directions
<1>8. Socks(c, "recv", "operation") \in SocksJobs(c)
  BY <1>7, JobTypes, Zenon
<1>9. SocksOnly(jobs, r) /\ OwnedBy(r, live)
  BY <1>2, <1>6, <1>8, SetSocks, Zenon
<1>10. Calm(r, syncs, live) /\ SamePackets(jobs, r)
  BY <1>6, <1>9, CalmKept, SocksOnlyPackets, Zenon
<1> HIDE DEF r
<1>11. At(r, Tail(results)) /\ OneOwner(r)
  BY <1>2, <1>10, Zenon DEF At, OneOwner, SamePackets
<1>12. EndOf(r) \/ EndOf(jobs)
  BY <1>1, <1>2, <1>4, <1>5, <1>7, <1>11, ConnectionIo, Zenon
<1> QED BY <1>1, <1>2, <1>11, <1>12, Finish, Zenon

LEMMA HangsUpStep ==
    ASSUME LoopOK, NEW c \in Conns, hangsUp(c)
    PROVE  LoopOK'
<1>1. dispatches(c) /\ UNCHANGED syncs /\ UNCHANGED <<exiting, held, output_packet>>
  BY Zenon DEF hangsUp, inLoop, unchangedBySocks, deviceVars
<1>2. /\ ~exiting /\ At(jobs, Tail(results)) /\ Lwip \subseteq held /\ OneOwner(jobs) /\ c \in live
  BY <1>1, Dispatches, DispatchesConn, Zenon
<1> DEFINE D == {d \in Directions : <<c, d>> \in blocked}
           r == starts(jobs, c, "recv", D)
           s == starts(r, c, "send", D)
<1>3. CASE /\ BReactor_RemoveFileDescriptor(c, Tail(results))
           /\ jobs' = s /\ UNCHANGED <<pcbs, live>>
  <2>1. Calm(jobs, syncs, live) /\ Served(Tail(results), active, live) /\ ConnsOK(pcbs, live)
        /\ JobList(jobs) /\ OwnedBy(jobs, live)
    BY <1>2, Zenon DEF At, Calm
  <2> HIDE DEF D
  <2>2. SocksOnly(jobs, r) /\ OwnedBy(r, live)
    BY <1>2, <2>1, Starts, Zenon DEF Directions
  <2>3. SocksOnly(r, s) /\ OwnedBy(s, live)
    <3>1. JobList(r)
      BY <2>2, Zenon DEF SocksOnly
    <3> QED BY <1>2, <2>2, <3>1, Starts, Zenon DEF Directions
  <2> HIDE DEF r, s
  <2>4. Calm(s, syncs, live) /\ SamePackets(jobs, s)
    BY <2>1, <2>2, <2>3, SocksOnlyTransitive, CalmKept, SocksOnlyPackets, Zenon
  <2>5. active \ {c} \subseteq {"tun", "udp"} \union live
    BY <2>1, Zenon DEF Served
  <2>6. Served(results', active', live) /\ ("tun" \in armed' <=> "tun" \in armed)
    BY <1>3, <2>1, <2>5, RemoveServed, ConnName, Zenon
  <2>7. ConnsOK(pcbs', live') /\ Served(results', active', live') /\ Calm(jobs', syncs', live')
        /\ SamePackets(jobs, jobs')
    BY <1>1, <1>3, <2>1, <2>4, <2>6, Zenon
  <2>8. EndOf(jobs)
    BY <2>6, <2>7, Zenon DEF EndOf
  <2> QED BY <1>1, <1>2, <2>8, Finish, Zenon
<1>4. CASE client_free_socks(c, jobs, Tail(results))
  <2>1. EndOf(jobs)
    BY <1>1, <1>2, <1>4, ClientFreeSocks, Zenon
  <2> QED BY <1>1, <1>2, <2>1, Finish, Zenon
<1> QED BY <1>3, <1>4, Zenon DEF hangsUp

(* A job of the packet's way runs: nobody is inside BReactor_Synchronize,   *)
(* and no other of these jobs is pending.                                   *)
LEMMA ExecutesPacket ==
    ASSUME LoopOK, NEW j \in PacketJobs, executesJob(j)
    PROVE  /\ syncs = <<>> /\ At(without(j), results) /\ ~exiting /\ Lwip \subseteq held
           /\ ~output_packet /\ \A k \in PacketJobs : ~BPending_IsSet(without(j), k)
<1>1. j # LwipInit /\ j \notin AllSocks
  BY JobNames, Zenon
<1>2. /\ Calm(BPending_Free(jobs, j), syncs, live)
      /\ \A k : BPending_IsSet(BPending_Free(jobs, j), k) <=> BPending_IsSet(jobs, k) /\ k # j
      /\ BPending_IsSet(jobs, j) /\ syncs = <<>>
      /\ ~exiting /\ Lwip \subseteq held /\ OneOwner(jobs)
  BY <1>1, Executes, Zenon DEF LoopOK
<1>3. ~output_packet
  BY <1>2, Zenon DEF OneOwner
<1>4. \A k \in PacketJobs : BPending_IsSet(jobs, k) => k = j
  BY <1>2, <1>3, Zenon DEF OneOwner
<1>5. At(BPending_Free(jobs, j), results)
  BY <1>2, Zenon DEF At, LoopOK
<1> QED BY <1>2, <1>3, <1>4, <1>5, Zenon DEF without

(* The buffer passes to the next job.                                       *)
LEMMA PassesOn ==
    ASSUME NEW q, At(q, results), syncs = <<>>, ~output_packet, NEW j \in PacketJobs,
           \A k \in PacketJobs : ~BPending_IsSet(q, k)
    PROVE  At(BPending_Set(q, j), results) /\ OneOwner(BPending_Set(q, j))
<1>1. Calm(q, <<>>, live) /\ JobList(q)
  BY Zenon DEF At, Calm
<1>2. Calm(BPending_Set(q, j), <<>>, live)
  BY <1>1, CalmSet, Zenon
<1>3. At(BPending_Set(q, j), results)
  BY <1>2, Zenon DEF At
<1>4. j \in Elements
  BY JobTypes, Zenon
<1>5. \A k : BPending_IsSet(BPending_Set(q, j), k) <=> BPending_IsSet(q, k) \/ k = j
  BY <1>1, <1>4, SetFacts, Zenon
<1>6. OneOwner(BPending_Set(q, j))
  BY <1>5, Zenon DEF OneOwner
<1> QED BY <1>3, <1>6, Zenon

LEMMA DeviceReadStep ==
    ASSUME LoopOK, device_read_handler_send
    PROVE  LoopOK'
<1> DEFINE j == ReadInterface("operation")
           q == BPending_Set(without(j), ReadInterface("done"))
<1>1. executesJob(j) /\ UNCHANGED <<exiting, held, output_packet>>
  BY Zenon DEF device_read_handler_send, inLoop, stays, deviceVars
<1>2. j \in PacketJobs /\ ReadInterface("done") \in PacketJobs
  BY JobTypes, Zenon
<1>3. /\ syncs = <<>> /\ At(without(j), results) /\ ~exiting /\ Lwip \subseteq held
      /\ ~output_packet /\ \A k \in PacketJobs : ~BPending_IsSet(without(j), k)
  BY <1>1, <1>2, ExecutesPacket, Zenon
<1>4. At(q, results) /\ OneOwner(q)
  BY <1>2, <1>3, PassesOn, Zenon
<1>5. \/ keepsSocks(q) /\ UNCHANGED <<pcbs, syncs>>
      \/ lwipOutput("input", q) \/ \E c \in Conns : tcp_input(c, q)
  BY Zenon DEF device_read_handler_send
<1> HIDE DEF q
<1>6. EndOf(q)
  BY <1>3, <1>4, <1>5, NothingHappens, Outputs, LwipCall, Zenon
<1> QED BY <1>1, <1>3, <1>4, <1>6, Finish, Zenon

(* The reactor's loop is left at its next turn.                             *)
LEMMA Quits ==
    ASSUME ConnsOK(pcbs', live'), Served(results', active', live'),
           output_packet' <=> "tun" \in armed', exiting', syncs' = <<>>,
           Calm(jobs', syncs', live')
    PROVE  LoopOK'
<1>1. LoopJobs'
  BY Zenon DEF LoopJobs
<1> QED BY <1>1, Zenon DEF LoopOK

LEMMA TimerStep ==
    ASSUME LoopOK, tcp_timer_handler
    PROVE  LoopOK'
<1>1. ~exiting /\ jobs = <<>> /\ syncs = <<>> /\ UNCHANGED <<held, output_packet>>
  BY Zenon DEF tcp_timer_handler, inLoop, expiresTimer, deviceVars
<1>2. Calm(jobs, syncs, live) /\ Lwip \subseteq held /\ OneOwner(jobs)
  BY <1>1, NoJobs, Zenon DEF LoopOK
<1>3. At(jobs, results)
  BY <1>2, Zenon DEF At, LoopOK
<1>4. CASE terminate /\ keepsSocks(jobs) /\ UNCHANGED <<pcbs, syncs>>
  <2>1. UNCHANGED <<jobs, live, active, armed, results>> /\ exiting'
    BY <1>4, Zenon DEF keepsSocks, terminate
  <2>2. ConnsOK(pcbs', live') /\ Served(results', active', live')
        /\ Calm(jobs', syncs', live') /\ syncs' = <<>>
    BY <1>1, <1>2, <1>4, <2>1, Zenon DEF LoopOK
  <2>3. output_packet' <=> "tun" \in armed'
    <3>1. output_packet' = output_packet /\ armed' = armed
      BY <1>1, <2>1, Zenon
    <3> QED BY <3>1, Zenon DEF LoopOK
  <2> QED BY <2>1, <2>2, <2>3, Quits, Zenon
<1>5. CASE stays /\ tcp_tmr(jobs)
  <2>1. EndOf(jobs)
    BY <1>1, <1>3, <1>5, LwipCall, Zenon
  <2>2. UNCHANGED exiting
    BY <1>5, Zenon DEF stays
  <2> QED BY <1>1, <1>2, <2>1, <2>2, Finish, Zenon
<1> QED BY <1>4, <1>5, Zenon DEF tcp_timer_handler

(* A step that ends with lwIP there and nobody quitting.                    *)
LEMMA GoesOn ==
    ASSUME ConnsOK(pcbs', live'), Served(results', active', live'),
           output_packet' <=> "tun" \in armed', ~exiting', (Lwip \subseteq held)',
           Calm(jobs', syncs', live'), OneOwner(jobs)'
    PROVE  LoopOK'
<1>1. LoopJobs'
  BY Zenon DEF LoopJobs
<1> QED BY <1>1, Zenon DEF LoopOK

LEMMA OutputRecvStep ==
    ASSUME LoopOK, NEW outcome, output_handler_recv(outcome)
    PROVE  LoopOK'
<1> DEFINE j == Device("operation")
           q == without(j)
<1>1. executesJob(j) /\ UNCHANGED <<held, pcbs, live, syncs, active, results>>
  BY Zenon DEF output_handler_recv, inLoop, connVars
<1>2. j \in PacketJobs /\ Device("done") \in PacketJobs
  BY JobTypes, Zenon
<1>3. /\ syncs = <<>> /\ At(q, results) /\ ~exiting /\ Lwip \subseteq held
      /\ ~output_packet /\ \A k \in PacketJobs : ~BPending_IsSet(q, k)
  BY <1>1, <1>2, ExecutesPacket, Zenon
<1>4. \/ output_packet' = TRUE /\ armed' = armed \union {"tun"} /\ jobs' = q /\ stays
      \/ jobs' = BPending_Set(q, Device("done")) /\ stays /\ UNCHANGED <<output_packet, armed>>
      \/ jobs' = q /\ terminate /\ UNCHANGED <<output_packet, armed>>
  BY Zenon DEF output_handler_recv
<1>5. At(BPending_Set(q, Device("done")), results) /\ OneOwner(BPending_Set(q, Device("done")))
  BY <1>2, <1>3, PassesOn, Zenon
<1> HIDE DEF q, j
<1>6. ConnsOK(pcbs', live') /\ Served(results', active', live') /\ (Lwip \subseteq held)'
      /\ syncs' = <<>> /\ Calm(q, syncs', live')
  BY <1>1, <1>3, Zenon DEF At
<1>7. output_packet <=> "tun" \in armed
  BY Zenon DEF LoopOK
<1>8. CASE output_packet' = TRUE /\ armed' = armed \union {"tun"} /\ jobs' = q /\ stays
  <2>1. (output_packet' <=> "tun" \in armed') /\ ~exiting' /\ Calm(jobs', syncs', live')
    BY <1>3, <1>6, <1>8, Zenon DEF stays
  <2>2. OneOwner(jobs)'
    BY <1>3, <1>8, Zenon DEF OneOwner
  <2> QED BY <1>6, <2>1, <2>2, GoesOn, Zenon
<1>9. CASE jobs' = BPending_Set(q, Device("done")) /\ stays /\ UNCHANGED <<output_packet, armed>>
  <2>1. output_packet' <=> "tun" \in armed'
    BY <1>7, <1>9, Zenon
  <2>2. ~exiting' /\ Calm(jobs', syncs', live')
    BY <1>1, <1>3, <1>5, <1>9, Zenon DEF stays, At
  <2>3. OneOwner(jobs)'
    BY <1>5, <1>9, Zenon DEF OneOwner
  <2> QED BY <1>6, <2>1, <2>2, <2>3, GoesOn, Zenon
<1>10. CASE jobs' = q /\ terminate /\ UNCHANGED <<output_packet, armed>>
  <2>1. output_packet' <=> "tun" \in armed'
    BY <1>7, <1>10, Zenon
  <2>2. exiting' /\ Calm(jobs', syncs', live')
    BY <1>6, <1>10, Zenon DEF terminate
  <2> QED BY <1>6, <2>1, <2>2, Quits, Zenon
<1> QED BY <1>4, <1>8, <1>9, <1>10, Zenon

LEMMA FdHandlerStep ==
    ASSUME LoopOK, NEW outcome, fd_handler(outcome)
    PROVE  LoopOK'
<1>1. dispatches("tun") /\ results' = Tail(results) /\ UNCHANGED <<held, pcbs, live, syncs, active>>
  BY Zenon DEF fd_handler, inLoop, connVars
<1>2. /\ ~exiting /\ syncs = <<>> /\ jobs = <<>> /\ At(jobs, Tail(results)) /\ At(jobs, results)
      /\ Lwip \subseteq held /\ OneOwner(jobs)
  BY <1>1, Dispatches, Zenon
<1>3. ConnsOK(pcbs', live') /\ Served(results', active', live') /\ (Lwip \subseteq held)'
      /\ syncs' = <<>> /\ Calm(jobs, syncs', live')
  BY <1>1, <1>2, Zenon DEF At
<1>4. output_packet <=> "tun" \in armed
  BY Zenon DEF LoopOK
<1>5. \A k \in PacketJobs : ~BPending_IsSet(jobs, k)
  BY <1>2 DEF BPending_IsSet
<1>6. CASE stays /\ UNCHANGED <<output_packet, armed, jobs>>
  <2>1. output_packet' <=> "tun" \in armed'
    BY <1>4, <1>6, Zenon
  <2>2. ~exiting' /\ Calm(jobs', syncs', live')
    BY <1>2, <1>3, <1>6, Zenon DEF stays
  <2>3. OneOwner(jobs)'
    BY <1>2, <1>6, Zenon DEF OneOwner
  <2> QED BY <1>3, <2>1, <2>2, <2>3, GoesOn, Zenon
<1>7. CASE /\ output_packet' = FALSE /\ armed' = armed \ {"tun"}
           /\ jobs' = BPending_Set(jobs, Device("done")) /\ stays
  <2>1. (output_packet' <=> "tun" \in armed') /\ ~exiting'
    BY <1>2, <1>7, Zenon DEF stays
  <2>2. Device("done") \in PacketJobs /\ Device("done") \in Elements
    BY JobTypes, Zenon
  <2>3. Calm(jobs, <<>>, live) /\ JobList(jobs)
    BY <1>2, Zenon DEF At, Calm
  <2>4. Calm(BPending_Set(jobs, Device("done")), <<>>, live)
    BY <2>2, <2>3, CalmSet, Zenon
  <2>5. \A k : BPending_IsSet(BPending_Set(jobs, Device("done")), k)
                  <=> BPending_IsSet(jobs, k) \/ k = Device("done")
    BY <2>2, <2>3, SetFacts, Zenon
  <2>6. Calm(jobs', syncs', live')
    BY <1>1, <1>3, <1>7, <2>4, Zenon
  <2>7. OneOwner(jobs)'
    BY <1>5, <1>7, <2>2, <2>5, Zenon DEF OneOwner
  <2> QED BY <1>3, <2>1, <2>6, <2>7, GoesOn, Zenon
<1>8. CASE terminate /\ UNCHANGED <<output_packet, armed, jobs>>
  <2>1. output_packet' <=> "tun" \in armed'
    BY <1>4, <1>8, Zenon
  <2>2. exiting' /\ Calm(jobs', syncs', live')
    BY <1>3, <1>8, Zenon DEF terminate
  <2> QED BY <1>3, <2>1, <2>2, Quits, Zenon
<1> QED BY <1>6, <1>7, <1>8, Zenon DEF fd_handler

LEMMA PassesPacketStep ==
    ASSUME LoopOK, passesPacket
    PROVE  LoopOK'
<1>1. UNCHANGED <<held, exiting, output_packet, pcbs, live, syncs, active, armed, results>>
  BY Zenon DEF passesPacket, inLoop, stays, connVars, deviceVars
<1>2. PICK j \in PacketJobs, k \in PacketJobs : executesJob(j) /\ jobs' = BPending_Set(without(j), k)
  BY JobTypes, Zenon DEF passesPacket
<1>3. /\ syncs = <<>> /\ At(without(j), results) /\ ~exiting /\ Lwip \subseteq held
      /\ ~output_packet /\ \A i \in PacketJobs : ~BPending_IsSet(without(j), i)
  BY <1>2, ExecutesPacket, Zenon
<1>4. At(jobs', results) /\ OneOwner(jobs')
  BY <1>2, <1>3, PassesOn, Zenon
<1>5. ConnsOK(pcbs', live') /\ Served(results', active', live') /\ Calm(jobs', syncs', live')
      /\ ~exiting' /\ (Lwip \subseteq held)'
  BY <1>1, <1>3, <1>4, Zenon DEF At
<1>6. output_packet' <=> "tun" \in armed'
  BY <1>1, Zenon DEF LoopOK
<1>7. OneOwner(jobs)'
  BY <1>1, <1>4, Zenon DEF OneOwner
<1> QED BY <1>5, <1>6, <1>7, GoesOn, Zenon

LEMMA ResultTaken ==
    ASSUME LoopOK, NEW fd, dispatches(fd), results' = Tail(results),
           UNCHANGED <<held, exiting, output_packet, pcbs, live, jobs, syncs, active, armed>>
    PROVE  LoopOK'
<1>1. /\ ~exiting /\ At(jobs, Tail(results)) /\ Lwip \subseteq held /\ OneOwner(jobs)
  BY Dispatches, Zenon
<1>2. ConnsOK(pcbs', live') /\ Served(results', active', live') /\ Calm(jobs', syncs', live')
      /\ ~exiting' /\ (Lwip \subseteq held)'
  BY <1>1, Zenon DEF At
<1>3. output_packet' <=> "tun" \in armed'
  BY Zenon DEF LoopOK
<1>4. OneOwner(jobs)'
  BY <1>1, Zenon DEF OneOwner
<1> QED BY <1>2, <1>3, <1>4, GoesOn, Zenon

(* BReactor_Synchronize returns, and frees its mark.                        *)
LEMMA SynchronizedStep ==
    ASSUME LoopOK, synchronized, UNCHANGED <<held, output_packet, pcbs, live>>
    PROVE  LoopOK'
<1>1. /\ syncs # <<>> /\ ~exiting
      /\ jobs' = BPending_Free(jobs, Mark(Len(syncs))) /\ syncs' = SubSeq(syncs, 1, Len(syncs) - 1)
      /\ UNCHANGED <<active, armed, results, exiting>>
  BY Zenon DEF synchronized, LoopOK, LoopJobs
<1>2. /\ Calm(jobs, syncs, live) \/ Nested(jobs, syncs, live)
      /\ Lwip \subseteq held /\ OneOwner(jobs)
  BY <1>1, Zenon DEF LoopOK, LoopJobs, Fresh
<1>3. JobList(jobs) /\ OwnedBy(jobs, live) /\ ~BPending_IsSet(jobs, LwipInit) /\ Above(jobs)
  BY <1>1, <1>2, Zenon DEF Calm, Nested
<1>4. ASSUME NEW m \in Marks
      PROVE  /\ JobList(BPending_Free(jobs, m)) /\ OwnedBy(BPending_Free(jobs, m), live)
             /\ \A k : BPending_IsSet(BPending_Free(jobs, m), k) <=> BPending_IsSet(jobs, k) /\ k # m
             /\ m # Mark(1) => Above(BPending_Free(jobs, m))
             /\ SamePackets(jobs, BPending_Free(jobs, m))
  <2>1. /\ JobList(BPending_Free(jobs, m))
        /\ \A k : BPending_IsSet(BPending_Free(jobs, m), k) <=> BPending_IsSet(jobs, k) /\ k # m
        /\ m # Mark(1) => Above(BPending_Free(jobs, m))
    BY <1>3, FreeFacts, Zenon
  <2>2. OwnedBy(BPending_Free(jobs, m), live)
    BY <1>3, <2>1, Zenon DEF OwnedBy
  <2>3. \A k \in PacketJobs : k # m
    BY JobNames, Zenon
  <2> QED BY <2>1, <2>2, <2>3, Zenon DEF SamePackets
<1>5. Mark(1) \in Marks /\ Mark(2) \in Marks /\ Mark(1) # Mark(2)
  BY JobTypes, JobNames, Zenon
<1>6. Calm(jobs', syncs', live) /\ SamePackets(jobs, jobs')
  <2>1. CASE Nested(jobs, syncs, live)
    <3>1. PICK w \in {"input", "timer", "output"} : syncs = <<w, "output">>
      BY <2>1, Zenon DEF Nested
    <3>2. Len(syncs) = 2 /\ syncs' = <<w>> /\ <<w>> # <<>>
      BY <1>1, <3>1, TwoCalls, Zenon
    <3>3. jobs' = BPending_Free(jobs, Mark(2))
      BY <1>1, <3>2, Zenon
    <3> QED BY <1>3, <1>4, <1>5, <3>2, <3>3, Zenon DEF Calm
  <2>2. CASE Calm(jobs, syncs, live)
    <3>1. PICK w \in {"input", "timer", "output"} : syncs = <<w>>
      BY <1>1, <2>2, Zenon DEF Calm
    <3>2. Len(syncs) = 1 /\ syncs' = <<>>
      BY <1>1, <3>1, TwoCalls, Zenon
    <3>3. jobs' = BPending_Free(jobs, Mark(1))
      BY <1>1, <3>2, Zenon
    <3>4. ~BPending_IsSet(jobs, Mark(2))
      BY <2>2, Zenon DEF Calm
    <3> QED BY <1>3, <1>4, <1>5, <3>2, <3>3, <3>4, Zenon DEF Calm
  <2> QED BY <1>2, <2>1, <2>2, Zenon
<1>7. ConnsOK(pcbs', live') /\ Served(results', active', live') /\ Calm(jobs', syncs', live')
      /\ ~exiting' /\ (Lwip \subseteq held)'
  BY <1>1, <1>2, <1>6, Zenon DEF LoopOK
<1>8. output_packet' <=> "tun" \in armed'
  BY <1>1, Zenon DEF LoopOK
<1>9. OneOwner(jobs)'
  BY <1>2, <1>6, Zenon DEF OneOwner, SamePackets
<1> QED BY <1>7, <1>8, <1>9, GoesOn, Zenon

(* lwIP's start is the first job of the loop.                               *)
LEMMA LwipInitStep ==
    ASSUME LoopOK, lwip_init_job_handler
    PROVE  LoopOK'
<1>1. /\ ~exiting /\ jobs # <<>> /\ Head(jobs) = LwipInit
      /\ jobs' = BPending_Free(jobs, LwipInit)
      /\ (held' = held \union Lwip /\ UNCHANGED exiting) \/ exiting'
      /\ UNCHANGED <<output_packet, pcbs, live, syncs, active, armed, results>>
  BY Zenon DEF lwip_init_job_handler, executesJob, without, stays, terminate, deviceVars, connVars
<1>2. JobList(jobs)
  BY Zenon DEF LoopOK, LoopJobs, Fresh, Calm, Nested
<1>3. BPending_IsSet(jobs, LwipInit)
  BY <1>1, <1>2, HeadIsSet, Zenon
<1>4. Fresh(jobs, syncs, live) /\ OneOwner(jobs)
  BY <1>1, <1>3, Zenon DEF LoopOK, LoopJobs, Calm, Nested
<1>5. /\ syncs = <<>> /\ OwnedBy(jobs, live)
      /\ ~BPending_IsSet(jobs, Mark(1)) /\ ~BPending_IsSet(jobs, Mark(2))
  BY <1>4, JobTypes, Zenon DEF Fresh
<1>6. /\ JobList(jobs')
      /\ \A k : BPending_IsSet(jobs', k) <=> BPending_IsSet(jobs, k) /\ k # LwipInit
  BY <1>1, <1>2, FreeFacts, Zenon
<1>7. Calm(jobs', syncs', live') /\ syncs' = <<>>
  <2>1. OwnedBy(jobs', live')
    BY <1>1, <1>5, <1>6, Zenon DEF OwnedBy
  <2> QED BY <1>1, <1>5, <1>6, <2>1, Zenon DEF Calm
<1>8. ConnsOK(pcbs', live') /\ Served(results', active', live')
  BY <1>1, Zenon DEF LoopOK
<1>9. output_packet' <=> "tun" \in armed'
  BY <1>1, Zenon DEF LoopOK
<1>10. CASE exiting'
  BY <1>7, <1>8, <1>9, <1>10, Quits, Zenon
<1>11. CASE held' = held \union Lwip /\ UNCHANGED exiting
  <2>1. \A k \in PacketJobs : k # LwipInit
    BY JobNames, Zenon
  <2>2. OneOwner(jobs)'
    BY <1>1, <1>4, <1>6, <2>1, Zenon DEF OneOwner
  <2>3. ~exiting' /\ (Lwip \subseteq held)'
    BY <1>1, <1>11, Zenon
  <2> QED BY <1>7, <1>8, <1>9, <2>2, <2>3, GoesOn, Zenon
<1> QED BY <1>1, <1>10, <1>11, Zenon

-----------------------------------------------------------------------------
(* Set-up and teardown.                                                     *)

LEMMA LoopIn ==
    ASSUME GoneByStage, FdsAreServed, JobsByStage, pc = "loop" PROVE LoopOK
BY Zenon DEF GoneByStage, FdsAreServed, JobsByStage, LoopOK, ConnsOK

LEMMA LoopOut ==
    ASSUME LoopOK', pc' = "loop" PROVE GoneByStage' /\ FdsAreServed' /\ JobsByStage'
<1>1. GoneByStage'
  BY Zenon DEF GoneByStage, LoopOK, ConnsOK
<1>2. FdsAreServed'
  BY Zenon DEF FdsAreServed, LoopOK
<1>3. JobList(jobs') /\ OwnedBy(jobs', live')
  BY Zenon DEF LoopOK, LoopJobs, Fresh, Calm, Nested
<1>4. JobsByStage'
  BY <1>3, Zenon DEF JobsByStage, LoopOK
<1> QED BY <1>1, <1>2, <1>4, Zenon

Afterwards == {"free_clients", "free_lwip", "free_udp"}

LEMMA GoneStep ==
    ASSUME GoneByStage, runTun2Socks \/ setUp \/ tearDown
    PROVE  GoneByStage'
<1>1. ConnsOK(pcbs, live)
  BY Zenon DEF GoneByStage, ConnsOK
<1>2. ASSUME UNCHANGED <<pcbs, live, map>>, pc \notin {"loop"} \union Afterwards PROVE GoneByStage'
  BY <1>2, Zenon DEF GoneByStage, Afterwards
<1>3. CASE runTun2Socks
  BY <1>2, <1>3, Zenon DEF runTun2Socks, connVars, dnsVars, Afterwards
<1>4. CASE initReactor
  BY <1>2, <1>4, Zenon DEF initReactor, fails, connVars, dnsVars, Afterwards
<1>5. CASE initDevice
  BY <1>2, <1>5, Zenon DEF initDevice, fails, connVars, dnsVars, Afterwards
<1>6. CASE initReading
  BY <1>2, <1>6, Zenon DEF initReading, fails, connVars, dnsVars, Afterwards
<1>7. CASE initLwipJob
  BY <1>2, <1>7, Zenon DEF initLwipJob, fails, connVars, dnsVars, Afterwards
<1>8. CASE initUdp
  <2>1. UNCHANGED <<pcbs, live>> /\ (pc' = "loop" \/ (pc = "udp" /\ UNCHANGED map))
    BY <1>8, Zenon DEF initUdp, fails, connVars, dnsVars
  <2>2. CASE pc' = "loop"
    BY <2>1, <2>2, Zenon DEF GoneByStage
  <2>3. CASE pc = "udp" /\ UNCHANGED map
    BY <1>2, <2>1, <2>3, Zenon DEF Afterwards
  <2> QED BY <2>1, <2>2, <2>3, Zenon
<1>9. CASE leaveLoop
  BY <1>9, Zenon DEF leaveLoop, to, connVars, GoneByStage
<1>10. CASE freeClients
  <2>1. ASSUME NEW c \in Conns, client_murder(c) PROVE GoneByStage'
    <3>1. /\ pc' = "free_clients" /\ pcbs' \in [Conns -> PcbStates]
          /\ \A e \in Conns : pcbs'[e] = pcbs[e] \/ pcbs'[e] = "none"
          /\ live' \subseteq live
      BY <1>1, <2>1, Zenon DEF client_murder, runVars, keepsSocks, dropsSocks, ConnsOK, PcbStates
    <3> QED BY <1>1, <3>1, Zenon DEF GoneByStage, ConnsOK
  <2>2. ASSUME to("free_clients", "free_lwip"), \A c \in Conns : ~hasClient(c), UNCHANGED connVars
        PROVE  GoneByStage'
    <3>1. live' = {} /\ pcbs' = pcbs /\ pc' = "free_lwip"
      BY <1>1, <2>2, Zenon DEF to, hasClient, connVars, ConnsOK
    <3> QED BY <1>1, <3>1, Zenon DEF GoneByStage, ConnsOK
  <2> QED BY <1>10, <2>1, <2>2, Zenon DEF freeClients
<1>11. CASE freeLwip
  <2>1. pc = "free_lwip" /\ pc' = "free_udp" /\ live' = live /\ pcbs' = [c \in Conns |-> "none"]
    BY <1>11, Zenon DEF freeLwip, to
  <2>2. live = {}
    BY <2>1, Zenon DEF GoneByStage
  <2> QED BY <2>1, <2>2, Zenon DEF GoneByStage, PcbStates
<1>12. CASE freeUdp
  <2>1. pc = "free_udp" /\ UNCHANGED <<pcbs, live>> /\ map' = [i \in Ids |-> NoApp]
    BY <1>12, Zenon DEF freeUdp, to, dnsEmpty, connVars
  <2> QED BY <2>1, Zenon DEF GoneByStage
<1>13. CASE freeLwipJob
  BY <1>2, <1>13, Zenon DEF freeLwipJob, to, connVars, dnsVars, Afterwards
<1>14. CASE freeDevice
  BY <1>2, <1>14, Zenon DEF freeDevice, to, connVars, dnsVars, Afterwards
<1>15. CASE freeRest
  BY <1>2, <1>15, Zenon DEF freeRest, to, connVars, dnsVars, Afterwards
<1> QED BY <1>3, <1>4, <1>5, <1>6, <1>7, <1>8, <1>9, <1>10, <1>11, <1>12, <1>13, <1>14, <1>15, Zenon
       DEF setUp, tearDown

LEMMA FdsStep ==
    ASSUME FdsAreServed, GoneByStage, runTun2Socks \/ setUp \/ tearDown
    PROVE  FdsAreServed'
<1>1. ASSUME pc' \notin {"tap", "read", "lwip", "udp", "loop"} PROVE FdsAreServed'
  BY <1>1, Zenon DEF FdsAreServed
<1>2. CASE runTun2Socks
  BY <1>1, <1>2, Zenon DEF runTun2Socks
<1>3. CASE initReactor
  BY <1>1, <1>3, Zenon DEF initReactor, fails, BReactor_Init, FdsAreServed
<1>4. CASE initDevice
  BY <1>1, <1>4, Zenon DEF initDevice, fails, FdsAreServed
<1>5. CASE initReading
  BY <1>1, <1>5, Zenon DEF initReading, fails, deviceVars, FdsAreServed
<1>6. CASE initLwipJob
  BY <1>1, <1>6, Zenon DEF initLwipJob, fails, deviceVars, FdsAreServed
<1>7. CASE initUdp
  <2>1. CASE /\ pc = "udp" /\ pc' = "loop" /\ UNCHANGED <<output_packet, results>>
             /\ active' = active \union {"udp"} /\ armed' = armed \union {"udp"}
    <3>1. results = <<>> /\ armed = {} /\ active \subseteq {"tun"} /\ ~output_packet
      BY <2>1, Zenon DEF FdsAreServed
    <3>2. Served(results', active', live')
      BY <2>1, <3>1 DEF Served
    <3>3. output_packet' <=> "tun" \in armed'
      <4>1. ~output_packet'
        BY <2>1, <3>1, Zenon
      <4>2. "tun" \notin armed'
        BY <2>1, <3>1, Zenon
      <4> QED BY <4>1, <4>2, Zenon
    <3> QED BY <2>1, <3>2, <3>3, Zenon DEF FdsAreServed
  <2>2. CASE pc' = "fail5"
    BY <1>1, <2>2, Zenon
  <2> QED BY <1>7, <2>1, <2>2, Zenon DEF initUdp, fails, deviceVars
<1>8. ASSUME tearDown PROVE pc' \notin {"tap", "read", "lwip", "udp", "loop"}
  BY <1>8, Zenon DEF tearDown, leaveLoop, freeClients, client_murder, freeLwip, freeUdp, freeLwipJob,
              freeDevice, freeRest, to, runVars
<1> QED BY <1>1, <1>2, <1>3, <1>4, <1>5, <1>6, <1>7, <1>8, Zenon DEF setUp

LEMMA NoJobAtAll == JobList(<<>>) /\ \A k : ~BPending_IsSet(<<>>, k)
BY DEF JobList, BPending_IsSet

LEMMA SetCore ==
    ASSUME NEW q, JobList(q), NEW L, OwnedBy(q, L), \A m \in Marks : ~BPending_IsSet(q, m),
           NEW j \in PacketJobs \union {LwipInit}
    PROVE  /\ JobList(BPending_Set(q, j)) /\ OwnedBy(BPending_Set(q, j), L)
           /\ \A m \in Marks : ~BPending_IsSet(BPending_Set(q, j), m)
           /\ \A k : BPending_IsSet(BPending_Set(q, j), k) <=> BPending_IsSet(q, k) \/ k = j
           /\ BPending_Set(q, j) # <<>> /\ Head(BPending_Set(q, j)) = j
<1>1. j \in Elements /\ j \notin Marks /\ j \notin AllSocks
  BY JobTypes, JobNames, Zenon
<1>2. /\ JobList(BPending_Set(q, j))
      /\ \A k : BPending_IsSet(BPending_Set(q, j), k) <=> BPending_IsSet(q, k) \/ k = j
      /\ BPending_Set(q, j) # <<>> /\ Head(BPending_Set(q, j)) = j
  BY <1>1, SetFacts, Zenon
<1>3. \A c \in Conns : j \notin SocksJobs(c)
  BY <1>1, JobTypes, Zenon
<1>4. OwnedBy(BPending_Set(q, j), L)
  BY <1>2, <1>3, Zenon DEF OwnedBy
<1> QED BY <1>1, <1>2, <1>4, Zenon

LEMMA FreeCore ==
    ASSUME NEW q, JobList(q), NEW L, OwnedBy(q, L), \A m \in Marks : ~BPending_IsSet(q, m), NEW j
    PROVE  /\ JobList(BPending_Free(q, j)) /\ OwnedBy(BPending_Free(q, j), L)
           /\ \A m \in Marks : ~BPending_IsSet(BPending_Free(q, j), m)
           /\ \A k : BPending_IsSet(BPending_Free(q, j), k) <=> BPending_IsSet(q, k) /\ k # j
<1>1. /\ JobList(BPending_Free(q, j))
      /\ \A k : BPending_IsSet(BPending_Free(q, j), k) <=> BPending_IsSet(q, k) /\ k # j
  BY FreeFacts, Zenon
<1> QED BY <1>1, Zenon DEF OwnedBy

(* The jobs outside the loop.                                               *)
Quiet == JobList(jobs) /\ OwnedBy(jobs, live) /\ syncs = <<>> /\ \A m \in Marks : ~BPending_IsSet(jobs, m)

LEMMA QuietKept ==
    ASSUME Quiet, UNCHANGED <<jobs, live, syncs>> PROVE Quiet'
BY Zenon DEF Quiet

LEMMA SetUpJobs ==
    ASSUME JobsByStage, FdsAreServed, runTun2Socks \/ setUp
    PROVE  JobsByStage'
<1> USE DEF JobsByStage
<1>1. pc # "loop" => Quiet
  BY Zenon DEF Quiet
<1>2. CASE runTun2Socks
  <2>1. pc = "idle" /\ pc' = "init" /\ UNCHANGED <<jobs, live, syncs>>
    BY <1>2, Zenon DEF runTun2Socks, reactorVars, connVars
  <2>2. Quiet' /\ Quiet
    BY <1>1, <2>1, QuietKept, Zenon
  <2> QED BY <2>1, <2>2, Zenon DEF Quiet
<1>3. CASE initReactor
  <2>1. CASE pc' = "tap" /\ BReactor_Init
    <3>1. JobList(jobs') /\ OwnedBy(jobs', live') /\ \A m \in Marks : ~BPending_IsSet(jobs', m)
      BY <2>1, NoJobAtAll, Zenon DEF BReactor_Init, OwnedBy
    <3> QED BY <2>1, <3>1, Zenon DEF BReactor_Init
  <2>2. CASE pc = "init" /\ pc' = "fail1" /\ UNCHANGED <<jobs, live, syncs>>
    BY <1>1, <2>2, QuietKept, Zenon DEF Quiet
  <2> QED BY <1>3, <2>1, <2>2, Zenon DEF initReactor, fails, reactorVars, connVars
<1>4. CASE initDevice
  <2>1. pc = "tap" /\ (pc' = "read" \/ pc' = "fail3") /\ UNCHANGED <<jobs, live, syncs, timer, exiting>>
    BY <1>4, Zenon DEF initDevice, fails, reactorVars, connVars
  <2>2. Quiet'
    BY <1>1, <2>1, QuietKept, Zenon
  <2>3. \A k : ~BPending_IsSet(jobs', k)
    BY <2>1, NoJobAtAll, Zenon
  <2> QED BY <2>1, <2>2, <2>3, Zenon DEF Quiet
<1>5. CASE initReading
  <2>1. /\ pc = "read" /\ UNCHANGED <<live, syncs, timer, exiting>>
        /\ \/ pc' = "lwip" /\ jobs' = BPending_Set(jobs, Device("operation"))
           \/ pc' = "fail4" /\ UNCHANGED jobs
    BY <1>5, Zenon DEF initReading, fails, connVars
  <2>2. jobs = <<>> /\ ~exiting /\ timer = "off" /\ Quiet
    BY <1>1, <2>1, Zenon
  <2>3. CASE pc' = "lwip" /\ jobs' = BPending_Set(jobs, Device("operation"))
    <3>1. Device("operation") \in PacketJobs \union {LwipInit}
      BY JobTypes, Zenon
    <3>2. /\ JobList(jobs') /\ OwnedBy(jobs', live)
          /\ \A m \in Marks : ~BPending_IsSet(jobs', m)
          /\ \A k : BPending_IsSet(jobs', k) <=> BPending_IsSet(jobs, k) \/ k = Device("operation")
      <4>1. JobList(jobs) /\ OwnedBy(jobs, live) /\ \A m \in Marks : ~BPending_IsSet(jobs, m)
        BY <2>2, Zenon DEF Quiet
      <4> HIDE DEF JobsByStage
      <4> DEFINE r == BPending_Set(jobs, Device("operation"))
      <4>2. /\ JobList(r) /\ OwnedBy(r, live) /\ \A m \in Marks : ~BPending_IsSet(r, m)
            /\ \A k : BPending_IsSet(r, k) <=> BPending_IsSet(jobs, k) \/ k = Device("operation")
        BY <3>1, <4>1, SetCore, Zenon
      <4>3. jobs' = r
        BY <2>3, Zenon
      <4> QED BY <4>2, <4>3, Zenon
    <3>3. \A k : BPending_IsSet(jobs', k) <=> k = Device("operation")
      BY <2>2, <3>2, NoJobAtAll, Zenon
    <3>4. JobList(jobs') /\ OwnedBy(jobs', live') /\ syncs' = <<>>
      BY <2>1, <2>2, <3>2, Zenon DEF Quiet
    <3>5. ~exiting' /\ timer' = "off"
      BY <2>1, <2>2, Zenon
    <3> QED BY <2>3, <3>2, <3>3, <3>4, <3>5, Zenon
  <2>4. CASE pc' = "fail4" /\ UNCHANGED jobs
    <3>1. Quiet' /\ \A k : ~BPending_IsSet(jobs', k)
      BY <2>1, <2>2, <2>4, QuietKept, NoJobAtAll, Zenon
    <3> QED BY <2>4, <3>1, Zenon DEF Quiet
  <2> QED BY <2>1, <2>3, <2>4, Zenon
<1>6. CASE initLwipJob
  <2>1. /\ pc = "lwip" /\ UNCHANGED <<live, syncs, exiting>>
        /\ jobs' = BPending_Set(jobs, LwipInit)
        /\ (pc' = "udp" /\ timer' = "running") \/ pc' = "fail5"
    BY <1>6, Zenon DEF initLwipJob, fails, connVars, BReactor_SetTimer
  <2>2. ~exiting /\ Quiet /\ \A j \in Elements : BPending_IsSet(jobs, j) <=> j = Device("operation")
    BY <1>1, <2>1, Zenon
  <2>3. /\ JobList(jobs') /\ OwnedBy(jobs', live)
        /\ \A m \in Marks : ~BPending_IsSet(jobs', m)
        /\ \A k : BPending_IsSet(jobs', k) <=> BPending_IsSet(jobs, k) \/ k = LwipInit
        /\ jobs' # <<>> /\ Head(jobs') = LwipInit
    BY <2>1, <2>2, SetCore, Zenon DEF Quiet
  <2>4. \A k \in Elements : BPending_IsSet(jobs', k) <=> k \in {LwipInit, Device("operation")}
    BY <2>2, <2>3, Zenon
  <2>5. JobList(jobs') /\ OwnedBy(jobs', live') /\ syncs' = <<>> /\ ~exiting'
    BY <2>1, <2>2, <2>3, Zenon DEF Quiet
  <2> QED BY <2>1, <2>3, <2>4, <2>5, Zenon
<1>7. CASE initUdp
  <2>1. /\ pc = "udp" /\ (pc' = "loop" \/ pc' = "fail5")
        /\ UNCHANGED <<jobs, live, syncs, timer, exiting, output_packet>>
    BY <1>7, Zenon DEF initUdp, fails, connVars, deviceVars
  <2>2. /\ \A j \in Elements : BPending_IsSet(jobs, j) <=> j \in {LwipInit, Device("operation")}
        /\ jobs # <<>> /\ Head(jobs) = LwipInit
        /\ ~exiting /\ timer = "running" /\ Quiet
    BY <1>1, <2>1, Zenon
  <2>3. Quiet'
    BY <2>1, <2>2, QuietKept, Zenon
  <2>4. ~output_packet
    BY <2>1, Zenon DEF FdsAreServed
  <2>5. OneOwner(jobs)'
    <3>1. Device("operation") \in PacketJobs /\ Device("operation") \in Elements
      BY JobTypes, Zenon
    <3>2. \A k \in PacketJobs : k \in Elements /\ k # LwipInit
      BY JobTypes, JobNames, Zenon
    <3>3. BPending_IsSet(jobs, Device("operation"))
          /\ \A k \in PacketJobs : BPending_IsSet(jobs, k) => k = Device("operation")
      BY <2>2, <3>1, <3>2, Zenon
    <3> QED BY <2>1, <2>4, <3>1, <3>3, Zenon DEF OneOwner
  <2>6. Fresh(jobs', syncs', live')
    BY <2>1, <2>2, Zenon DEF Fresh, Quiet
  <2>7. ~exiting' /\ timer' # "expired"
    BY <2>1, <2>2, Zenon
  <2>8. LoopJobs'
    BY <2>5, <2>6, <2>7, Zenon DEF LoopJobs
  <2> QED BY <2>1, <2>3, <2>8, Zenon DEF Quiet
<1> QED BY <1>2, <1>3, <1>4, <1>5, <1>6, <1>7, Zenon DEF setUp

LEMMA TearDownJobs ==
    ASSUME JobsByStage, tearDown
    PROVE  JobsByStage'
<1> USE DEF JobsByStage
<1>1. pc # "loop" => Quiet
  BY Zenon DEF Quiet
<1>2. CASE leaveLoop
  <2>1. pc = "loop" /\ pc' = "free_clients" /\ exiting /\ syncs = <<>> /\ UNCHANGED <<jobs, live, syncs>>
    BY <1>2, Zenon DEF leaveLoop, to, reactorVars, connVars
  <2>2. LoopJobs
    BY <2>1, Zenon
  <2>3. Fresh(jobs, syncs, live) \/ Calm(jobs, syncs, live)
    <3>1. ~Nested(jobs, syncs, live)
      BY <2>1, Zenon DEF Nested
    <3> QED BY <2>2, <3>1, Zenon DEF LoopJobs
  <2>4. \A m \in Marks : m = Mark(1) \/ m = Mark(2)
    BY Zenon DEF Marks
  <2>5. Quiet
    BY <2>1, <2>3, <2>4, Zenon DEF Quiet, Fresh, Calm
  <2>6. Quiet'
    BY <2>1, <2>5, QuietKept, Zenon
  <2> QED BY <2>1, <2>6, Zenon DEF Quiet
<1>3. CASE freeClients
  <2>1. ASSUME NEW c \in Conns, client_murder(c) PROVE JobsByStage'
    <3>1. /\ pc = "free_clients" /\ pc' = pc /\ UNCHANGED syncs
          /\ dropsSocks(c, jobs, results) \/ keepsSocks(jobs)
      BY <2>1, Zenon DEF client_murder, runVars
    <3>2. Quiet
      BY <1>1, <3>1, Zenon
    <3>3. SocksOnly(jobs, freesJobs(jobs, c)) /\ OwnedBy(freesJobs(jobs, c), live \ {c})
      BY <3>2, FreesJobs, Zenon DEF Quiet
    <3>4. \A m \in Marks : m \notin AllSocks
      BY JobNames, Zenon
    <3>5. Quiet'
      BY <3>1, <3>2, <3>3, <3>4, Zenon DEF Quiet, dropsSocks, keepsSocks, SocksOnly
    <3> QED BY <3>1, <3>5, Zenon DEF Quiet
  <2>2. ASSUME to("free_clients", "free_lwip"), UNCHANGED <<connVars, reactorVars>> PROVE JobsByStage'
    <3>1. pc = "free_clients" /\ pc' = "free_lwip" /\ UNCHANGED <<jobs, live, syncs>>
      BY <2>2, Zenon DEF to, reactorVars, connVars
    <3>2. Quiet'
      BY <1>1, <3>1, QuietKept, Zenon
    <3> QED BY <3>1, <3>2, Zenon DEF Quiet
  <2> QED BY <1>3, <2>1, <2>2, Zenon DEF freeClients
<1>4. CASE freeLwip
  <2>1. pc = "free_lwip" /\ pc' = "free_udp" /\ UNCHANGED <<jobs, live, syncs>>
    BY <1>4, Zenon DEF freeLwip, to, reactorVars
  <2>2. Quiet'
    BY <1>1, <2>1, QuietKept, Zenon
  <2> QED BY <2>1, <2>2, Zenon DEF Quiet
<1>5. CASE freeUdp
  <2>1. pc = "free_udp" /\ pc' = "fail5" /\ UNCHANGED <<jobs, live, syncs>>
    BY <1>5, Zenon DEF freeUdp, to, connVars
  <2>2. Quiet'
    BY <1>1, <2>1, QuietKept, Zenon
  <2> QED BY <2>1, <2>2, Zenon DEF Quiet
<1>6. CASE freeLwipJob
  <2>1. pc = "fail5" /\ pc' = "fail4a" /\ jobs' = BPending_Free(jobs, LwipInit) /\ UNCHANGED <<live, syncs>>
    BY <1>6, Zenon DEF freeLwipJob, to, connVars
  <2>2. Quiet
    BY <1>1, <2>1, Zenon
  <2>3. Quiet' /\ ~BPending_IsSet(jobs', LwipInit)
    BY <2>1, <2>2, FreeCore, Zenon DEF Quiet
  <2> QED BY <2>1, <2>3, Zenon DEF Quiet
<1>7. CASE freeDevice
  <2> DEFINE q1 == BPending_Free(jobs, ReadInterface("operation"))
             q2 == BPending_Free(q1, ReadInterface("done"))
             q3 == BPending_Free(q2, Device("operation"))
             q4 == BPending_Free(q3, Device("done"))
             Kept(q) == /\ JobList(q) /\ OwnedBy(q, live) /\ \A m \in Marks : ~BPending_IsSet(q, m)
                        /\ ~BPending_IsSet(q, LwipInit)
  <2>1. pc = "fail4" /\ pc' = "fail3" /\ jobs' = q4 /\ UNCHANGED <<live, syncs>>
    BY <1>7, Zenon DEF freeDevice, to, connVars
  <2>2. Quiet /\ Kept(jobs)
    BY <1>1, <2>1, Zenon DEF Quiet
  <2>3. Kept(q1) /\ ~BPending_IsSet(q1, ReadInterface("operation"))
    BY <2>2, FreeCore, Zenon
  <2> HIDE DEF q1
  <2>4. Kept(q2) /\ ~BPending_IsSet(q2, ReadInterface("operation")) /\ ~BPending_IsSet(q2, ReadInterface("done"))
    BY <2>3, FreeCore, Zenon
  <2> HIDE DEF q2
  <2>5. Kept(q3) /\ ~BPending_IsSet(q3, ReadInterface("operation")) /\ ~BPending_IsSet(q3, ReadInterface("done"))
        /\ ~BPending_IsSet(q3, Device("operation"))
    BY <2>4, FreeCore, Zenon
  <2> HIDE DEF q3
  <2>6. Kept(q4) /\ ~BPending_IsSet(q4, ReadInterface("operation")) /\ ~BPending_IsSet(q4, ReadInterface("done"))
        /\ ~BPending_IsSet(q4, Device("operation")) /\ ~BPending_IsSet(q4, Device("done"))
    <3>1. JobList(q3) /\ OwnedBy(q3, live) /\ \A m \in Marks : ~BPending_IsSet(q3, m)
      BY <2>5, Zenon
    <3>2. /\ JobList(q4) /\ OwnedBy(q4, live) /\ \A m \in Marks : ~BPending_IsSet(q4, m)
          /\ \A k : BPending_IsSet(q4, k) <=> BPending_IsSet(q3, k) /\ k # Device("done")
      BY <3>1, FreeCore, Zenon
    <3> HIDE DEF q4
    <3> QED BY <2>5, <3>2, Zenon
  <2> HIDE DEF q4
  <2>7. \A j \in PacketJobs : ~BPending_IsSet(jobs', j)
    BY <2>1, <2>6, Zenon DEF PacketJobs, DeviceJobs, ReadJobs
  <2>8. Quiet' /\ ~BPending_IsSet(jobs', LwipInit)
    BY <2>1, <2>2, <2>6, Zenon DEF Quiet
  <2> QED BY <2>1, <2>7, <2>8, Zenon DEF Quiet
<1>8. CASE freeRest
  <2>1. /\ UNCHANGED <<jobs, live, syncs>>
        /\ \/ pc = "fail4a" /\ pc' = "fail4"
           \/ pc = "fail3" /\ pc' = "fail2"
           \/ pc = "fail2" /\ pc' = "fail1"
           \/ pc = "fail1" /\ pc' = "idle"
    <3>1. UNCHANGED <<jobs, live, syncs>>
      BY <1>8, Zenon DEF freeRest, reactorVars, connVars
    <3> HIDE DEF JobsByStage
    <3> QED BY <1>8, <3>1, Zenon DEF freeRest, to
  <2>2. Quiet'
    BY <1>1, <2>1, QuietKept, Zenon
  <2>3. /\ ~BPending_IsSet(jobs', LwipInit)
        /\ pc' # "fail4" => \A j \in PacketJobs : ~BPending_IsSet(jobs', j)
    BY <2>1, Zenon
  <2> QED BY <2>1, <2>2, <2>3, Zenon DEF Quiet
<1> QED BY <1>2, <1>3, <1>4, <1>5, <1>6, <1>7, <1>8, Zenon DEF tearDown

LEMMA WaitsStep ==
    ASSUME LoopOK, reactorWaits
    PROVE  LoopOK'
<1>1. /\ ~exiting /\ jobs = <<>> /\ syncs = <<>>
      /\ UNCHANGED <<held, exiting, output_packet, pcbs, live, jobs, syncs, active, armed>>
      /\ results' = results \/ \E n \in 1..BSYSTEM_MAX_RESULTS : results' \in epoll_wait(n)
  BY Zenon DEF reactorWaits, inLoop, wait_for_events, deviceVars
<1>2. Calm(jobs, syncs, live) /\ Lwip \subseteq held /\ OneOwner(jobs)
  BY <1>1, NoJobs, Zenon DEF LoopOK
<1>3. ConnsOK(pcbs, live) /\ Served(results, active, live) /\ (output_packet <=> "tun" \in armed)
  BY Zenon DEF LoopOK
<1>4. ASSUME NEW n \in 1..BSYSTEM_MAX_RESULTS, results' \in epoll_wait(n)
      PROVE  Served(results', active, live)
  <2>1. active \subseteq Fds
    BY <1>3, Zenon DEF Served, ConnsOK, Fds
  <2>2. results' \in [1..n -> active]
    BY <1>4, Zenon DEF epoll_wait
  <2>3. results' \in Seq(Fds \union {NoFd}) /\ DOMAIN results' = 1..n
    BY <2>1, <2>2
  <2>4. \A i \in DOMAIN results' : results'[i] \in active \union {NoFd}
    BY <2>2, <2>3, Zenon
  <2> QED BY <1>3, <2>3, <2>4, Zenon DEF Served
<1>5. Served(results', active, live)
  BY <1>1, <1>3, <1>4, Zenon
<1>6. ConnsOK(pcbs', live') /\ Served(results', active', live') /\ Calm(jobs', syncs', live')
      /\ ~exiting' /\ (Lwip \subseteq held)'
  BY <1>1, <1>2, <1>3, <1>5, Zenon
<1>7. output_packet' <=> "tun" \in armed'
  BY <1>1, <1>3, Zenon
<1>8. OneOwner(jobs)'
  BY <1>1, <1>2, Zenon DEF OneOwner
<1> QED BY <1>6, <1>7, <1>8, GoesOn, Zenon

LEMMA HandlerStep ==
    ASSUME LoopOK, handler
    PROVE  LoopOK'
<1>1. CASE udpReadable
  <2>1. /\ dispatches("udp") /\ results' = Tail(results)
        /\ UNCHANGED <<held, exiting, output_packet, pcbs, live, jobs, syncs, active, armed>>
    BY <1>1, Zenon DEF udpReadable, inLoop, stays, deviceVars, connVars
  <2> QED BY <2>1, ResultTaken, Zenon
<1>2. CASE reactorReturns
  <2>1. UNCHANGED <<held, output_packet, pcbs, live>>
    BY <1>2, Zenon DEF reactorReturns, inLoop, deviceVars, connVars
  <2>2. CASE synchronized
    BY <2>1, <2>2, SynchronizedStep, Zenon
  <2>3. CASE skipsRemoved
    <3>1. /\ dispatches(NoFd) /\ results' = Tail(results)
          /\ UNCHANGED <<exiting, jobs, syncs, active, armed>>
      BY <2>3, Zenon DEF skipsRemoved
    <3> QED BY <2>1, <3>1, ResultTaken, Zenon
  <2> QED BY <1>2, <2>2, <2>3, Zenon DEF reactorReturns
<1> QED BY <1>1, <1>2, LwipInitStep, PassesPacketStep, DeviceReadStep, OutputRecvStep, FdHandlerStep,
           SocksOperationStep, SocksDoneStep, ConnectionFdStep, HangsUpStep, TimerStep, WaitsStep, Zenon, Zenon
       DEF handler

LEMMA RestStep ==
    ASSUME GoneByStage, FdsAreServed, JobsByStage, [Next]_vars
    PROVE  GoneByStage' /\ FdsAreServed' /\ JobsByStage'
<1>1. CASE runTun2Socks \/ setUp \/ tearDown
  BY <1>1, GoneStep, FdsStep, SetUpJobs, TearDownJobs, Zenon
<1>2. CASE handler
  BY <1>2, LoopFrame, LoopIn, HandlerStep, LoopOut, Zenon
<1>3. CASE environment
  <2>1. /\ pc = "loop" /\ pc' = pc
        /\ UNCHANGED <<held, output_packet, pcbs, live, jobs, syncs, timer, active, armed, results, exiting>>
    BY <1>3, Zenon DEF environment, timePasses, runVars, deviceVars, connVars, reactorVars
  <2>2. LoopOK
    BY <2>1, LoopIn, Zenon
  <2>3. ConnsOK(pcbs', live') /\ Served(results', active', live')
    BY <2>1, <2>2, Zenon DEF LoopOK
  <2>4. output_packet' <=> "tun" \in armed'
    BY <2>1, <2>2, Zenon DEF LoopOK
  <2>5. OneOwner(jobs)' <=> OneOwner(jobs)
    BY <2>1, Zenon DEF OneOwner
  <2>6. /\ Fresh(jobs', syncs', live') <=> Fresh(jobs, syncs, live)
        /\ Calm(jobs', syncs', live') <=> Calm(jobs, syncs, live)
        /\ Nested(jobs', syncs', live') <=> Nested(jobs, syncs, live)
    BY <2>1, Zenon
  <2>7. LoopJobs'
    BY <2>1, <2>2, <2>5, <2>6, Zenon DEF LoopOK, LoopJobs
  <2>8. LoopOK'
    BY <2>3, <2>4, <2>7, Zenon DEF LoopOK
  <2> QED BY <2>1, <2>8, LoopOut, Zenon
<1>4. CASE terminateTun2Socks \/ UNCHANGED vars
  <2>1. UNCHANGED <<pc, held, output_packet, pcbs, live, map,
                    jobs, syncs, timer, active, armed, results, exiting>>
    BY <1>4, Zenon DEF terminateTun2Socks, vars, runVars, deviceVars, connVars, reactorVars, dnsVars
  <2>2. GoneByStage' /\ FdsAreServed'
    BY <2>1, Zenon DEF GoneByStage, FdsAreServed
  <2>3. LoopJobs' <=> LoopJobs
    BY <2>1, Zenon DEF LoopJobs, OneOwner
  <2>4. JobsByStage'
    BY <2>1, <2>3, Zenon DEF JobsByStage
  <2> QED BY <2>2, <2>4, Zenon
<1> QED BY <1>1, <1>2, <1>3, <1>4, Zenon DEF Next

-----------------------------------------------------------------------------
(* Every label of run()'s teardown frees only what the run acquired, and    *)
(* nothing is left except after a failure of udp_init.                      *)
THEOREM TeardownFreesWhatIsHeld == Spec => []FreesWhatIsHeld
<1>1. Init => HeldByStage
  BY UptoFacts, Zenon DEF Init, HeldByStage, Places, Stages, Labels
<1> QED BY <1>1, HeldStep, HeldImplies, PTL DEF Spec

(* The inductive invariant: what is held, released, registered and pending  *)
(* at each place of run().                                                  *)
THEOREM RunInvariance == Spec => []IInv
<1>1. Init => IInv
  <2> SUFFICES ASSUME Init PROVE IInv
    OBVIOUS
  <2>1. HeldByStage
    BY UptoFacts, Zenon DEF Init, HeldByStage, Places, Stages, Labels
  <2>2. GoneByStage
    BY Zenon DEF Init, DnsInit, GoneByStage, PcbStates
  <2>3. FdsAreServed
    BY Zenon DEF Init, FdsAreServed
  <2>4. pc = "idle" /\ jobs = <<>> /\ syncs = <<>> /\ \A k : ~BPending_IsSet(jobs, k)
    BY NoJobAtAll, Zenon DEF Init
  <2>5. JobList(jobs) /\ OwnedBy(jobs, live)
    BY <2>4, NoJobAtAll, Zenon DEF OwnedBy
  <2>6. JobsByStage
    BY <2>4, <2>5, Zenon DEF JobsByStage
  <2> QED BY <2>1, <2>2, <2>3, <2>6, Zenon DEF IInv
<1>2. IInv /\ [Next]_vars => IInv'
  BY HeldStep, RestStep, Zenon DEF IInv
<1> QED BY <1>1, <1>2, PTL DEF Spec

(* No pcb, SOCKS connection or DNS question outlives a run of tun2socks.    *)
THEOREM NothingIsLeft == Spec => []NothingOutlivesRun
<1>1. IInv => NothingOutlivesRun
  BY Zenon DEF IInv, GoneByStage, NothingOutlivesRun, Stages
<1> QED BY <1>1, RunInvariance, PTL

(* BReactor_Exec dispatches a descriptor that epoll returned only while it  *)
(* is registered.                                                           *)
THEOREM DispatchesRegistered == Spec => []NoStaleDispatch
<1>1. IInv => NoStaleDispatch
  BY Zenon DEF IInv, FdsAreServed, Served, NoStaleDispatch
<1> QED BY <1>1, RunInvariance, PTL

(* Every pending job belongs to an object that exists.                      *)
THEOREM PendingJobsHaveOwners == Spec => []JobsHaveOwners
<1>1. IInv => JobsHaveOwners
  <2> SUFFICES ASSUME IInv, NEW i \in DOMAIN jobs PROVE
        LET j == jobs[i] IN
        /\ j = LwipInit => "lwip_init_job" \in held
        /\ j \in DeviceJobs => "device" \in held
        /\ j \in ReadJobs => "device_read_interface" \in held
        /\ \A c \in Conns : j \in SocksJobs(c) => c \in live
        /\ \A n \in 1..2 : j = Mark(n) => n <= Len(syncs)
    BY Zenon DEF JobsHaveOwners
  <2> DEFINE j == jobs[i]
  <2>1. BPending_IsSet(jobs, j)
    BY Zenon DEF BPending_IsSet
  <2> HIDE DEF j
  <2>2. JobsByStage /\ HeldByStage
    BY Zenon DEF IInv
  <2>3. \A c \in Conns : j \in SocksJobs(c) => c \in live
    BY <2>1, <2>2, Zenon DEF JobsByStage, OwnedBy
  <2>4. \A m \in Marks : m \in Elements /\ m # LwipInit /\ m \notin PacketJobs
    BY JobTypes, JobNames, Zenon
  <2>5. ASSUME j \in PacketJobs
        PROVE  pc \in Places \ {"idle", "init", "fail1", "fail2", "fail3", "tap", "read"}
    <3>1. ~(pc \in {"tap", "read"})
      BY <2>1, <2>2, NoJobAtAll, Zenon DEF JobsByStage
    <3>2. ~(pc \in {"idle", "init", "fail1", "fail2", "fail3"})
      BY <2>1, <2>2, <2>5, Zenon DEF JobsByStage
    <3>3. pc \in Places
      BY <2>2, Zenon DEF HeldByStage
    <3> QED BY <3>1, <3>2, <3>3, Zenon
  <2>6. ASSUME j \in PacketJobs PROVE "device" \in held /\ "device_read_interface" \in held
    BY <2>2, <2>5, <2>6, UptoFacts, Zenon DEF HeldByStage, Places, Stages, Labels
  <2>7. ASSUME j = LwipInit PROVE "lwip_init_job" \in held
    <3>1. ~(pc \in {"tap", "read"})
      BY <2>1, <2>2, NoJobAtAll, Zenon DEF JobsByStage
    <3>2. ~(pc \in {"idle", "init", "fail1", "fail2", "fail3", "fail4", "fail4a"})
      BY <2>1, <2>2, <2>7, Zenon DEF JobsByStage
    <3>3. pc # "lwip"
      <4>1. LwipInit \in Elements /\ LwipInit # Device("operation")
        BY JobTypes, JobNames, Zenon
      <4> QED BY <2>1, <2>2, <2>7, <4>1, Zenon DEF JobsByStage
    <3>4. pc \in Places
      BY <2>2, Zenon DEF HeldByStage
    <3> QED BY <2>2, <3>1, <3>2, <3>3, <3>4, UptoFacts, Zenon DEF HeldByStage, Places, Stages, Labels
  <2>8. ASSUME NEW n \in 1..2, j = Mark(n) PROVE n <= Len(syncs)
    <3>1. n = 1 \/ n = 2
      OBVIOUS
    <3>2. j \in Marks
      BY <2>8, <3>1, Zenon DEF Marks
    <3>3. pc = "loop"
      BY <2>1, <2>2, <3>2, Zenon DEF JobsByStage
    <3>4. LoopJobs
      BY <2>2, <3>3, Zenon DEF JobsByStage
    <3>5. CASE Fresh(jobs, syncs, live)
      BY <2>1, <3>2, <3>5, Zenon DEF Fresh
    <3>6. CASE Calm(jobs, syncs, live)
      <4>1. n = 1
        BY <2>1, <2>8, <3>1, <3>6, Zenon DEF Calm
      <4>2. syncs # <<>>
        BY <2>1, <2>8, <3>6, <4>1, Zenon DEF Calm
      <4>3. PICK w \in {"input", "timer", "output"} : syncs = <<w>>
        BY <3>6, <4>2, Zenon DEF Calm
      <4> QED BY <4>1, <4>3
    <3>7. CASE Nested(jobs, syncs, live)
      <4>1. PICK w \in {"input", "timer", "output"} : syncs = <<w, "output">>
        BY <3>7, Zenon DEF Nested
      <4> QED BY <3>1, <4>1
    <3> QED BY <3>4, <3>5, <3>6, <3>7, Zenon DEF LoopJobs
  <2> QED BY <2>3, <2>6, <2>7, <2>8, Zenon DEF j, PacketJobs
<1> QED BY <1>1, RunInvariance, PTL

(* lwIP is entered by one caller at a time and not before it is there.      *)
THEOREM LwipHasOneCaller == Spec => []LwipNotReentered
<1>1. IInv => LwipNotReentered
  <2> SUFFICES ASSUME IInv PROVE LwipNotReentered
    OBVIOUS
  <2>1. JobsByStage
    BY Zenon DEF IInv
  <2>2. CASE pc # "loop"
    <3>1. syncs = <<>>
      BY <2>1, <2>2, Zenon DEF JobsByStage
    <3>2. Len(syncs) = 0
      BY <3>1, Zenon
    <3> QED BY <2>2, <3>1, <3>2 DEF LwipNotReentered
  <2>3. CASE pc = "loop"
    <3>1. LoopJobs
      BY <2>1, <2>3, Zenon DEF JobsByStage
    <3>2. CASE Fresh(jobs, syncs, live)
      <4>1. syncs = <<>> /\ Len(syncs) = 0 /\ Head(jobs) = LwipInit /\ JobList(jobs) /\ jobs # <<>>
        BY <3>2, Zenon DEF Fresh
      <4>2. BPending_IsSet(jobs, LwipInit)
        BY <4>1, HeadIsSet, Zenon
      <4>3. ~exiting => timer # "expired"
        BY <3>1, <4>2, Zenon DEF LoopJobs, Calm, Nested
      <4>4. Len(syncs) <= 2 /\ (Len(syncs) = 2 => syncs[2] = "output")
        BY <4>1
      <4> QED BY <4>1, <4>2, <4>3, <4>4, Zenon DEF LwipNotReentered
    <3>3. CASE Calm(jobs, syncs, live) \/ Nested(jobs, syncs, live)
      <4>1. ~BPending_IsSet(jobs, LwipInit) /\ (exiting => syncs = <<>>)
        BY <3>1, <3>3, Zenon DEF LoopJobs, Calm, Nested
      <4>2. ~exiting => Lwip \subseteq held
        <5>1. ~Fresh(jobs, syncs, live)
          BY <4>1, HeadIsSet, Zenon DEF Fresh
        <5> QED BY <3>1, <5>1, Zenon DEF LoopJobs
      <4>3. \/ syncs = <<>>
            \/ \E w \in {"input", "timer", "output"} : syncs = <<w>> \/ syncs = <<w, "output">>
        BY <3>3, Zenon DEF Calm, Nested
      <4>4. Len(syncs) <= 2 /\ (Len(syncs) = 2 => syncs[2] = "output")
        <5>1. CASE syncs = <<>>
          BY <5>1
        <5>2. ASSUME NEW w \in {"input", "timer", "output"}, syncs = <<w>>
              PROVE  Len(syncs) <= 2 /\ (Len(syncs) = 2 => syncs[2] = "output")
          BY <5>2
        <5>3. ASSUME NEW w \in {"input", "timer", "output"}, syncs = <<w, "output">>
              PROVE  Len(syncs) <= 2 /\ (Len(syncs) = 2 => syncs[2] = "output")
          BY <5>3
        <5> QED BY <4>3, <5>1, <5>2, <5>3, Zenon
      <4> QED BY <4>1, <4>2, <4>4, Zenon DEF LwipNotReentered
    <3> QED BY <3>1, <3>2, <3>3, Zenon DEF LoopJobs
  <2> QED BY <2>2, <2>3, Zenon
<1> QED BY <1>1, RunInvariance, PTL

(* The packet buffer has one owner while the loop runs, and the device is   *)
(* watched exactly when it waits with the buffer.                           *)
THEOREM BufferIsOwnedOnce == Spec => []BufferHasOneOwner
<1>1. IInv => BufferHasOneOwner
  <2> SUFFICES ASSUME IInv, pc = "loop"
               PROVE  /\ ~exiting =>
                            IF output_packet THEN \A j \in PacketJobs : ~BPending_IsSet(jobs, j)
                            ELSE \E j \in PacketJobs :
                                    \A k \in PacketJobs : BPending_IsSet(jobs, k) <=> k = j
                      /\ output_packet <=> "tun" \in armed
    BY Zenon DEF BufferHasOneOwner, PacketJobs
  <2>1. output_packet <=> "tun" \in armed
    BY Zenon DEF IInv, FdsAreServed
  <2>2. ~exiting => OneOwner(jobs)
    BY Zenon DEF IInv, JobsByStage, LoopJobs
  <2> QED BY <2>1, <2>2, Zenon DEF OneOwner
<1> QED BY <1>1, RunInvariance, PTL
=============================================================================
