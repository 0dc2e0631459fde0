-------------------------- MODULE PacketLinkProofs --------------------------
(***************************************************************************)
(* Proofs about FairQueue and PacketLink for any set of flows, any weight, *)
(* any MTU, any largest time and any stream.  First the queue alone.  Then *)
(* the link drives the queue only as FairQueue allows, so what is proved   *)
(* of the queue holds in the link; the decoder always has room for what it *)
(* asks the stream for; and it stays in step with the sender.              *)
(***************************************************************************)
EXTENDS PacketLink, WellFoundedInduction, SequenceTheorems, TLAPS

W == packet_weight + MTU

(* The flows that a flow which queues a packet takes its time from.         *)
anchors == Queued \union ({sending_flow, previous_flow} \ {NoFlow})

(* The inductive invariant.  The packet that is being sent was the first.   *)
(* Nobody is counted as passed unless it is queued, nor by a flow that is   *)
(* gone.  As long as no flow came when there was no current time, no flow   *)
(* is ahead of an anchor by more than the largest packet, and what a flow   *)
(* was sent while another waited shows in its time.                         *)
SentFirst == sending_flow # NoFlow => \A f \in Queued : time[sending_flow] <= time[f]
OnlyWaiting == \A f, g \in Flows : f \notin Queued \/ g \notin flows => passed[<<f, g>>] = 0
Close == \A g \in flows, c \in anchors : time[g] <= time[c] + W
Charged ==
    \A f \in Queued, g \in flows : passed[<<f, g>>] = 0 \/ passed[<<f, g>>] + time[f] <= time[g] + W
IInv ==
    /\ QueueTypeOK /\ QueueMoves
    /\ SentFirst /\ OnlyWaiting
    /\ ~no_time => Close /\ Charged
-----------------------------------------------------------------------------
(* A set of numbers has a least one.                                        *)
LEMMA Least ==
    ASSUME NEW T \in SUBSET Nat, T # {}
    PROVE  \E m \in T : \A n \in T : m <= n
<1> DEFINE R == OpToRel(<, Nat)
<1>1. IsWellFoundedOn(R, Nat)
  BY NatLessThanWellFounded, Zenon
<1>2. \A m, n \in Nat : <<m, n>> \in R <=> m < n
  BY Zenon DEF OpToRel
<1> HIDE DEF R
<1>3. PICK m \in T : \A n \in T : ~(<<n, m>> \in R)
  BY <1>1, WFMin, Zenon
<1>4. \A n \in T : m <= n
  <2> SUFFICES ASSUME NEW n \in T PROVE m <= n
    OBVIOUS
  <2>1. m \in Nat /\ n \in Nat
    OBVIOUS
  <2>2. ~(n < m)
    BY <1>2, <1>3, <2>1, Zenon
  <2>3. QED
    BY <2>1, <2>2
<1>5. QED
  BY <1>4, Zenon

(* The tree's first flow is one of the flows in it, and none has less time. *)
LEMMA FirstFlow ==
    ASSUME NEW t \in [Flows -> Nat], NEW S \in SUBSET Flows, S # {}
    PROVE  /\ first_flow(t, S) \in S
           /\ \A g \in S : t[first_flow(t, S)] <= t[g]
<1> DEFINE T == {t[f] : f \in S}
<1>1. PICK m \in T : \A n \in T : m <= n
  <2>1. T \in SUBSET Nat /\ T # {}
    OBVIOUS
  <2> HIDE DEF T
  <2>2. QED
    BY <2>1, Least, Zenon
<1> DEFINE U == {f \in S : t[f] = m}
<1>2. U \in SUBSET Nat /\ U # {}
  BY <1>1, QueueConstants, Zenon
<1>3. PICK f \in U : \A g \in U : f <= g
  BY <1>2, Least, Zenon
<1>4. \A g \in S \ {f} : compare_flows(t, f, g)
  <2> SUFFICES ASSUME NEW g \in S \ {f} PROVE compare_flows(t, f, g)
    OBVIOUS
  <2>1. t[f] = m /\ m <= t[g] /\ f \in Nat /\ g \in Nat /\ t[f] \in Nat /\ t[g] \in Nat
    BY <1>1, <1>3, QueueConstants, Zenon
  <2>2. CASE t[g] = m
    BY <1>3, <2>1, <2>2 DEF compare_flows
  <2>3. CASE t[g] # m
    BY <2>1, <2>3 DEF compare_flows
  <2>4. QED
    BY <2>2, <2>3, Zenon
<1>5. \E x \in S : \A g \in S \ {x} : compare_flows(t, x, g)
  BY <1>3, <1>4, Zenon
<1> DEFINE h == first_flow(t, S)
<1>6. h \in S /\ \A g \in S \ {h} : compare_flows(t, h, g)
  BY <1>5, Zenon DEF first_flow
<1>7. \A g \in S : t[h] <= t[g]
  <2> SUFFICES ASSUME NEW g \in S PROVE t[h] <= t[g]
    OBVIOUS
  <2> HIDE DEF h
  <2>1. t[h] \in Nat /\ t[g] \in Nat
    BY <1>6, Zenon
  <2>2. CASE g = h
    BY <2>1, <2>2
  <2>3. CASE g # h
    BY <1>6, <2>1, <2>3 DEF compare_flows
  <2>4. QED
    BY <2>2, <2>3, Zenon
<1>8. QED
  BY <1>6, <1>7, Zenon

(* What the invariant says of the types, in the form the proofs use.        *)
LEMMA TypeFacts ==
    ASSUME IInv
    PROVE  /\ MAX_TIME \in Nat /\ MTU \in Nat /\ packet_weight \in Nat /\ W \in Nat
           /\ W <= MAX_TIME /\ NoFlow \notin Flows
           /\ flows \in SUBSET Flows /\ Queued \in SUBSET Flows /\ Queued \subseteq flows
           /\ time \in [Flows -> 0 .. MAX_TIME] /\ time \in [Flows -> Nat]
           /\ sending_flow # NoFlow => sending_flow \in flows /\ sending_flow \in Flows
           /\ previous_flow # NoFlow => previous_flow \in flows /\ previous_flow \in Flows
           /\ anchors \subseteq flows /\ anchors \in SUBSET Flows
<1>1. /\ flows \subseteq Flows /\ time \in [Flows -> 0 .. MAX_TIME]
      /\ sending_flow \in flows \union {NoFlow} /\ previous_flow \in flows \union {NoFlow}
  BY Zenon DEF IInv, QueueTypeOK
<1>2. /\ MAX_TIME \in Nat /\ MTU \in Nat /\ packet_weight \in Nat /\ W \in Nat
      /\ W <= MAX_TIME /\ NoFlow \notin Flows
  BY QueueConstants DEF W, NoFlow
<1>3. time \in [Flows -> Nat]
  BY <1>1, <1>2
<1>4. Queued \subseteq flows
  BY Zenon DEF Queued
<1>5. QED
  BY <1>1, <1>2, <1>3, <1>4, Zenon DEF anchors

(* The current time is the time of an anchor, and 0 if there is none.       *)
LEMMA CurrentTime ==
    ASSUME IInv
    PROVE  /\ get_current_time \in 0 .. MAX_TIME
           /\ sending_flow # NoFlow => get_current_time = time[sending_flow]
           /\ anchors # {} => \E c \in anchors : get_current_time = time[c]
           /\ anchors = {} => get_current_time = 0
<1>1. /\ time \in [Flows -> Nat] /\ time \in [Flows -> 0 .. MAX_TIME]
      /\ Queued \in SUBSET Flows /\ 0 \in 0 .. MAX_TIME
      /\ sending_flow # NoFlow => sending_flow \in Flows
      /\ previous_flow # NoFlow => previous_flow \in Flows
  BY TypeFacts
<1>2. CASE sending_flow # NoFlow
  BY <1>1, <1>2, Zenon DEF get_current_time, anchors
<1>3. CASE sending_flow = NoFlow
  <2> DEFINE C == (IF Queued = {} THEN {} ELSE {first_flow(time, Queued)})
                     \union (IF previous_flow = NoFlow THEN {} ELSE {previous_flow})
  <2>1. Queued # {} => first_flow(time, Queued) \in Queued
    BY <1>1, FirstFlow, Zenon
  <2>2. C \subseteq anchors /\ C \subseteq Flows /\ (C = {} <=> anchors = {})
    BY <1>1, <1>3, <2>1, Zenon DEF anchors
  <2>3. get_current_time = IF C # {} THEN time[first_flow(time, C)] ELSE 0
    BY <1>3, Zenon DEF get_current_time
  <2> HIDE DEF C
  <2>4. CASE C = {}
    BY <1>1, <1>3, <2>2, <2>3, <2>4, Zenon
  <2>5. CASE C # {}
    <3>1. first_flow(time, C) \in C
      BY <1>1, <2>2, <2>5, FirstFlow, Zenon
    <3>2. QED
      BY <1>1, <1>3, <2>2, <2>3, <2>5, <3>1, Zenon
  <2>6. QED
    BY <2>4, <2>5, Zenon
<1>4. QED
  BY <1>2, <1>3, Zenon

(* Charging the sent flow moves all queued flows back by the same time, and *)
(* the sent flow too but for what it sent; the others not below 0.          *)
LEMMA Charging ==
    ASSUME IInv, sending_flow # NoFlow, NEW amount \in 0 .. MAX_TIME,
           NEW t, t = increment_sent_flow(sending_flow, amount)
    PROVE  /\ t \in [Flows -> 0 .. MAX_TIME]
           /\ \E back \in Nat :
                /\ t[sending_flow] = time[sending_flow] - back + amount
                /\ \A f \in Queued : t[f] = time[f] - back
                /\ \A g \in Flows \ {sending_flow} : t[g] = 0 \/ t[g] = time[g] - back
                /\ \A g \in Flows : t[g] >= time[g] - back
<1> DEFINE s == sending_flow
           sub == IF Queued = {} THEN time[s] ELSE time[first_flow(time, Queued)]
<1>1. /\ time \in [Flows -> 0 .. MAX_TIME] /\ time \in [Flows -> Nat] /\ MAX_TIME \in Nat
      /\ Queued \in SUBSET Flows /\ s \in Flows /\ s \notin Queued
  <2>1. s \notin Queued
    BY Zenon DEF IInv, QueueMoves
  <2>2. QED
    BY <2>1, TypeFacts, Zenon
<1>2. CASE ~(amount > MAX_TIME - time[s])
  <2>1. t = [time EXCEPT ![s] = @ + amount]
    BY <1>2, Zenon DEF increment_sent_flow
  <2>2. t \in [Flows -> 0 .. MAX_TIME]
    BY <1>1, <1>2, <2>1
  <2>3. /\ t[s] = time[s] - 0 + amount
        /\ \A f \in Queued : t[f] = time[f] - 0
        /\ \A g \in Flows \ {s} : t[g] = time[g] - 0
        /\ \A g \in Flows : t[g] >= time[g] - 0
    BY <1>1, <2>1
  <2>4. QED
    BY <2>2, <2>3, Zenon
<1>3. CASE amount > MAX_TIME - time[s]
  <2>1. /\ sub \in 0 .. MAX_TIME /\ time[s] <= sub
        /\ \A f \in Queued : sub <= time[f]
    <3>1. CASE Queued = {}
      BY <1>1, <3>1
    <3>2. CASE Queued # {}
      <4>1. /\ first_flow(time, Queued) \in Queued
            /\ \A g \in Queued : time[first_flow(time, Queued)] <= time[g]
        BY <1>1, <3>2, FirstFlow, Zenon
      <4>2. time[s] <= time[first_flow(time, Queued)]
        BY <4>1, Zenon DEF IInv, SentFirst
      <4>3. QED
        BY <1>1, <3>2, <4>1, <4>2, Zenon
    <3>3. QED
      BY <3>1, <3>2, Zenon
  <2>2. t = [f \in Flows |-> IF f = s THEN wrap(wrap(time[f] - sub) + amount)
                             ELSE IF sub > time[f] THEN 0 ELSE time[f] - sub]
    BY <1>3, Zenon DEF increment_sent_flow
  <2> HIDE DEF sub
  <2>3. wrap(wrap(time[s] - sub) + amount) = time[s] - sub + amount
    BY <1>1, <1>3, <2>1 DEF wrap
  <2>4. time[s] - sub + amount \in 0 .. MAX_TIME
    BY <1>1, <1>3, <2>1
  <2>5. t[s] = time[s] - sub + amount
    BY <1>1, <2>2, <2>3, Zenon
  <2>6. \A g \in Flows \ {s} : t[g] = IF sub > time[g] THEN 0 ELSE time[g] - sub
    BY <2>2, Zenon
  <2>7. t \in [Flows -> 0 .. MAX_TIME]
    <3>1. \A g \in Flows : t[g] \in 0 .. MAX_TIME
      <4> SUFFICES ASSUME NEW g \in Flows PROVE t[g] \in 0 .. MAX_TIME
        OBVIOUS
      <4>1. CASE g = s
        BY <2>4, <2>5, <4>1, Zenon
      <4>2. CASE g # s
        <5> HIDE DEF s
        <5>1. time[g] \in 0 .. MAX_TIME /\ t[g] = IF sub > time[g] THEN 0 ELSE time[g] - sub
          BY <1>1, <2>6, <4>2, Zenon
        <5>2. QED
          BY <1>1, <2>1, <5>1
      <4>3. QED
        BY <4>1, <4>2, Zenon
    <3>2. t = [g \in Flows |-> t[g]]
      BY <2>2, Zenon
    <3>3. QED
      BY <3>1, <3>2, Zenon
  <2>8. \A f \in Queued : t[f] = time[f] - sub
    BY <1>1, <2>1, <2>6
  <2>9. \A g \in Flows \ {s} : t[g] = 0 \/ t[g] = time[g] - sub
    BY <2>6, Zenon
  <2>10. \A g \in Flows : t[g] >= time[g] - sub
    <3> SUFFICES ASSUME NEW g \in Flows PROVE t[g] >= time[g] - sub
      OBVIOUS
    <3> HIDE DEF s
    <3>1. time[g] \in Nat /\ time[s] \in Nat
      BY <1>1, Zenon
    <3>2. CASE g = s
      BY <2>1, <2>5, <3>1, <3>2
    <3>3. CASE g # s
      <4>1. t[g] = IF sub > time[g] THEN 0 ELSE time[g] - sub
        BY <2>6, <3>3, Zenon
      <4>2. QED
        BY <2>1, <3>1, <4>1
    <3>4. QED
      BY <3>2, <3>3, Zenon
  <2>11. sub \in Nat
    BY <1>1, <2>1
  <2>12. QED
    BY <2>5, <2>7, <2>8, <2>9, <2>10, <2>11, Zenon
<1>4. QED
  BY <1>2, <1>3, Zenon
-----------------------------------------------------------------------------
LEMMA InitInv == QueueInit => IInv
<1> SUFFICES ASSUME QueueInit PROVE IInv
  OBVIOUS
<1>1. Queued = {} /\ anchors = {}
  BY Zenon DEF QueueInit, Queued, anchors, NoFlow, NotQueued
<1>2. QueueTypeOK
  <2>1. 0 \in 0 .. MAX_TIME /\ 0 \in 0 .. MTU /\ NotQueued \in NotQueued .. MTU
    BY QueueConstants DEF NotQueued
  <2>2. schedule_job \in BOOLEAN /\ no_time \in BOOLEAN
    BY Zenon DEF QueueInit
  <2>3. /\ flows \subseteq Flows
        /\ time \in [Flows -> 0 .. MAX_TIME]
        /\ data_len \in [Flows -> NotQueued .. MTU]
        /\ sending_flow \in flows \union {NoFlow} /\ sending_len \in 0 .. MTU
        /\ previous_flow \in flows \union {NoFlow}
        /\ passed \in [Flows \X Flows -> Nat]
    BY <2>1, Zenon DEF QueueInit
  <2>4. QED
    BY <2>2, <2>3, Zenon DEF QueueTypeOK
<1>3. QueueMoves
  BY <1>1, Zenon DEF QueueInit, QueueMoves
<1>4. SentFirst /\ OnlyWaiting /\ Close /\ Charged
  BY <1>1, Zenon DEF QueueInit, SentFirst, OnlyWaiting, Close, Charged
<1>5. QED
  BY <1>2, <1>3, <1>4, Zenon DEF IInv

(* A packet is queued.  Its flow's time is at least an anchor's, so no flow *)
(* is ahead of it by more than the largest packet; if there is no anchor,   *)
(* either that is recorded or all times are 0.                              *)
LEMMA InputInv ==
    ASSUME IInv, NEW f \in Flows, NEW len \in 0 .. MTU, input_handler_send(f, len)
    PROVE  IInv'
<1> DEFINE lens == [data_len EXCEPT ![f] = len]
<1>1. /\ f \in flows /\ f # sending_flow /\ f \notin Queued
      /\ time' = raised(f)
      /\ previous_flow' = IF f = previous_flow THEN NoFlow ELSE previous_flow
      /\ flows' = flows /\ schedule_job' = schedule_job
  BY Zenon DEF input_handler_send
<1>2. no_time' = (no_time \/ /\ sending_flow = NoFlow /\ previous_flow = NoFlow /\ Queued = {}
                             /\ \E g \in flows : time[g] > 0)
  BY Zenon DEF input_handler_send
<1>3. \/ /\ ~busy
         /\ schedule(first_flow(time', Queued \union {f}), lens)
      \/ /\ busy /\ data_len' = lens
         /\ sending_flow' = sending_flow /\ sending_len' = sending_len /\ passed' = passed
  BY Zenon DEF input_handler_send
<1>4. lens \in [Flows -> NotQueued .. MTU] /\ lens[f] = len /\ len # NotQueued
      /\ \A g \in Flows : g # f => lens[g] = data_len[g]
  <2>1. data_len \in [Flows -> NotQueued .. MTU]
    BY Zenon DEF IInv, QueueTypeOK
  <2>2. len \in NotQueued .. MTU /\ len # NotQueued
    BY TypeFacts DEF NotQueued
  <2>3. QED
    BY <2>1, <2>2, Zenon
<1>5. /\ time' \in [Flows -> 0 .. MAX_TIME]
      /\ \A g \in Flows : g # f => time'[g] = time[g]
      /\ time'[f] = time[f] \/ (f # previous_flow /\ time'[f] = get_current_time)
      /\ time[f] <= time'[f]
      /\ f # previous_flow => get_current_time <= time'[f]
  <2>1. time[f] \in 0 .. MAX_TIME /\ get_current_time \in 0 .. MAX_TIME /\ MAX_TIME \in Nat
        /\ time \in [Flows -> 0 .. MAX_TIME]
    BY TypeFacts, CurrentTime, Zenon
  <2>2. CASE f = previous_flow \/ time[f] >= get_current_time
    BY <1>1, <2>1, <2>2 DEF raised
  <2>3. CASE ~(f = previous_flow \/ time[f] >= get_current_time)
    <3>1. time' = [time EXCEPT ![f] = get_current_time]
      BY <1>1, <2>3, Zenon DEF raised
    <3>2. QED
      BY <2>1, <2>3, <3>1
  <2>4. QED
    BY <2>2, <2>3, Zenon
<1> DEFINE anchors2 == anchors \union {f}
<1>6. ~no_time' => \A g \in flows, c \in anchors2 : time'[g] <= time'[c] + W
  <2> SUFFICES ASSUME ~no_time', NEW g \in flows, NEW c \in anchors2
               PROVE  time'[g] <= time'[c] + W
    OBVIOUS
  <2> HIDE DEF anchors2, lens
  <2>1. /\ g \in Flows /\ c \in Flows /\ W \in Nat
        /\ time[g] \in Nat /\ time[c] \in Nat /\ time'[g] \in Nat /\ time'[c] \in Nat
        /\ get_current_time \in Nat
    <3>1. c \in Flows
      BY TypeFacts, Zenon DEF anchors2
    <3>2. MAX_TIME \in Nat /\ get_current_time \in 0 .. MAX_TIME
      BY TypeFacts, CurrentTime, Zenon
    <3>3. QED
      BY <1>5, <3>1, <3>2, TypeFacts
  <2>2. CASE anchors = {}
    <3>1. sending_flow = NoFlow /\ previous_flow = NoFlow /\ Queued = {}
      BY <2>2, Zenon DEF anchors
    <3>2. \A h \in flows : time[h] = 0
      <4>1. ~(\E h \in flows : time[h] > 0)
        BY <1>2, <3>1, Zenon
      <4>2. QED
        BY <4>1, TypeFacts
    <3>3. get_current_time = 0
      BY <2>2, CurrentTime, Zenon
    <3>4. time'[g] = 0
      BY <1>1, <1>5, <2>1, <3>2, <3>3, Zenon
    <3>5. QED
      BY <2>1, <3>4
  <2>3. CASE anchors # {}
    <3>1. \A h \in flows, a \in anchors : time[h] <= time[a] + W
      BY <1>2, Zenon DEF IInv, Close
    <3>2. PICK a \in anchors : get_current_time = time[a]
      BY <2>3, CurrentTime, Zenon
    <3>3. a \in flows /\ a \in Flows /\ time[a] \in Nat
      BY TypeFacts, Zenon
    <3>4. time[c] <= time'[c] /\ time[f] <= time'[f]
      BY <1>5, <2>1
    <3>5. CASE c = f
      <4>1. \A h \in flows : time[h] <= time'[f] + W
        <5> SUFFICES ASSUME NEW h \in flows PROVE time[h] <= time'[f] + W
          OBVIOUS
        <5>1. time[h] \in Nat
          BY TypeFacts, Zenon
        <5>2. CASE f = previous_flow
          <6>1. f \in anchors
            BY <5>2, TypeFacts, Zenon DEF anchors
          <6>2. time[h] <= time[f] + W
            BY <3>1, <6>1, Zenon
          <6>3. QED
            BY <2>1, <3>4, <3>5, <5>1, <6>2
        <5>3. CASE f # previous_flow
          <6>1. time[h] <= time[a] + W /\ time[a] <= time'[f]
            BY <1>5, <3>1, <3>2, <5>3, Zenon
          <6>2. QED
            BY <2>1, <3>3, <3>5, <5>1, <6>1
        <5>4. QED
          BY <5>2, <5>3, Zenon
      <4>2. CASE g = f
        BY <2>1, <3>5, <4>2
      <4>3. CASE g # f
        BY <1>5, <2>1, <3>5, <4>1, <4>3, Zenon
      <4>4. QED
        BY <4>2, <4>3, Zenon
    <3>6. CASE c # f
      <4>1. c \in anchors /\ time'[c] = time[c]
        BY <1>5, <2>1, <3>6, Zenon DEF anchors2
      <4>2. CASE time'[g] = time[g]
        BY <3>1, <4>1, <4>2, Zenon
      <4>3. CASE time'[g] # time[g]
        <5>1. g = f /\ time'[g] = time[a]
          BY <1>5, <2>1, <3>2, <4>3, Zenon
        <5>2. QED
          BY <3>1, <3>3, <4>1, <5>1, Zenon
      <4>4. QED
        BY <4>2, <4>3, Zenon
    <3>7. QED
      BY <3>5, <3>6, Zenon
  <2>4. QED
    BY <2>2, <2>3, Zenon
<1> HIDE DEF lens
<1>7. /\ data_len \in [Flows -> NotQueued .. MTU] /\ sending_len \in 0 .. MTU
      /\ passed \in [Flows \X Flows -> Nat]
      /\ sending_flow \in flows \union {NoFlow} /\ previous_flow \in flows \union {NoFlow}
      /\ flows \subseteq Flows
  BY Zenon DEF IInv, QueueTypeOK
<1>8. schedule_job' \in BOOLEAN /\ no_time' \in BOOLEAN
  BY <1>1, <1>2, Zenon DEF IInv, QueueTypeOK
<1>9. previous_flow' \in flows' \union {NoFlow} /\ flows' \subseteq Flows
  BY <1>1, <1>7, Zenon
<1>10. ASSUME ~busy, schedule(first_flow(time', Queued \union {f}), lens) PROVE IInv'
  <2>1. sending_flow = NoFlow /\ ~schedule_job /\ Queued = {} /\ previous_flow = NoFlow
    BY <1>10, Zenon DEF busy, IInv, QueueMoves
  <2>2. first_flow(time', Queued \union {f}) = f
    <3>1. time' \in [Flows -> Nat]
      BY <1>5, TypeFacts
    <3>2. PICK t \in [Flows -> Nat] : t = time'
      BY <3>1, Zenon
    <3>3. first_flow(t, {f}) \in {f}
      BY FirstFlow, Zenon
    <3>4. QED
      BY <2>1, <3>2, <3>3, Zenon
  <2>3. /\ sending_flow' = f /\ sending_len' = len
        /\ data_len' = [lens EXCEPT ![f] = NotQueued]
        /\ passed' = [p \in Flows \X Flows |-> IF p[1] = f THEN 0 ELSE passed[p]]
    BY <1>4, <1>10, <2>2, Zenon DEF schedule
  <2>4. data_len' \in [Flows -> NotQueued .. MTU]
    <3>1. NotQueued \in NotQueued .. MTU
      BY TypeFacts DEF NotQueued
    <3>2. QED
      BY <1>4, <2>3, <3>1, Zenon
  <2>5. Queued' = {}
    <3>1. \A g \in flows : data_len'[g] = NotQueued
      BY <1>4, <1>7, <2>1, <2>3, Zenon DEF Queued
    <3>2. QED
      BY <1>1, <3>1, Zenon DEF Queued
  <2>6. anchors' \subseteq {f}
    BY <1>1, <2>1, <2>3, <2>5, Zenon DEF anchors
  <2>7. passed' \in [Flows \X Flows -> Nat]
    BY <1>7, <2>3, Zenon
  <2>8. sending_flow' \in flows' \union {NoFlow} /\ sending_len' \in 0 .. MTU
    BY <1>1, <2>3, Zenon
  <2>9. QueueTypeOK'
    BY <1>5, <1>8, <1>9, <2>4, <2>7, <2>8, Zenon DEF QueueTypeOK
  <2>10. QueueMoves'
    BY <1>1, <2>1, <2>5, Zenon DEF QueueMoves
  <2>11. OnlyWaiting'
    <3>1. \A a, b \in Flows : passed[<<a, b>>] = 0
      BY <2>1, Zenon DEF IInv, OnlyWaiting
    <3>2. \A a, b \in Flows : passed'[<<a, b>>] = 0
      BY <2>3, <3>1, Zenon
    <3>3. QED
      BY <3>2, Zenon DEF OnlyWaiting
  <2>12. SentFirst' /\ Charged'
    BY <2>5, Zenon DEF SentFirst, Charged
  <2>13. ~no_time' => Close'
    BY <1>1, <1>6, <2>6, Zenon DEF Close
  <2>14. QED
    BY <2>9, <2>10, <2>11, <2>12, <2>13, Zenon DEF IInv
<1>11. ASSUME busy, data_len' = lens,
              sending_flow' = sending_flow, sending_len' = sending_len, passed' = passed
       PROVE  IInv'
  <2>1. Queued' = Queued \union {f}
    <3>1. \A g \in flows : data_len'[g] # NotQueued <=> g = f \/ g \in Queued
      BY <1>4, <1>7, <1>11, Zenon DEF Queued
    <3>2. Queued' \subseteq flows /\ Queued \subseteq flows
      BY <1>1, Zenon DEF Queued
    <3>3. \A g \in flows : g \in Queued' <=> data_len'[g] # NotQueued
      BY <1>1, Zenon DEF Queued
    <3>4. QED
      BY <1>1, <3>1, <3>2, <3>3, Zenon
  <2>2. anchors' \subseteq anchors2
    BY <1>1, <1>11, <2>1, Zenon DEF anchors
  <2>3. QueueTypeOK'
    <3>1. data_len' \in [Flows -> NotQueued .. MTU]
      BY <1>4, <1>11, Zenon
    <3>2. sending_flow' \in flows' \union {NoFlow} /\ sending_len' \in 0 .. MTU
          /\ passed' \in [Flows \X Flows -> Nat]
      BY <1>1, <1>7, <1>11, Zenon
    <3>3. QED
      BY <1>5, <1>8, <1>9, <3>1, <3>2, Zenon DEF QueueTypeOK
  <2>4. QueueMoves'
    <3>1. /\ sending_flow # NoFlow \/ schedule_job
          /\ ~(sending_flow # NoFlow /\ schedule_job)
          /\ previous_flow # NoFlow => schedule_job
          /\ sending_flow \notin Queued
      BY <1>11, Zenon DEF busy, IInv, QueueMoves
    <3>2. QED
      BY <1>1, <1>11, <2>1, <3>1, Zenon DEF QueueMoves
  <2>5. SentFirst'
    <3> SUFFICES ASSUME sending_flow # NoFlow, NEW g \in Queued'
                 PROVE  time'[sending_flow] <= time'[g]
      BY <1>11, Zenon DEF SentFirst
    <3>1. /\ sending_flow \in Flows /\ sending_flow # f /\ f # previous_flow
          /\ time'[sending_flow] = time[sending_flow]
      BY <1>1, <1>5, TypeFacts, Zenon DEF IInv, QueueMoves
    <3>2. CASE g = f
      BY <1>5, <3>1, <3>2, CurrentTime, Zenon
    <3>3. CASE g # f
      <4>1. g \in Queued /\ time'[g] = time[g]
        BY <1>5, <2>1, <3>3, TypeFacts, Zenon
      <4>2. QED
        BY <3>1, <4>1, Zenon DEF IInv, SentFirst
    <3>4. QED
      BY <3>2, <3>3, Zenon
  <2>6. OnlyWaiting'
    BY <1>1, <1>11, <2>1, Zenon DEF IInv, OnlyWaiting
  <2>7. ~no_time' => Close'
    BY <1>1, <1>6, <2>2, Zenon DEF Close
  <2>8. ~no_time' => Charged'
    <3> SUFFICES ASSUME ~no_time', NEW a \in Queued', NEW g \in flows, passed[<<a, g>>] # 0
                 PROVE  passed[<<a, g>>] + time'[a] <= time'[g] + W
      BY <1>1, <1>11, Zenon DEF Charged
    <3>1. a \in Flows /\ g \in Flows
      BY <1>1, <2>1, TypeFacts, Zenon
    <3>2. a \in Queued /\ a # f
      BY <3>1, <1>1, Zenon DEF IInv, OnlyWaiting
    <3>3. passed[<<a, g>>] + time[a] <= time[g] + W
      BY <1>2, <3>2, Zenon DEF IInv, Charged
    <3>4. time'[a] = time[a] /\ time[g] <= time'[g]
      <4>1. CASE g = f
        BY <1>5, <3>1, <3>2, <4>1, Zenon
      <4>2. CASE g # f
        <5>1. time[g] \in Nat
          BY <3>1, TypeFacts, Zenon
        <5>2. QED
          BY <1>5, <3>1, <3>2, <4>2, <5>1
      <4>3. QED
        BY <4>1, <4>2, Zenon
    <3>5. time[g] \in Nat /\ time'[g] \in Nat /\ time[a] \in Nat /\ passed[<<a, g>>] \in Nat /\ W \in Nat
      BY <1>5, <1>7, <3>1, TypeFacts
    <3>6. PICK n \in Nat : n = time'[g]
      BY <3>5, Zenon
    <3>7. QED
      BY <3>3, <3>4, <3>5, <3>6
  <2>9. QED
    BY <2>3, <2>4, <2>5, <2>6, <2>7, <2>8, Zenon DEF IInv
<1>12. QED
  BY <1>3, <1>10, <1>11, Zenon

LEMMA Counting ==
    ASSUME NEW n \in Nat
    PROVE  counted(n) \in Nat /\ counted(n) <= n
BY QueueConstants DEF counted

(* What is charged for a packet fits into the time.                         *)
LEMMA Amount ==
    ASSUME IInv
    PROVE  /\ packet_weight + sending_len \in 0 .. MAX_TIME
           /\ packet_weight + sending_len <= W
<1>1. sending_len \in 0 .. MTU
  BY Zenon DEF IInv, QueueTypeOK
<1>2. QED
  BY <1>1, QueueConstants DEF W

(* A packet is done.  Its flow was the first, so even with what it is       *)
(* charged now it is not ahead of a queued flow by more than W.             *)
LEMMA DoneInv ==
    ASSUME IInv, output_handler_done
    PROVE  IInv'
<1> DEFINE s == sending_flow
           amount == packet_weight + sending_len
<1>1. /\ s # NoFlow /\ previous_flow' = s /\ sending_flow' = NoFlow /\ sending_len' = 0
      /\ time' = increment_sent_flow(s, amount)
      /\ flows' = flows /\ data_len' = data_len
  BY Zenon DEF output_handler_done
<1>2. /\ schedule_job' = TRUE /\ no_time' = no_time
      /\ passed' = [p \in Flows \X Flows |->
                      IF p[1] \in Queued /\ p[2] = s THEN counted(passed[p] + amount) ELSE passed[p]]
  BY Zenon DEF output_handler_done
<1>3. amount \in 0 .. MAX_TIME /\ amount <= W /\ amount \in Nat
  BY Amount, TypeFacts
<1>4. time' \in [Flows -> 0 .. MAX_TIME]
      /\ \E back \in Nat :
           /\ time'[s] = time[s] - back + amount
           /\ \A f \in Queued : time'[f] = time[f] - back
           /\ \A g \in Flows \ {s} : time'[g] = 0 \/ time'[g] = time[g] - back
           /\ \A g \in Flows : time'[g] >= time[g] - back
  BY <1>1, <1>3, Charging
<1>5. PICK back \in Nat :
           /\ time'[s] = time[s] - back + amount
           /\ \A f \in Queued : time'[f] = time[f] - back
           /\ \A g \in Flows \ {s} : time'[g] = 0 \/ time'[g] = time[g] - back
           /\ \A g \in Flows : time'[g] >= time[g] - back
  BY <1>4, Zenon
<1>6. /\ Queued' = Queued /\ anchors' = Queued \union {s}
      /\ s \in anchors /\ Queued \subseteq anchors
      /\ s \in flows /\ s \in Flows /\ s \notin Queued
  BY <1>1, TypeFacts, Zenon DEF Queued, anchors, IInv, QueueMoves
<1> HIDE DEF s, amount
<1>7. /\ passed \in [Flows \X Flows -> Nat] /\ data_len \in [Flows -> NotQueued .. MTU]
      /\ flows \subseteq Flows
  BY Zenon DEF IInv, QueueTypeOK
<1>8. passed' \in [Flows \X Flows -> Nat]
  <2>1. \A p \in Flows \X Flows : counted(passed[p] + amount) \in Nat
    BY <1>3, <1>7, Counting
  <2>2. QED
    BY <1>2, <1>7, <2>1, Zenon
<1>9. QueueTypeOK'
  <2>1. schedule_job' \in BOOLEAN /\ no_time' \in BOOLEAN
    BY <1>2, Zenon DEF IInv, QueueTypeOK
  <2>2. sending_len' \in 0 .. MTU /\ sending_flow' \in flows' \union {NoFlow}
        /\ previous_flow' \in flows' \union {NoFlow} /\ flows' \subseteq Flows
        /\ data_len' \in [Flows -> NotQueued .. MTU]
    BY <1>1, <1>6, <1>7, TypeFacts
  <2>3. QED
    BY <1>4, <1>8, <2>1, <2>2, Zenon DEF QueueTypeOK
<1>10. QueueMoves' /\ SentFirst'
  <2>1. NoFlow \notin Queued
    BY TypeFacts, Zenon
  <2>2. QED
    BY <1>1, <1>2, <1>6, <2>1, Zenon DEF QueueMoves, SentFirst
<1>11. OnlyWaiting'
  <2> SUFFICES ASSUME NEW a \in Flows, NEW g \in Flows, a \notin Queued \/ g \notin flows
               PROVE  passed'[<<a, g>>] = 0
    BY <1>1, <1>6, Zenon DEF OnlyWaiting
  <2>1. passed[<<a, g>>] = 0
    BY Zenon DEF IInv, OnlyWaiting
  <2>2. QED
    BY <1>2, <1>6, <2>1, Zenon
<1>12. ASSUME ~no_time' PROVE Close'
  <2> SUFFICES ASSUME NEW g \in flows, NEW c \in Queued \union {s}
               PROVE  time'[g] <= time'[c] + W
    BY <1>1, <1>6, Zenon DEF Close
  <2>1. /\ g \in Flows /\ c \in Flows /\ W \in Nat
        /\ time[g] \in Nat /\ time[c] \in Nat /\ time[s] \in Nat
    BY <1>6, TypeFacts, Zenon
  <2>2. time'[c] \in Nat
    BY <1>4, <2>1, TypeFacts
  <2>3. PICK n \in Nat : n = time'[c]
    BY <2>2, Zenon
  <2>4. time[g] <= time[s] + W /\ time[g] <= time[c] + W
    BY <1>2, <1>6, <1>12, Zenon DEF IInv, Close
  <2>5. time[c] - back <= n /\ time[s] - back <= n
    <3>1. CASE c = s
      BY <1>3, <1>5, <2>1, <2>3, <3>1, Zenon
    <3>2. CASE c \in Queued
      <4>1. time[s] <= time[c]
        BY <1>1, <3>2, Zenon DEF IInv, SentFirst, s
      <4>2. QED
        BY <1>5, <2>1, <2>3, <3>2, <4>1
    <3>3. QED
      BY <3>1, <3>2, Zenon
  <2>6. CASE g = s
    <3>1. time'[g] = time[s] - back + amount
      BY <1>5, <2>6, Zenon
    <3>2. QED
      BY <1>3, <2>1, <2>3, <2>5, <3>1
  <2>7. CASE g # s
    <3>1. time'[g] = 0 \/ time'[g] = time[g] - back
      BY <1>5, <2>1, <2>7, Zenon
    <3>2. QED
      BY <2>1, <2>3, <2>4, <2>5, <3>1
  <2>8. QED
    BY <2>6, <2>7, Zenon
<1>13. ASSUME ~no_time' PROVE Charged'
  <2> SUFFICES ASSUME NEW a \in Queued, NEW g \in flows, passed'[<<a, g>>] # 0
               PROVE  passed'[<<a, g>>] + time'[a] <= time'[g] + W
    BY <1>1, <1>6, Zenon DEF Charged
  <2>1. /\ g \in Flows /\ a \in Flows /\ W \in Nat
        /\ time[g] \in Nat /\ time[a] \in Nat /\ passed[<<a, g>>] \in Nat
    BY <1>7, TypeFacts, Zenon
  <2>2. time'[a] = time[a] - back
    BY <1>5, Zenon
  <2>3. time'[g] \in Nat
    BY <1>4, <2>1, TypeFacts
  <2>4. PICK n \in Nat : n = time'[g]
    BY <2>3, Zenon
  <2>5. passed[<<a, g>>] = 0 \/ passed[<<a, g>>] + time[a] <= time[g] + W
    BY <1>2, <1>13, Zenon DEF IInv, Charged
  <2>6. CASE g = s
    <3>1. passed'[<<a, g>>] = counted(passed[<<a, g>>] + amount)
      BY <1>2, <2>1, <2>6, Zenon
    <3>2. counted(passed[<<a, g>>] + amount) <= passed[<<a, g>>] + amount
          /\ counted(passed[<<a, g>>] + amount) \in Nat
      BY <1>3, <2>1, Counting
    <3>3. n = time[g] - back + amount
      BY <1>5, <2>4, <2>6, Zenon
    <3>4. time[a] <= time[g] + W
      BY <1>2, <1>6, <1>13, <2>6, TypeFacts, Zenon DEF IInv, Close
    <3>5. passed[<<a, g>>] + time[a] <= time[g] + W
      BY <2>1, <2>5, <3>4
    <3>6. counted(passed[<<a, g>>] + amount) + (time[a] - back) <= n + W
      BY <1>3, <2>1, <3>2, <3>3, <3>5
    <3>7. QED
      BY <2>2, <2>4, <3>1, <3>6, Zenon
  <2>7. CASE g # s
    <3>1. passed'[<<a, g>>] = passed[<<a, g>>]
      BY <1>2, <2>1, <2>7, Zenon
    <3>2. n >= time[g] - back
      BY <1>5, <2>1, <2>4, Zenon
    <3>3. passed[<<a, g>>] + (time[a] - back) <= n + W
      BY <2>1, <2>5, <3>1, <3>2
    <3>4. QED
      BY <2>2, <2>4, <3>1, <3>3, Zenon
  <2>8. QED
    BY <2>6, <2>7, Zenon
<1>14. QED
  BY <1>9, <1>10, <1>11, <1>12, <1>13, Zenon DEF IInv

(* The job sends the first of the queued flows, if there is one.            *)
LEMMA JobInv ==
    ASSUME IInv, schedule_job_handler
    PROVE  IInv'
<1>1. /\ schedule_job /\ schedule_job' = FALSE /\ previous_flow' = NoFlow
      /\ flows' = flows /\ time' = time /\ no_time' = no_time
  BY Zenon DEF schedule_job_handler
<1>2. \/ Queued # {} /\ schedule(first_flow(time, Queued), data_len)
      \/ /\ Queued = {} /\ sending_flow' = sending_flow /\ sending_len' = sending_len
         /\ data_len' = data_len /\ passed' = passed
  BY Zenon DEF schedule_job_handler
<1>3. /\ data_len \in [Flows -> NotQueued .. MTU] /\ sending_len \in 0 .. MTU
      /\ passed \in [Flows \X Flows -> Nat] /\ flows \subseteq Flows
      /\ time \in [Flows -> 0 .. MAX_TIME]
  BY Zenon DEF IInv, QueueTypeOK
<1>4. schedule_job' \in BOOLEAN /\ no_time' \in BOOLEAN
  BY <1>1, Zenon DEF IInv, QueueTypeOK
<1>5. sending_flow = NoFlow
  BY <1>1, Zenon DEF IInv, QueueMoves
<1>6. ASSUME Queued # {}, schedule(first_flow(time, Queued), data_len) PROVE IInv'
  <2> DEFINE s == first_flow(time, Queued)
  <2>1. /\ s \in Queued /\ s \in flows /\ s \in Flows /\ s # NoFlow
        /\ \A g \in Queued : time[s] <= time[g]
    BY <1>6, FirstFlow, TypeFacts, Zenon
  <2>2. /\ sending_flow' = s /\ sending_len' = data_len[s]
        /\ data_len' = [data_len EXCEPT ![s] = NotQueued]
        /\ passed' = [p \in Flows \X Flows |-> IF p[1] = s THEN 0 ELSE passed[p]]
    BY <1>6, Zenon DEF schedule
  <2> HIDE DEF s
  <2>3. Queued' = Queued \ {s}
    <3>1. \A g \in flows : data_len'[g] # NotQueued <=> g \in Queued \ {s}
      BY <1>3, <2>2, Zenon DEF Queued
    <3>2. \A g \in flows : g \in Queued' <=> data_len'[g] # NotQueued
      BY <1>1, Zenon DEF Queued
    <3>3. Queued' \subseteq flows /\ Queued \subseteq flows
      BY <1>1, Zenon DEF Queued
    <3>4. QED
      BY <3>1, <3>2, <3>3, Zenon
  <2>4. anchors' \subseteq anchors
    BY <1>1, <2>1, <2>2, <2>3, Zenon DEF anchors
  <2>5. QueueTypeOK'
    <3>1. NotQueued \in NotQueued .. MTU /\ data_len[s] \in 0 .. MTU
      <4>1. data_len[s] # NotQueued /\ data_len[s] \in NotQueued .. MTU /\ MTU \in Nat
        BY <1>3, <2>1, TypeFacts, Zenon DEF Queued
      <4>2. QED
        BY <4>1 DEF NotQueued
    <3>2. data_len' \in [Flows -> NotQueued .. MTU] /\ passed' \in [Flows \X Flows -> Nat]
      BY <1>3, <2>2, <3>1, Zenon
    <3>3. /\ sending_flow' \in flows' \union {NoFlow} /\ sending_len' \in 0 .. MTU
          /\ previous_flow' \in flows' \union {NoFlow} /\ flows' \subseteq Flows
          /\ time' \in [Flows -> 0 .. MAX_TIME]
      BY <1>1, <1>3, <2>1, <2>2, <3>1, Zenon
    <3>4. QED
      BY <1>4, <3>2, <3>3, Zenon DEF QueueTypeOK
  <2>6. QueueMoves' /\ SentFirst'
    BY <1>1, <2>1, <2>2, <2>3, Zenon DEF QueueMoves, SentFirst
  <2>7. OnlyWaiting'
    <3> SUFFICES ASSUME NEW a \in Flows, NEW g \in Flows, a \notin Queued' \/ g \notin flows
                 PROVE  passed'[<<a, g>>] = 0
      BY <1>1, Zenon DEF OnlyWaiting
    <3>1. CASE a = s
      BY <2>2, <3>1, Zenon
    <3>2. CASE a # s
      <4>1. passed[<<a, g>>] = 0
        BY <2>3, <3>2, Zenon DEF IInv, OnlyWaiting
      <4>2. QED
        BY <2>2, <3>2, <4>1, Zenon
    <3>3. QED
      BY <3>1, <3>2, Zenon
  <2>8. ~no_time' => Close'
    BY <1>1, <2>4, Zenon DEF IInv, Close
  <2>9. ~no_time' => Charged'
    <3> SUFFICES ASSUME ~no_time', NEW a \in Queued', NEW g \in flows, passed'[<<a, g>>] # 0
                 PROVE  passed'[<<a, g>>] + time[a] <= time[g] + W
      BY <1>1, Zenon DEF Charged
    <3>1. a \in Queued /\ a # s /\ a \in Flows /\ g \in Flows
      BY <2>3, TypeFacts, Zenon
    <3>2. passed'[<<a, g>>] = passed[<<a, g>>]
      BY <2>2, <3>1, Zenon
    <3>3. QED
      BY <1>1, <3>1, <3>2, Zenon DEF IInv, Charged
  <2>10. QED
    BY <2>5, <2>6, <2>7, <2>8, <2>9, Zenon DEF IInv
<1>7. ASSUME Queued = {}, sending_flow' = sending_flow, sending_len' = sending_len,
             data_len' = data_len, passed' = passed
      PROVE  IInv'
  <2>1. Queued' = {} /\ anchors' = {}
    BY <1>1, <1>5, <1>7, Zenon DEF Queued, anchors
  <2>2. QueueTypeOK'
    <3>1. /\ sending_flow' \in flows' \union {NoFlow} /\ sending_len' \in 0 .. MTU
          /\ previous_flow' \in flows' \union {NoFlow} /\ flows' \subseteq Flows
          /\ time' \in [Flows -> 0 .. MAX_TIME]
          /\ data_len' \in [Flows -> NotQueued .. MTU] /\ passed' \in [Flows \X Flows -> Nat]
      BY <1>1, <1>3, <1>5, <1>7, Zenon
    <3>2. QED
      BY <1>4, <3>1, Zenon DEF QueueTypeOK
  <2>3. QueueMoves' /\ SentFirst' /\ Close' /\ Charged'
    BY <1>1, <1>5, <1>7, <2>1, Zenon DEF QueueMoves, SentFirst, Close, Charged
  <2>4. OnlyWaiting'
    BY <1>1, <1>7, <2>1, Zenon DEF IInv, OnlyWaiting
  <2>5. QED
    BY <2>2, <2>3, <2>4, Zenon DEF IInv
<1>8. QED
  BY <1>2, <1>6, <1>7, Zenon

(* A new flow has the time 0 and no packet.                                 *)
LEMMA FlowInitInv ==
    ASSUME IInv, NEW f \in Flows, PacketPassFairQueueFlow_Init(f)
    PROVE  IInv'
<1>1. /\ f \notin flows /\ flows' = flows \union {f}
      /\ time' = [time EXCEPT ![f] = 0] /\ data_len' = [data_len EXCEPT ![f] = NotQueued]
      /\ sending_flow' = sending_flow /\ sending_len' = sending_len
      /\ previous_flow' = previous_flow /\ schedule_job' = schedule_job
      /\ passed' = passed /\ no_time' = no_time
  BY Zenon DEF PacketPassFairQueueFlow_Init
<1>2. /\ data_len \in [Flows -> NotQueued .. MTU] /\ sending_len \in 0 .. MTU
      /\ passed \in [Flows \X Flows -> Nat] /\ flows \subseteq Flows
      /\ time \in [Flows -> 0 .. MAX_TIME]
      /\ sending_flow \in flows \union {NoFlow} /\ previous_flow \in flows \union {NoFlow}
  BY Zenon DEF IInv, QueueTypeOK
<1>3. Queued' = Queued
  <2>1. \A g \in flows' : data_len'[g] # NotQueued <=> g \in Queued
    BY <1>1, <1>2, Zenon DEF Queued
  <2>2. \A g \in flows' : g \in Queued' <=> data_len'[g] # NotQueued
    BY Zenon DEF Queued
  <2>3. Queued' \subseteq flows' /\ Queued \subseteq flows'
    BY <1>1, Zenon DEF Queued
  <2>4. QED
    BY <2>1, <2>2, <2>3, Zenon
<1>4. anchors' = anchors /\ anchors \subseteq flows /\ Queued \subseteq flows
  BY <1>1, <1>3, TypeFacts, Zenon DEF anchors
<1>5. /\ time'[f] = 0 /\ \A g \in flows : time'[g] = time[g]
      /\ flows \subseteq Flows
  BY <1>1, <1>2, Zenon
<1>6. QueueTypeOK'
  <2>1. schedule_job' \in BOOLEAN /\ no_time' \in BOOLEAN
    BY <1>1, Zenon DEF IInv, QueueTypeOK
  <2>2. 0 \in 0 .. MAX_TIME /\ NotQueued \in NotQueued .. MTU
    BY TypeFacts DEF NotQueued
  <2>3. /\ sending_flow' \in flows' \union {NoFlow} /\ sending_len' \in 0 .. MTU
        /\ previous_flow' \in flows' \union {NoFlow} /\ flows' \subseteq Flows
        /\ time' \in [Flows -> 0 .. MAX_TIME]
        /\ data_len' \in [Flows -> NotQueued .. MTU] /\ passed' \in [Flows \X Flows -> Nat]
    BY <1>1, <1>2, <2>2, Zenon
  <2>4. QED
    BY <2>1, <2>3, Zenon DEF QueueTypeOK
<1>7. QueueMoves'
  BY <1>1, <1>3, Zenon DEF IInv, QueueMoves
<1>8. SentFirst'
  <2>1. sending_flow # NoFlow => sending_flow \in flows
    BY TypeFacts, Zenon
  <2>2. QED
    BY <1>1, <1>3, <1>4, <1>5, <2>1, Zenon DEF IInv, SentFirst
<1>9. OnlyWaiting'
  BY <1>1, <1>3, Zenon DEF IInv, OnlyWaiting
<1>10. ~no_time' => Close'
  <2> SUFFICES ASSUME ~no_time', NEW g \in flows', NEW c \in anchors
               PROVE  time'[g] <= time'[c] + W
    BY <1>4, Zenon DEF Close
  <2>1. time'[c] = time[c] /\ time[c] \in Nat /\ W \in Nat
    BY <1>4, <1>5, TypeFacts, Zenon
  <2>2. CASE g = f
    BY <1>5, <2>1, <2>2
  <2>3. CASE g # f
    <3>1. g \in flows /\ time'[g] = time[g]
      BY <1>1, <1>5, <2>3, Zenon
    <3>2. time[g] <= time[c] + W
      BY <1>1, <3>1, Zenon DEF IInv, Close
    <3>3. QED
      BY <2>1, <3>1, <3>2, Zenon
  <2>4. QED
    BY <2>2, <2>3, Zenon
<1>11. ~no_time' => Charged'
  <2> SUFFICES ASSUME ~no_time', NEW a \in Queued, NEW g \in flows', passed[<<a, g>>] # 0
               PROVE  passed[<<a, g>>] + time'[a] <= time'[g] + W
    BY <1>1, <1>3, Zenon DEF Charged
  <2>1. g \in flows
    BY <1>1, <1>2, TypeFacts, Zenon DEF IInv, OnlyWaiting
  <2>2. time'[a] = time[a] /\ time'[g] = time[g]
    BY <1>4, <1>5, <2>1, Zenon
  <2>3. QED
    BY <1>1, <2>1, <2>2, Zenon DEF IInv, Charged
<1>12. QED
  BY <1>6, <1>7, <1>8, <1>9, <1>10, <1>11, Zenon DEF IInv

(* A flow is freed: there are fewer anchors, and nobody else changes.       *)
LEMMA FlowFreeInv ==
    ASSUME IInv, NEW f \in Flows, PacketPassFairQueueFlow_Free(f)
    PROVE  IInv'
<1>1. /\ f \in flows /\ f # sending_flow /\ flows' = flows \ {f}
      /\ time' = [time EXCEPT ![f] = 0] /\ data_len' = [data_len EXCEPT ![f] = NotQueued]
      /\ sending_flow' = sending_flow /\ sending_len' = sending_len
      /\ previous_flow' = IF f = previous_flow THEN NoFlow ELSE previous_flow
      /\ schedule_job' = schedule_job /\ no_time' = no_time
  BY Zenon DEF PacketPassFairQueueFlow_Free
<1>2. passed' = [p \in Flows \X Flows |-> IF f \in {p[1], p[2]} THEN 0 ELSE passed[p]]
  BY Zenon DEF PacketPassFairQueueFlow_Free
<1>3. /\ data_len \in [Flows -> NotQueued .. MTU] /\ sending_len \in 0 .. MTU
      /\ passed \in [Flows \X Flows -> Nat] /\ flows \subseteq Flows
      /\ time \in [Flows -> 0 .. MAX_TIME]
      /\ sending_flow \in flows \union {NoFlow} /\ previous_flow \in flows \union {NoFlow}
  BY Zenon DEF IInv, QueueTypeOK
<1>4. Queued' = Queued \ {f}
  <2>1. \A g \in flows' : data_len'[g] # NotQueued <=> g \in Queued
    BY <1>1, <1>3, Zenon DEF Queued
  <2>2. \A g \in flows' : g \in Queued' <=> data_len'[g] # NotQueued
    BY Zenon DEF Queued
  <2>3. Queued' \subseteq flows' /\ Queued \ {f} \subseteq flows'
    BY <1>1, Zenon DEF Queued
  <2>4. QED
    BY <1>1, <2>1, <2>2, <2>3, Zenon
<1>5. /\ anchors' \subseteq anchors \ {f} /\ anchors' \subseteq flows
      /\ Queued \subseteq flows /\ \A g \in flows : g # f => time'[g] = time[g]
  <2>1. anchors' \subseteq anchors \ {f}
    BY <1>1, <1>4, Zenon DEF anchors
  <2>2. QED
    BY <1>1, <1>3, <2>1, TypeFacts, Zenon
<1>6. QueueTypeOK'
  <2>1. schedule_job' \in BOOLEAN /\ no_time' \in BOOLEAN
    BY <1>1, Zenon DEF IInv, QueueTypeOK
  <2>2. 0 \in 0 .. MAX_TIME /\ NotQueued \in NotQueued .. MTU
    BY TypeFacts DEF NotQueued
  <2>3. /\ sending_flow' \in flows' \union {NoFlow} /\ sending_len' \in 0 .. MTU
        /\ previous_flow' \in flows' \union {NoFlow} /\ flows' \subseteq Flows
        /\ time' \in [Flows -> 0 .. MAX_TIME]
        /\ data_len' \in [Flows -> NotQueued .. MTU]
    BY <1>1, <1>3, <2>2, Zenon
  <2>4. passed' \in [Flows \X Flows -> Nat]
    BY <1>2, <1>3, Zenon
  <2>5. QED
    BY <2>1, <2>3, <2>4, Zenon DEF QueueTypeOK
<1>7. QueueMoves'
  BY <1>1, <1>4, Zenon DEF IInv, QueueMoves
<1>8. SentFirst'
  <2>1. sending_flow # NoFlow => sending_flow \in flows
    BY TypeFacts, Zenon
  <2>2. QED
    BY <1>1, <1>4, <1>5, <2>1, Zenon DEF IInv, SentFirst
<1>9. OnlyWaiting'
  <2> SUFFICES ASSUME NEW a \in Flows, NEW g \in Flows, a \notin Queued' \/ g \notin flows'
               PROVE  passed'[<<a, g>>] = 0
    BY Zenon DEF OnlyWaiting
  <2>1. CASE a = f \/ g = f
    BY <1>2, <2>1, Zenon
  <2>2. CASE a # f /\ g # f
    <3>1. passed[<<a, g>>] = 0
      BY <1>1, <1>4, <2>2, Zenon DEF IInv, OnlyWaiting
    <3>2. QED
      BY <1>2, <2>2, <3>1, Zenon
  <2>3. QED
    BY <2>1, <2>2, Zenon
<1>10. ~no_time' => Close'
  <2> SUFFICES ASSUME ~no_time', NEW g \in flows', NEW c \in anchors'
               PROVE  time'[g] <= time'[c] + W
    BY Zenon DEF Close
  <2>1. time'[c] = time[c] /\ time'[g] = time[g] /\ g \in flows /\ c \in anchors
    BY <1>1, <1>5, Zenon
  <2>2. time[g] <= time[c] + W
    BY <1>1, <2>1, Zenon DEF IInv, Close
  <2>3. QED
    BY <2>1, <2>2, Zenon
<1>11. ~no_time' => Charged'
  <2> SUFFICES ASSUME ~no_time', NEW a \in Queued', NEW g \in flows', passed'[<<a, g>>] # 0
               PROVE  passed'[<<a, g>>] + time'[a] <= time'[g] + W
    BY Zenon DEF Charged
  <2>1. a \in Queued /\ a # f /\ g \in flows /\ g # f /\ a \in Flows /\ g \in Flows
    BY <1>1, <1>4, TypeFacts, Zenon
  <2>2. time'[a] = time[a] /\ time'[g] = time[g]
    BY <1>5, <2>1, Zenon
  <2>3. passed'[<<a, g>>] = passed[<<a, g>>]
    BY <1>2, <2>1, Zenon
  <2>4. QED
    BY <1>1, <2>1, <2>2, <2>3, Zenon DEF IInv, Charged
<1>12. QED
  BY <1>6, <1>7, <1>8, <1>9, <1>10, <1>11, Zenon DEF IInv
-----------------------------------------------------------------------------
(* The invariant holds in every state of the queue.                         *)
THEOREM Invariance == QueueSpec => []IInv
<1>1. ASSUME IInv, [QueueNext]_queueVars PROVE IInv'
  <2>1. ASSUME NEW f \in Flows, NEW len \in 0 .. MTU, input_handler_send(f, len) PROVE IInv'
    BY <1>1, <2>1, InputInv, Zenon
  <2>2. ASSUME NEW f \in Flows, PacketPassFairQueueFlow_Init(f) PROVE IInv'
    BY <1>1, <2>2, FlowInitInv, Zenon
  <2>3. ASSUME NEW f \in Flows, PacketPassFairQueueFlow_Free(f) PROVE IInv'
    BY <1>1, <2>3, FlowFreeInv, Zenon
  <2>4. CASE output_handler_done
    BY <1>1, <2>4, DoneInv, Zenon
  <2>5. CASE schedule_job_handler
    BY <1>1, <2>5, JobInv, Zenon
  <2>6. CASE UNCHANGED queueVars
    BY <1>1, <2>6, Zenon DEF queueVars, IInv, QueueTypeOK, QueueMoves, SentFirst, OnlyWaiting, Close,
                      Charged, anchors, Queued
  <2>7. QED
    BY <1>1, <2>1, <2>2, <2>3, <2>4, <2>5, <2>6, Zenon DEF QueueNext
<1>2. QED
  BY <1>1, InitInv, PTL DEF QueueSpec

(* Types: in particular no time ever overflows or goes below 0, for any     *)
(* number of packets (increment_sent_flow).                                 *)
THEOREM TimesInRange == QueueSpec => []QueueTypeOK
<1>1. IInv => QueueTypeOK
  BY Zenon DEF IInv
<1>2. QED
  BY <1>1, Invariance, PTL

(* The assertions of the queue's handlers hold, and a queued packet always  *)
(* has someone who will send it.                                            *)
THEOREM NeverForgets == QueueSpec => []QueueMoves
<1>1. IInv => QueueMoves
  BY Zenon DEF IInv
<1>2. QED
  BY <1>1, Invariance, PTL

(* While a flow waits, another is sent at most two packets of the largest   *)
(* size, unless a flow came when there was no current time.                 *)
THEOREM FairBetweenFlows == QueueSpec => []FairShare
<1>1. IInv => FairShare
  <2> SUFFICES ASSUME IInv, ~no_time, NEW f \in Queued, NEW g \in flows
               PROVE  passed[<<f, g>>] <= 2 * (packet_weight + MTU)
    BY Zenon DEF FairShare
  <2>1. f \in Flows /\ g \in Flows /\ time[f] \in Nat /\ time[g] \in Nat /\ W \in Nat
    BY TypeFacts, Zenon
  <2>2. passed[<<f, g>>] \in Nat
    BY <2>1, Zenon DEF IInv, QueueTypeOK
  <2>3. time[g] <= time[f] + W
    BY Zenon DEF IInv, Close, anchors
  <2>4. passed[<<f, g>>] = 0 \/ passed[<<f, g>>] + time[f] <= time[g] + W
    BY Zenon DEF IInv, Charged
  <2>5. QED
    BY <2>1, <2>2, <2>3, <2>4 DEF W
<1>2. QED
  BY <1>1, Invariance, PTL

(* Moving all times back at an overflow keeps who is ahead of whom.         *)
THEOREM ChargesExactly == QueueSpec => SentIsCharged
<1> DEFINE Exact == sending_flow # NoFlow /\ sending_flow' = NoFlow =>
                      \A f \in Queued : time'[f] - time'[sending_flow]
                             = time[f] - time[sending_flow] - (packet_weight + sending_len)
<1>1. ASSUME IInv, [QueueNext]_queueVars PROVE [Exact]_queueVars
  <2> SUFFICES ASSUME QueueNext, sending_flow # NoFlow, sending_flow' = NoFlow, NEW f \in Queued
               PROVE  time'[f] - time'[sending_flow]
                        = time[f] - time[sending_flow] - (packet_weight + sending_len)
    BY <1>1, Zenon DEF Exact
  <2>1. CASE output_handler_done
    <3> DEFINE amount == packet_weight + sending_len
    <3>1. time' = increment_sent_flow(sending_flow, amount)
      BY <2>1, Zenon DEF output_handler_done
    <3>2. amount \in 0 .. MAX_TIME /\ amount \in Nat
      BY <1>1, Amount, TypeFacts
    <3> HIDE DEF amount
    <3>3. PICK back \in Nat : /\ time'[sending_flow] = time[sending_flow] - back + amount
                              /\ time'[f] = time[f] - back
      BY <1>1, <3>1, <3>2, Charging
    <3>4. time[f] \in Nat /\ time[sending_flow] \in Nat
      BY <1>1, TypeFacts, Zenon
    <3>5. (time[f] - back) - (time[sending_flow] - back + amount)
            = time[f] - time[sending_flow] - amount
      BY <3>2, <3>4
    <3>6. QED
      BY <3>3, <3>5, Zenon DEF amount
  <2>2. CASE schedule_job_handler
    BY <1>1, <2>2, Zenon DEF schedule_job_handler, IInv, QueueMoves
  <2>3. CASE \E g \in Flows : \/ \E len \in 0 .. MTU : input_handler_send(g, len)
                             \/ PacketPassFairQueueFlow_Init(g)
                             \/ PacketPassFairQueueFlow_Free(g)
    BY <2>3, Zenon DEF input_handler_send, busy, PacketPassFairQueueFlow_Init,
                PacketPassFairQueueFlow_Free
  <2>4. QED
    BY <2>1, <2>2, <2>3, Zenon DEF QueueNext
<1>2. QED
  BY <1>1, Invariance, PTL DEF QueueSpec, SentIsCharged
-----------------------------------------------------------------------------
(* Every step of the link is a step of the queue or leaves it alone.        *)
LEMMA LinkQueueStep == [Next]_vars => [QueueNext]_queueVars
<1> SUFFICES ASSUME [Next]_vars PROVE QueueNext \/ UNCHANGED queueVars
  OBVIOUS
<1>1. CASE connect \/ disconnect \/ decoderDone
  BY <1>1, Zenon DEF connect, disconnect, decoderDone
<1>2. ASSUME NEW f \in Flows, NEW len \in 0 .. MTU - HEADER, submit(f, len)
      PROVE  QueueNext
  <2>1. HEADER + len \in 0 .. MTU
    BY LinkConstants, QueueConstants
  <2>2. input_handler_send(f, HEADER + len)
    BY <1>2, Zenon DEF submit
  <2>3. QED
    BY <2>1, <2>2, Zenon DEF QueueNext
<1>3. ASSUME NEW k \in 1 .. MTU, streamTakes(k) PROVE QueueNext \/ UNCHANGED queueVars
  BY <1>3, Zenon DEF streamTakes, QueueNext
<1>4. ASSUME NEW k \in 1 .. Len(wire), decoderReceives(k) PROVE UNCHANGED queueVars
  BY <1>4, Zenon DEF decoderReceives
<1>5. CASE flowChanges
  BY <1>5, Zenon DEF flowChanges, QueueNext
<1>6. CASE jobRuns
  BY <1>6, Zenon DEF jobRuns, QueueNext
<1>7. CASE UNCHANGED vars
  BY <1>7, Zenon DEF vars
<1>8. QED
  BY <1>1, <1>2, <1>3, <1>4, <1>5, <1>6, <1>7, Zenon DEF Next

(* The link uses the queue as the queue's specification says.               *)
THEOREM LinkIsQueue == Spec => QueueSpec
<1>1. Init => QueueInit
  BY Zenon DEF Init
<1>2. QED
  BY <1>1, LinkQueueStep, PTL DEF Spec, QueueSpec

(* So in the link, too, the queue is fair, keeps its assertions and charges *)
(* exactly what was sent.                                                   *)
THEOREM LinkIsFair == Spec => []FairShare /\ []QueueMoves /\ SentIsCharged
BY LinkIsQueue, FairBetweenFlows, NeverForgets, ChargesExactly, PTL
-----------------------------------------------------------------------------
Bytes == [flow : Nat, len : Nat, at : Nat]

(* The inductive invariant for the decoder: what it has lies in the buffer, *)
(* and does not reach its end while it receives.                            *)
DecoderInv ==
    /\ wire \in Seq(Bytes) /\ buf \in [0 .. buf_size - 1 -> Bytes]
    /\ in_used \in Nat /\ buf_start \in Nat /\ buf_used \in Nat
    /\ buf_start + buf_used <= buf_size
    /\ ~handing => buf_start + buf_used < buf_size

LEMMA SizeFacts == HEADER \in Nat \ {0} /\ output_mtu \in Nat /\ buf_size \in Nat /\ buf_size >= HEADER
BY LinkConstants DEF buf_size

LEMMA NoByteIsByte == NoByte \in Bytes
BY Zenon DEF NoByte, Byte, Bytes, NoFlow

LEMMA GoneInv == ASSUME streamGone PROVE DecoderInv'
<1>1. [i \in 0 .. buf_size - 1 |-> NoByte] \in [0 .. buf_size - 1 -> Bytes]
  BY NoByteIsByte, Zenon
<1>2. << >> \in Seq(Bytes)
  OBVIOUS
<1>3. QED
  BY <1>1, <1>2, SizeFacts DEF streamGone, DecoderInv, buf_size

(* process_data leaves room: if the buffer were full from its start, the    *)
(* packet in it would be whole or too large.                                *)
LEMMA ProcessInv ==
    ASSUME NEW b \in [0 .. buf_size - 1 -> Bytes], NEW s \in Nat, NEW u \in Nat, NEW w \in Seq(Bytes),
           s + u <= buf_size, in_used \in Nat, process_data(b, s, u, w)
    PROVE  DecoderInv'
<1>1. u >= HEADER => s \in 0 .. buf_size - 1 /\ b[s].len \in Nat
  <2> SUFFICES ASSUME u >= HEADER PROVE s \in 0 .. buf_size - 1 /\ b[s].len \in Nat
    OBVIOUS
  <2>1. s \in 0 .. buf_size - 1
    BY SizeFacts
  <2>2. b[s] \in Bytes
    BY <2>1, Zenon
  <2>3. QED
    BY <2>1, <2>2, Zenon DEF Bytes
<1>2. CASE streamGone
  BY <1>2, GoneInv, Zenon
<1>3. ASSUME u >= HEADER, u >= b[s].len,
             buf' = b, buf_start' = s + b[s].len, buf_used' = u - b[s].len,
             handing' = TRUE, wire' = w, in_used' = in_used
      PROVE  DecoderInv'
  <2>1. b[s].len \in Nat
    BY <1>1, <1>3, Zenon
  <2>2. PICK n \in Nat : n = b[s].len
    BY <2>1, Zenon
  <2>3. s + n \in Nat /\ u - n \in Nat /\ (s + n) + (u - n) <= buf_size
    <3>1. u >= n
      BY <1>3, <2>2, Zenon
    <3>2. QED
      BY <3>1, SizeFacts
  <2>4. buf_start' = s + n /\ buf_used' = u - n
    BY <1>3, <2>2, Zenon
  <2>5. buf_start' \in Nat /\ buf_used' \in Nat /\ buf_start' + buf_used' <= buf_size
    BY <2>3, <2>4, Zenon
  <2>6. QED
    BY <1>3, <2>5, Zenon DEF DecoderInv, buf_size
<1>4. ASSUME ~(u >= HEADER /\ (b[s].len - HEADER > output_mtu \/ u >= b[s].len)),
             buf' = IF wraps(s, u) THEN [i \in DOMAIN b |-> IF i < u THEN b[s + i] ELSE NoByte] ELSE b,
             buf_start' = IF wraps(s, u) THEN 0 ELSE s,
             buf_used' = u, handing' = FALSE, wire' = w, in_used' = in_used
      PROVE  DecoderInv'
  <2>1. u < buf_size
    <3> SUFFICES ASSUME u = buf_size PROVE FALSE
      BY SizeFacts
    <3>1. u >= HEADER
      BY SizeFacts, Zenon
    <3>2. PICK n \in Nat : n = b[s].len
      BY <1>1, <3>1, Zenon
    <3>3. n - HEADER <= output_mtu /\ n > u
      BY <1>4, <3>1, <3>2, SizeFacts
    <3>4. QED
      BY <3>3, SizeFacts DEF buf_size
  <2>2. CASE wraps(s, u)
    <3>1. buf_start' = 0 /\ s + u = buf_size
      BY <1>4, <2>2, Zenon DEF wraps
    <3>2. buf' \in [0 .. buf_size - 1 -> Bytes]
      <4>1. \A i \in 0 .. buf_size - 1 : (IF i < u THEN b[s + i] ELSE NoByte) \in Bytes
        <5> SUFFICES ASSUME NEW i \in 0 .. buf_size - 1, i < u PROVE b[s + i] \in Bytes
          BY NoByteIsByte, Zenon
        <5>1. s + i \in 0 .. buf_size - 1
          BY <3>1, SizeFacts
        <5>2. QED
          BY <5>1, Zenon
      <4>2. QED
        BY <1>4, <2>2, <4>1, Zenon
    <3>3. buf_start' \in Nat /\ buf_used' \in Nat /\ buf_start' + buf_used' < buf_size
      BY <1>4, <2>1, <3>1, SizeFacts
    <3>4. buf_start' + buf_used' <= buf_size
      BY <3>3, SizeFacts
    <3>5. QED
      BY <1>4, <3>2, <3>3, <3>4, Zenon DEF DecoderInv, buf_size
  <2>3. CASE ~wraps(s, u)
    <3>1. buf_start' = s /\ buf' = b /\ s + u < buf_size
      BY <1>4, <2>3, SizeFacts DEF wraps
    <3>2. QED
      BY <1>4, <3>1, SizeFacts, Zenon DEF DecoderInv, buf_size
  <2>4. QED
    BY <2>2, <2>3, Zenon
<1>5. QED
  BY <1>2, <1>3, <1>4, Zenon DEF process_data

(* The stream takes bytes of the packet that is being sent.                 *)
LEMMA TakesInv ==
    ASSUME IInv, DecoderInv, NEW k \in 1 .. MTU, streamTakes(k)
    PROVE  DecoderInv'
<1> DEFINE piece == [i \in 1 .. k |-> Byte(sending_flow, sending_len, in_used + i - 1)]
<1>1. /\ wire' = wire \o piece /\ buf' = buf /\ buf_start' = buf_start /\ buf_used' = buf_used
      /\ handing' = handing
  BY Zenon DEF streamTakes, decoderVars
<1>2. k \in Nat /\ sending_len \in Nat /\ sending_flow \in Nat /\ in_used \in Nat
  <2>1. sending_len \in 0 .. MTU /\ sending_flow \in flows \union {NoFlow} /\ flows \subseteq Flows
    BY Zenon DEF IInv, QueueTypeOK
  <2>2. QED
    BY <2>1, QueueConstants DEF DecoderInv, NoFlow
<1>3. \A i \in 1 .. k : Byte(sending_flow, sending_len, in_used + i - 1) \in Bytes
  BY <1>2 DEF Byte, Bytes
<1>4. piece \in Seq(Bytes)
  BY <1>2, <1>3
<1>5. wire' \in Seq(Bytes)
  BY <1>1, <1>4 DEF DecoderInv
<1>6. in_used' \in Nat
  BY <1>2 DEF streamTakes
<1>7. QED
  BY <1>1, <1>5, <1>6, Zenon DEF DecoderInv, buf_size

(* Bytes arrive in the free part of the buffer.                             *)
LEMMA ReceivesInv ==
    ASSUME DecoderInv, NEW k \in 1 .. Len(wire), decoderReceives(k)
    PROVE  DecoderInv'
<1> DEFINE end == buf_start + buf_used
           b == [i \in DOMAIN buf |-> IF i \in end .. end + k - 1 THEN wire[i - end + 1] ELSE buf[i]]
           w == SubSeq(wire, k + 1, Len(wire))
<1>1. k <= buf_size - (buf_start + buf_used) /\ process_data(b, buf_start, buf_used + k, w)
  BY Zenon DEF decoderReceives
<1>2. /\ wire \in Seq(Bytes) /\ Len(wire) \in Nat /\ k \in Nat
      /\ buf_start \in Nat /\ buf_used \in Nat /\ end \in Nat /\ in_used \in Nat
      /\ buf \in [0 .. buf_size - 1 -> Bytes]
  BY DEF DecoderInv
<1>3. b \in [0 .. buf_size - 1 -> Bytes]
  <2>1. \A i \in 0 .. buf_size - 1 :
           (IF i \in end .. end + k - 1 THEN wire[i - end + 1] ELSE buf[i]) \in Bytes
    <3> SUFFICES ASSUME NEW i \in 0 .. buf_size - 1, i \in end .. end + k - 1
                 PROVE  wire[i - end + 1] \in Bytes
      BY <1>2, Zenon
    <3> HIDE DEF end
    <3>1. i - end + 1 \in 1 .. Len(wire)
      BY <1>2
    <3>2. QED
      BY <1>2, <3>1
  <2>2. QED
    BY <1>2, <2>1, Zenon
<1>4. w \in Seq(Bytes)
  BY <1>2, SubSeqProperties
<1>5. buf_used + k \in Nat /\ buf_start + (buf_used + k) <= buf_size
  BY <1>1, <1>2, SizeFacts
<1> HIDE DEF b, w
<1>6. QED
  BY <1>1, <1>2, <1>3, <1>4, <1>5, ProcessInv, Zenon

LEMMA DecoderInit == Init => DecoderInv
<1> SUFFICES ASSUME Init PROVE DecoderInv
  OBVIOUS
<1>1. [i \in 0 .. buf_size - 1 |-> NoByte] \in [0 .. buf_size - 1 -> Bytes]
  BY NoByteIsByte, Zenon
<1>2. << >> \in Seq(Bytes)
  OBVIOUS
<1>3. QED
  BY <1>1, <1>2, SizeFacts DEF Init, DecoderInv

LEMMA DecoderNext == ASSUME IInv, DecoderInv, [Next]_vars PROVE DecoderInv'
<1>1. ASSUME UNCHANGED <<in_used, wire, decoderVars>> PROVE DecoderInv'
  BY <1>1, Zenon DEF decoderVars, DecoderInv, buf_size
<1>2. CASE connect
  BY <1>1, <1>2, Zenon DEF connect
<1>3. CASE disconnect
  BY <1>3, GoneInv, Zenon DEF disconnect
<1>4. ASSUME NEW f \in Flows, NEW len \in 0 .. MTU - HEADER, submit(f, len) PROVE DecoderInv'
  BY <1>1, <1>4, Zenon DEF submit, streamVars
<1>5. ASSUME NEW k \in 1 .. MTU, streamTakes(k) PROVE DecoderInv'
  BY <1>5, TakesInv, Zenon
<1>6. ASSUME NEW k \in 1 .. Len(wire), decoderReceives(k) PROVE DecoderInv'
  BY <1>6, ReceivesInv, Zenon
<1>7. CASE decoderDone
  BY <1>7, ProcessInv, Zenon DEF decoderDone, DecoderInv
<1>8. CASE flowChanges
  BY <1>1, <1>8, Zenon DEF flowChanges, streamVars
<1>9. CASE jobRuns
  BY <1>1, <1>9, Zenon DEF jobRuns, streamVars
<1>10. CASE UNCHANGED vars
  BY <1>1, <1>10, Zenon DEF vars, streamVars
<1>11. QED
  BY <1>2, <1>3, <1>4, <1>5, <1>6, <1>7, <1>8, <1>9, <1>10, Zenon DEF Next

(* The decoder never asks the stream for 0 bytes, whatever the sizes of the *)
(* packets, of the buffer and of the pieces in which they arrive.           *)
THEOREM DecoderHasRoom == Spec => []RoomToReceive
<1>1. DecoderInv => RoomToReceive
  BY Zenon DEF DecoderInv, RoomToReceive
<1>2. QED
  BY <1>1, DecoderInit, DecoderNext, LinkIsQueue, Invariance, PTL DEF Spec
-----------------------------------------------------------------------------
(* The decoder stays in step.                                               *)

(* The bytes that a decoder with n bytes of b from s has and those of w,    *)
(* which follow.                                                            *)
Left(b, s, n, w) == [i \in 1 .. n + Len(w) |-> IF i <= n THEN b[s + i - 1] ELSE w[i - n]]

(* The N bytes of u are those of whole packets from the first byte of one   *)
(* on: a byte is followed by the rest of its packet, as far as u goes, and  *)
(* the last one of a packet by the first of another.                        *)
IsByte(x) == x \in Bytes /\ x.at < x.len
Starts(N, u) == N > 0 => u[1].at = 0
GoesOn(N, u) ==
    \A i, j \in 1 .. N : i <= j /\ j - i < u[i].len - u[i].at =>
        u[j] = Byte(u[i].flow, u[i].len, u[i].at + (j - i))
Joins(N, u) == \A i \in 1 .. N : i < N /\ u[i].at = u[i].len - 1 => u[i + 1].at = 0
(* Only the packet f of length l, of which iu bytes were sent, is not       *)
(* complete.                                                                *)
Stops(N, u, f, l, iu) ==
    /\ iu = 0 => (N > 0 => u[N].at = u[N].len - 1)
    /\ iu # 0 => N > 0 /\ u[N] = Byte(f, l, iu - 1) /\ f # NoFlow /\ iu < l

InStep(N, u, f, l, iu) ==
    /\ \A i \in 1 .. N : IsByte(u[i])
    /\ Starts(N, u) /\ GoesOn(N, u) /\ Joins(N, u) /\ Stops(N, u, f, l, iu)

LEMMA ByteFields ==
  ASSUME NEW f, NEW l, NEW a
  PROVE  /\ Byte(f, l, a).flow = f /\ Byte(f, l, a).len = l /\ Byte(f, l, a).at = a
         /\ f \in Nat /\ l \in Nat /\ a \in Nat => Byte(f, l, a) \in Bytes
  BY DEF Byte, Bytes

LEMMA ByteTypes ==
  ASSUME NEW x, IsByte(x)
  PROVE  x.flow \in Nat /\ x.len \in Nat /\ x.at \in Nat /\ x.at < x.len
  BY DEF IsByte, Bytes

(* Only the first N bytes matter.                                           *)
LEMMA StepSame ==
  ASSUME NEW N \in Nat, NEW u, NEW v, \A i \in 1 .. N : v[i] = u[i],
         NEW f, NEW l, NEW iu, InStep(N, u, f, l, iu)
  PROVE  InStep(N, v, f, l, iu)
<1>1. \A i \in 1 .. N : IsByte(v[i])
  BY DEF InStep
<1>2. Starts(N, v)
  BY DEF InStep, Starts
<1>3. GoesOn(N, v)
  BY DEF InStep, GoesOn
<1>4. Joins(N, v)
  BY DEF InStep, Joins
<1>5. Stops(N, v, f, l, iu)
  BY DEF InStep, Stops
<1> QED  BY <1>1, <1>2, <1>3, <1>4, <1>5 DEF InStep

(* A whole packet is handed on: after it comes the first byte of another.   *)
LEMMA StepHanded ==
  ASSUME NEW N \in Nat \ {0}, NEW u, NEW L, L = u[1].len, L <= N,
         NEW f, NEW l \in Nat, NEW iu \in Nat, InStep(N, u, f, l, iu),
         NEW v, \A i \in 1 .. N - L : v[i] = u[L + i]
  PROVE  InStep(N - L, v, f, l, iu)
<1>0. L \in Nat \ {0} /\ u[1].at = 0 /\ u[1].flow \in Nat
  <2>1. IsByte(u[1]) /\ u[1].at = 0
    BY DEF InStep, Starts
  <2> QED  BY <2>1, ByteTypes
<1>1. u[L] = Byte(u[1].flow, L, L - 1) /\ L \in 1 .. N
  BY <1>0 DEF InStep, GoesOn
<1>2. u[L].at = u[L].len - 1
  BY <1>1, ByteFields
<1>3. \A i \in 1 .. N - L : L + i \in 1 .. N /\ v[i] = u[L + i]
  BY <1>0
<1>4. \A i \in 1 .. N - L : IsByte(v[i])
  BY <1>3 DEF InStep
<1>5. Starts(N - L, v)
  BY <1>0, <1>1, <1>2 DEF InStep, Starts, Joins
<1>6. GoesOn(N - L, v)
  <2> SUFFICES ASSUME NEW i \in 1 .. N - L, NEW j \in 1 .. N - L, i <= j, j - i < v[i].len - v[i].at
               PROVE  v[j] = Byte(v[i].flow, v[i].len, v[i].at + (j - i))
    BY DEF GoesOn
  <2>1. L + i \in 1 .. N /\ L + j \in 1 .. N /\ L + i <= L + j /\ (L + j) - (L + i) = j - i
    BY <1>0
  <2>2. v[i] = u[L + i] /\ v[j] = u[L + j]
    BY <1>3
  <2> QED  BY <2>1, <2>2 DEF InStep, GoesOn
<1>7. Joins(N - L, v)
  <2> SUFFICES ASSUME NEW i \in 1 .. N - L, i < N - L, v[i].at = v[i].len - 1
               PROVE  v[i + 1].at = 0
    BY DEF Joins
  <2>1. L + i \in 1 .. N /\ L + i < N /\ i + 1 \in 1 .. N - L /\ L + (i + 1) = (L + i) + 1
    BY <1>0
  <2>2. v[i] = u[L + i] /\ v[i + 1] = u[(L + i) + 1]
    BY <1>3, <2>1
  <2> QED  BY <2>1, <2>2 DEF InStep, Joins
<1>8. Stops(N - L, v, f, l, iu)
  <2>1. CASE N = L
    <3>1. iu = 0
      <4> SUFFICES ASSUME iu # 0  PROVE FALSE
        OBVIOUS
      <4>1. u[N] = Byte(f, l, iu - 1) /\ iu < l
        BY DEF InStep, Stops
      <4> QED  BY <1>2, <2>1, <4>1, ByteFields
    <3> QED  BY <2>1, <3>1 DEF Stops
  <2>2. CASE N # L
    <3>1. N - L \in 1 .. N - L /\ v[N - L] = u[N]
      BY <1>0, <1>3, <2>2
    <3> QED  BY <3>1 DEF InStep, Stops
  <2> QED  BY <2>1, <2>2
<1> QED  BY <1>4, <1>5, <1>6, <1>7, <1>8 DEF InStep

(* The stream takes k bytes more of the packet that is being sent.          *)
(* v is u with k bytes of a packet after it, from its byte iu on.           *)
Lengthens(N, u, k, v, f, l, iu) ==
    /\ \A i \in 1 .. N : v[i] = u[i]
    /\ \A m \in 1 .. k : v[N + m] = Byte(f, l, iu + m - 1)

LEMMA StepTaken ==
  ASSUME NEW N \in Nat, NEW u, NEW f \in Nat, f # NoFlow, NEW l \in Nat, NEW iu \in Nat,
         InStep(N, u, f, l, iu), NEW k \in Nat \ {0}, iu + k <= l,
         NEW v, Lengthens(N, u, k, v, f, l, iu)
  PROVE  /\ iu + k < l => InStep(N + k, v, f, l, iu + k)
         /\ iu + k = l => \A g, n : InStep(N + k, v, g, n, 0)
<1>0. /\ \A i \in 1 .. N : v[i] = u[i]
      /\ \A m \in 1 .. k : v[N + m] = Byte(f, l, iu + m - 1)
  BY Zenon DEF Lengthens
<1>1. \A i \in N + 1 .. N + k : v[i] = Byte(f, l, iu + (i - N) - 1)
  <2> TAKE i \in N + 1 .. N + k
  <2>1. i - N \in 1 .. k /\ N + (i - N) = i
    OBVIOUS
  <2> QED  BY <1>0, <2>1
<1>2. \A i \in N + 1 .. N + k : v[i].flow = f /\ v[i].len = l /\ v[i].at = iu + (i - N) - 1
  BY <1>1, ByteFields
<1>3. \A i \in 1 .. N : v[i] = u[i] /\ IsByte(u[i])
  BY <1>0 DEF InStep
<1>4. \A i \in 1 .. N + k : IsByte(v[i])
  <2> TAKE i \in 1 .. N + k
  <2>1. CASE i <= N
    BY <1>3, <2>1
  <2>2. CASE i > N
    <3>1. i \in N + 1 .. N + k /\ iu + (i - N) - 1 \in Nat /\ iu + (i - N) - 1 < l
      BY <2>2
    <3>2. v[i] \in Bytes
      BY <1>1, <3>1, ByteFields
    <3> QED  BY <1>2, <3>1, <3>2 DEF IsByte
  <2> QED  BY <2>1, <2>2
<1>5. Starts(N + k, v)
  <2>1. CASE N = 0
    <3>1. iu = 0 /\ 1 \in N + 1 .. N + k
      BY <2>1 DEF InStep, Stops
    <3> QED  BY <1>2, <2>1, <3>1 DEF Starts
  <2>2. CASE N # 0
    BY <1>3, <2>2 DEF InStep, Starts
  <2> QED  BY <2>1, <2>2
<1>6. GoesOn(N + k, v)
  <2> SUFFICES ASSUME NEW i \in 1 .. N + k, NEW j \in 1 .. N + k, i <= j, j - i < v[i].len - v[i].at
               PROVE  v[j] = Byte(v[i].flow, v[i].len, v[i].at + (j - i))
    BY DEF GoesOn
  <2>1. CASE j <= N
    BY <1>3, <2>1 DEF InStep, GoesOn
  <2>2. CASE i > N
    <3>1. i \in N + 1 .. N + k /\ j \in N + 1 .. N + k
      BY <2>2
    <3>2. (iu + (i - N) - 1) + (j - i) = iu + (j - N) - 1
      OBVIOUS
    <3> QED  BY <1>1, <1>2, <3>1, <3>2
  <2>3. CASE i <= N /\ j > N
    <3>0. i \in 1 .. N /\ N \in 1 .. N /\ j \in N + 1 .. N + k /\ v[i] = u[i]
      BY <1>3, <2>3
    <3>1. u[i].flow \in Nat /\ u[i].len \in Nat /\ u[i].at \in Nat
      BY <1>3, <3>0, ByteTypes
    <3>2. i <= N /\ N - i < u[i].len - u[i].at
      BY <3>0, <3>1
    <3>3. u[N] = Byte(u[i].flow, u[i].len, u[i].at + (N - i))
      BY <3>0, <3>2 DEF InStep, GoesOn
    <3>4. u[N].flow = u[i].flow /\ u[N].len = u[i].len /\ u[N].at = u[i].at + (N - i)
      BY <3>3, ByteFields
    <3>5. u[N].at # u[N].len - 1
      BY <3>0, <3>1, <3>4
    <3>6. u[N] = Byte(f, l, iu - 1)
      BY <3>0, <3>5 DEF InStep, Stops
    <3>7. u[i].flow = f /\ u[i].len = l /\ u[i].at + (N - i) = iu - 1
      BY <3>4, <3>6, ByteFields
    <3>8. u[i].at + (j - i) = iu + (j - N) - 1
      <4>1. \A a \in Nat : a + (N - i) = iu - 1 => a + (j - i) = iu + (j - N) - 1
        OBVIOUS
      <4> QED  BY <3>1, <3>7, <4>1, Zenon
    <3> QED  BY <1>1, <3>0, <3>7, <3>8
  <2> QED  BY <2>1, <2>2, <2>3
<1>7. Joins(N + k, v)
  <2> SUFFICES ASSUME NEW i \in 1 .. N + k, i < N + k, v[i].at = v[i].len - 1
               PROVE  v[i + 1].at = 0
    BY DEF Joins
  <2>1. CASE i < N
    <3>1. i \in 1 .. N /\ i + 1 \in 1 .. N
      BY <2>1
    <3> QED  BY <1>3, <2>1, <3>1 DEF InStep, Joins
  <2>2. CASE i = N
    <3>1. N \in 1 .. N /\ v[N] = u[N] /\ N + 1 \in N + 1 .. N + k
      BY <1>3, <2>2
    <3>2. iu = 0
      <4> SUFFICES ASSUME iu # 0  PROVE FALSE
        OBVIOUS
      <4>1. u[N] = Byte(f, l, iu - 1) /\ iu < l
        BY DEF InStep, Stops
      <4> QED  BY <2>2, <3>1, <4>1, ByteFields
    <3> QED  BY <1>2, <2>2, <3>1, <3>2
  <2>3. CASE i > N
    <3>1. i \in N + 1 .. N + k
      BY <2>3
    <3> QED  BY <1>2, <3>1
  <2> QED  BY <2>1, <2>2, <2>3
<1>8. N + k \in N + 1 .. N + k /\ N + k > 0 /\ iu + ((N + k) - N) - 1 = iu + k - 1
  OBVIOUS
<1>9. v[N + k] = Byte(f, l, iu + k - 1)
  BY <1>1, <1>8
<1>10. iu + k < l => Stops(N + k, v, f, l, iu + k)
  BY <1>8, <1>9 DEF Stops
<1>11. ASSUME iu + k = l, NEW g, NEW n  PROVE Stops(N + k, v, g, n, 0)
  BY <1>9, <1>11, ByteFields DEF Stops
<1> QED  BY <1>4, <1>5, <1>6, <1>7, <1>10, <1>11 DEF InStep

LEMMA StepEmpty ==
  ASSUME NEW u, NEW f, NEW l
  PROVE  InStep(0, u, f, l, 0)
<1>1. 1 .. 0 = {}
  OBVIOUS
<1> QED  BY <1>1 DEF InStep, Starts, GoesOn, Joins, Stops

(* While no packet is being sent it does not matter which is next.          *)
LEMMA StepIdle ==
  ASSUME NEW N, NEW u, NEW f, NEW l, InStep(N, u, f, l, 0), NEW g, NEW n
  PROVE  InStep(N, u, g, n, 0)
  BY DEF InStep, Stops
-----------------------------------------------------------------------------
(* The inductive invariant, of the buffer, the stream and the sender.       *)
Held(b, s, n, w, f, l, iu) == InStep(n + Len(w), Left(b, s, n, w), f, l, iu)
StepInv == Held(buf, buf_start, buf_used, wire, sending_flow, sending_len, in_used)

LEMMA StepPrimed ==
  ASSUME Held(buf', buf_start', buf_used', wire', sending_flow', sending_len', in_used')
  PROVE  StepInv'
<1>1. PICK b, s, n, w, f, l, iu : /\ b = buf' /\ s = buf_start' /\ n = buf_used' /\ w = wire'
                                  /\ f = sending_flow' /\ l = sending_len' /\ iu = in_used'
  BY Zenon
<1>2. Held(b, s, n, w, f, l, iu)
  BY <1>1, Zenon
<1> QED  BY <1>1, <1>2, Zenon
         DEF StepInv, Held, InStep, Left, Starts, GoesOn, Joins, Stops, IsByte, Bytes, Byte, NoFlow

(* process_data hands a whole packet on, or moves what it has to the front. *)
LEMMA ProcessStep ==
  ASSUME NEW b \in [0 .. buf_size - 1 -> Bytes], NEW s \in Nat, NEW u \in Nat, NEW w \in Seq(Bytes),
         s + u <= buf_size, in_used \in Nat, sending_len \in Nat, process_data(b, s, u, w),
         Held(b, s, u, w, sending_flow, sending_len, in_used),
         UNCHANGED <<sending_flow, sending_len>>
  PROVE  StepInv'
<1> DEFINE N == u + Len(w)
           x == Left(b, s, u, w)
<1>0. N \in Nat /\ Len(w) \in Nat /\ InStep(N, x, sending_flow, sending_len, in_used)
  <2>1. Len(w) \in Nat
    OBVIOUS
  <2>2. N \in Nat
    BY <2>1
  <2> QED  BY <2>1, <2>2, Zenon DEF Held
<1>1. \A i \in 1 .. N : x[i] = IF i <= u THEN b[s + i - 1] ELSE w[i - u]
  BY Zenon DEF Left
<1> HIDE DEF x
<1>2. CASE streamGone
  <2>1. /\ buf_start' = 0 /\ buf_used' = 0 /\ wire' = <<>> /\ in_used' = 0
        /\ sending_flow' = sending_flow /\ sending_len' = sending_len
    BY <1>2, Zenon DEF streamGone
  <2>2. 0 + Len(<<>>) = 0
    OBVIOUS
  <2>3. Held(buf', 0, 0, <<>>, sending_flow, sending_len, 0)
    BY <2>2, StepEmpty, Zenon DEF Held
  <2>4. Held(buf', buf_start', buf_used', wire', sending_flow', sending_len', in_used')
    BY <2>1, <2>3, Zenon
  <2> QED  BY <2>4, StepPrimed, Zenon
<1>3. ASSUME u >= HEADER, u >= b[s].len,
             buf' = b, buf_start' = s + b[s].len, buf_used' = u - b[s].len,
             wire' = w, in_used' = in_used
      PROVE  StepInv'
  <2>1. u \in Nat \ {0} /\ N \in Nat \ {0} /\ x[1] = b[s]
    BY <1>0, <1>1, <1>3, SizeFacts
  <2>2. PICK L : L = b[s].len
    BY Zenon
  <2>3. L \in Nat /\ L <= u /\ L = x[1].len
    <3>1. s \in 0 .. buf_size - 1
      BY <2>1, SizeFacts
    <3>2. b[s] \in Bytes
      BY <3>1, Zenon
    <3>3. b[s].len \in Nat
      BY <3>2 DEF Bytes
    <3> QED  BY <1>3, <2>1, <2>2, <3>3, Zenon
  <2> DEFINE v == Left(b, s + L, u - L, w)
  <2>4. N - L = (u - L) + Len(w) /\ L <= N
    BY <1>0, <2>3
  <2>5. \A i \in 1 .. N - L : v[i] = x[L + i]
    <3> TAKE i \in 1 .. N - L
    <3>1. v[i] = IF i <= u - L THEN b[(s + L) + i - 1] ELSE w[i - (u - L)]
      BY <2>4, Zenon DEF Left
    <3>2. L + i \in 1 .. N /\ (L + i <= u <=> i <= u - L) /\ s + (L + i) - 1 = (s + L) + i - 1
          /\ (L + i) - u = i - (u - L)
      <4> HIDE DEF N
      <4>1. i \in Nat /\ 1 <= i /\ i <= N - L /\ L \in Nat
        BY <1>0, <2>3
      <4>2. L + i \in 1 .. N
        BY <1>0, <4>1
      <4>3. s + (L + i) - 1 = (s + L) + i - 1 /\ (L + i) - u = i - (u - L)
        BY <4>1
      <4>4. (L + i <= u => i <= u - L) /\ (i <= u - L => L + i <= u)
        BY <4>1
      <4> QED  BY <4>2, <4>3, <4>4, Zenon
    <3> QED  BY <1>1, <3>1, <3>2, Zenon
  <2> HIDE DEF v
  <2>6. InStep(N - L, v, sending_flow, sending_len, in_used)
    BY <1>0, <2>1, <2>3, <2>4, <2>5, StepHanded, Zenon
  <2>7. Held(b, s + L, u - L, w, sending_flow, sending_len, in_used)
    BY <2>4, <2>6, Zenon DEF Held, v
  <2>8. Held(buf', buf_start', buf_used', wire', sending_flow', sending_len', in_used')
    BY <1>3, <2>2, <2>7, Zenon
  <2> QED  BY <2>8, StepPrimed, Zenon
<1>4. ASSUME buf' = IF wraps(s, u) THEN [i \in DOMAIN b |-> IF i < u THEN b[s + i] ELSE NoByte] ELSE b,
             buf_start' = IF wraps(s, u) THEN 0 ELSE s,
             buf_used' = u, wire' = w, in_used' = in_used
      PROVE  StepInv'
  <2>1. CASE ~wraps(s, u)
    <3>1. Held(buf', buf_start', buf_used', wire', sending_flow', sending_len', in_used')
      BY <1>4, <2>1, Zenon
    <3> QED  BY <3>1, StepPrimed, Zenon
  <2>2. CASE wraps(s, u)
    <3> DEFINE c == [i \in 0 .. buf_size - 1 |-> IF i < u THEN b[s + i] ELSE NoByte]
               v == Left(c, 0, u, w)
    <3>1. \A i \in 1 .. N : v[i] = x[i]
      <4> TAKE i \in 1 .. N
      <4>1. v[i] = IF i <= u THEN c[0 + i - 1] ELSE w[i - u]
        BY Zenon DEF Left
      <4>2. CASE i <= u
        <5>1. i - 1 \in 0 .. buf_size - 1 /\ i - 1 < u /\ 0 + i - 1 = i - 1 /\ s + (i - 1) = s + i - 1
          BY <4>2, SizeFacts
        <5>2. c[i - 1] = b[s + (i - 1)]
          BY <5>1, Zenon
        <5> QED  BY <1>1, <4>1, <4>2, <5>1, <5>2, Zenon
      <4>3. CASE ~(i <= u)
        BY <1>1, <4>1, <4>3, Zenon
      <4> QED  BY <4>2, <4>3, Zenon
    <3> HIDE DEF v
    <3>2. InStep(N, v, sending_flow, sending_len, in_used)
      BY <1>0, <3>1, StepSame, Zenon
    <3>3. Held(c, 0, u, w, sending_flow, sending_len, in_used)
      BY <3>2, Zenon DEF Held, v
    <3>4. buf' = c /\ buf_start' = 0
      BY <1>4, <2>2, Zenon
    <3> HIDE DEF c
    <3>5. Held(buf', buf_start', buf_used', wire', sending_flow', sending_len', in_used')
      BY <1>4, <3>3, <3>4, Zenon
    <3> QED  BY <3>5, StepPrimed, Zenon
  <2> QED  BY <2>1, <2>2, Zenon
<1> QED  BY <1>2, <1>3, <1>4, Zenon DEF process_data

(* Bytes go from the stream to the buffer.                                  *)
LEMMA ReceivesStep ==
  ASSUME IInv, DecoderInv, StepInv, NEW k \in 1 .. Len(wire), decoderReceives(k)
  PROVE  StepInv'
<1> DEFINE end == buf_start + buf_used
           b == [i \in DOMAIN buf |-> IF i \in end .. end + k - 1 THEN wire[i - end + 1] ELSE buf[i]]
           w == SubSeq(wire, k + 1, Len(wire))
           N == buf_used + Len(wire)
           x == Left(buf, buf_start, buf_used, wire)
           v == Left(b, buf_start, buf_used + k, w)
<1>1. /\ k <= buf_size - (buf_start + buf_used) /\ process_data(b, buf_start, buf_used + k, w)
      /\ UNCHANGED <<sending_flow, sending_len>>
  BY Zenon DEF decoderReceives, queueVars
<1>2. /\ wire \in Seq(Bytes) /\ Len(wire) \in Nat /\ k \in Nat /\ N \in Nat
      /\ buf_start \in Nat /\ buf_used \in Nat /\ end \in Nat /\ in_used \in Nat
      /\ buf \in [0 .. buf_size - 1 -> Bytes]
  BY DEF DecoderInv
<1>3. b \in [0 .. buf_size - 1 -> Bytes]
  <2>1. \A i \in 0 .. buf_size - 1 :
           (IF i \in end .. end + k - 1 THEN wire[i - end + 1] ELSE buf[i]) \in Bytes
    <3> SUFFICES ASSUME NEW i \in 0 .. buf_size - 1, i \in end .. end + k - 1
                 PROVE  wire[i - end + 1] \in Bytes
      BY <1>2, Zenon
    <3> HIDE DEF end
    <3>1. i - end + 1 \in 1 .. Len(wire)
      BY <1>2
    <3> QED  BY <1>2, <3>1
  <2> QED  BY <1>2, <2>1, Zenon
<1>4. w \in Seq(Bytes) /\ Len(w) = Len(wire) - k /\ \A i \in 1 .. Len(wire) - k : w[i] = wire[k + i]
  BY <1>2
<1>5. buf_used + k \in Nat /\ buf_start + (buf_used + k) <= buf_size
  BY <1>1, <1>2, SizeFacts
<1>6. \A i \in 0 .. buf_size - 1 :
        b[i] = IF i \in end .. end + k - 1 THEN wire[i - end + 1] ELSE buf[i]
  BY <1>2, Zenon
<1>7. (buf_used + k) + Len(w) = N
  <2>1. k \in Nat /\ buf_used \in Nat /\ Len(wire) \in Nat
    BY <1>2, Zenon
  <2>2. \A n \in Nat : (buf_used + k) + (n - k) = buf_used + n
    BY <2>1
  <2> QED  BY <1>4, <2>1, <2>2, Zenon
<1>8. \A i \in 1 .. N : v[i] = x[i]
  <2> TAKE i \in 1 .. N
  <2>1. x[i] = IF i <= buf_used THEN buf[buf_start + i - 1] ELSE wire[i - buf_used]
    BY Zenon DEF Left
  <2>2. v[i] = IF i <= buf_used + k THEN b[buf_start + i - 1] ELSE w[i - (buf_used + k)]
    BY <1>7, Zenon DEF Left
  <2> HIDE DEF b, w, v, x
  <2>3. CASE i <= buf_used
    <3>1. buf_start + i - 1 \in 0 .. buf_size - 1 /\ buf_start + i - 1 \notin end .. end + k - 1
          /\ i <= buf_used + k
      BY <1>2, <1>5, <2>3, SizeFacts
    <3> QED  BY <1>6, <2>1, <2>2, <2>3, <3>1, Zenon
  <2>4. CASE ~(i <= buf_used) /\ i <= buf_used + k
    <3>1. buf_start + i - 1 \in 0 .. buf_size - 1 /\ buf_start + i - 1 \in end .. end + k - 1
          /\ (buf_start + i - 1) - end + 1 = i - buf_used
      BY <1>2, <1>5, <2>4, SizeFacts
    <3> QED  BY <1>6, <2>1, <2>2, <2>4, <3>1, Zenon
  <2>5. CASE ~(i <= buf_used) /\ ~(i <= buf_used + k)
    <3>1. i - (buf_used + k) \in 1 .. Len(wire) - k /\ k + (i - (buf_used + k)) = i - buf_used
      BY <1>2, <2>5
    <3> QED  BY <1>4, <2>1, <2>2, <2>5, <3>1, Zenon
  <2> QED  BY <2>3, <2>4, <2>5, Zenon
<1> HIDE DEF x, v, b, w
<1>9. InStep(N, x, sending_flow, sending_len, in_used)
  BY Zenon DEF StepInv, Held, x
<1>10. InStep(N, v, sending_flow, sending_len, in_used)
  BY <1>2, <1>8, <1>9, StepSame, Zenon
<1>11. Held(b, buf_start, buf_used + k, w, sending_flow, sending_len, in_used)
  BY <1>7, <1>10, Zenon DEF Held, v
<1>12. sending_len \in Nat
  BY DEF IInv, QueueTypeOK
<1> QED  BY <1>1, <1>2, <1>3, <1>4, <1>5, <1>11, <1>12, ProcessStep, Zenon

(* The stream takes bytes of the packet that is being sent.                 *)
LEMMA TakesStep ==
  ASSUME IInv, DecoderInv, StepInv, NEW k \in 1 .. MTU, streamTakes(k)
  PROVE  StepInv'
<1> DEFINE piece == [i \in 1 .. k |-> Byte(sending_flow, sending_len, in_used + i - 1)]
           N == buf_used + Len(wire)
           x == Left(buf, buf_start, buf_used, wire)
           v == Left(buf, buf_start, buf_used, wire \o piece)
<1>1. /\ wire' = wire \o piece /\ buf' = buf /\ buf_start' = buf_start /\ buf_used' = buf_used
      /\ sending_flow # NoFlow
  BY Zenon DEF streamTakes, decoderVars
<1>2. k \in Nat \ {0} /\ sending_len \in Nat /\ sending_flow \in Nat /\ in_used \in Nat
  <2>1. sending_len \in 0 .. MTU /\ sending_flow \in flows \union {NoFlow} /\ flows \subseteq Flows
    BY Zenon DEF IInv, QueueTypeOK
  <2> QED  BY <2>1, QueueConstants DEF DecoderInv, NoFlow
<1>3. wire \in Seq(Bytes) /\ Len(wire) \in Nat /\ buf_used \in Nat /\ N \in Nat
  BY DEF DecoderInv
<1>4. \A i \in 1 .. k : Byte(sending_flow, sending_len, in_used + i - 1) \in Bytes
  BY <1>2 DEF Byte, Bytes
<1>5. piece \in Seq(Bytes) /\ Len(piece) = k
      /\ \A i \in 1 .. k : piece[i] = Byte(sending_flow, sending_len, in_used + i - 1)
  BY <1>2, <1>4
<1> HIDE DEF piece
<1>6. /\ Len(wire \o piece) = Len(wire) + k
      /\ \A i \in 1 .. Len(wire) : (wire \o piece)[i] = wire[i]
      /\ \A i \in 1 .. k : (wire \o piece)[Len(wire) + i] = piece[i]
  BY <1>3, <1>5
<1>7. N + k = buf_used + Len(wire \o piece)
  BY <1>2, <1>3, <1>6
<1>8. \A i \in 1 .. N + k :
        v[i] = IF i <= buf_used THEN buf[buf_start + i - 1] ELSE (wire \o piece)[i - buf_used]
  BY <1>7, Zenon DEF Left
<1>9. \A i \in 1 .. N : x[i] = IF i <= buf_used THEN buf[buf_start + i - 1] ELSE wire[i - buf_used]
  BY Zenon DEF Left
<1> HIDE DEF v, x
<1>10. \A i \in 1 .. N : v[i] = x[i]
  <2> TAKE i \in 1 .. N
  <2>1. i \in 1 .. N + k /\ (~(i <= buf_used) => i - buf_used \in 1 .. Len(wire))
    BY <1>2, <1>3
  <2> QED  BY <1>6, <1>8, <1>9, <2>1, Zenon
<1>11. \A m \in 1 .. k : v[N + m] = Byte(sending_flow, sending_len, in_used + m - 1)
  <2> TAKE m \in 1 .. k
  <2>1. N + m \in 1 .. N + k /\ ~(N + m <= buf_used) /\ (N + m) - buf_used = Len(wire) + m
    BY <1>2, <1>3
  <2> QED  BY <1>5, <1>6, <1>8, <2>1, Zenon
<1>12. InStep(N, x, sending_flow, sending_len, in_used)
  BY Zenon DEF StepInv, Held, x
<1>13. in_used + k <= sending_len
  BY <1>2 DEF streamTakes
<1> HIDE DEF N
<1>14. Lengthens(N, x, k, v, sending_flow, sending_len, in_used)
  BY <1>10, <1>11, Zenon DEF Lengthens
<1>15. /\ in_used + k < sending_len => InStep(N + k, v, sending_flow, sending_len, in_used + k)
       /\ in_used + k = sending_len => \A g, n : InStep(N + k, v, g, n, 0)
  BY <1>1, <1>2, <1>3, <1>12, <1>13, <1>14, StepTaken, Zenon
<1>16. InStep(N + k, v, sending_flow', sending_len', in_used')
  <2>1. CASE in_used + k < sending_len /\ in_used' = in_used + k /\ UNCHANGED queueVars
    BY <1>15, <2>1, Zenon DEF queueVars
  <2>2. CASE in_used + k = sending_len /\ in_used' = 0
    BY <1>15, <2>2, Zenon
  <2> QED  BY <2>1, <2>2, Zenon DEF streamTakes
<1>17. Held(buf', buf_start', buf_used', wire', sending_flow', sending_len', in_used')
  BY <1>1, <1>7, <1>16, Zenon DEF Held, v, N
<1> QED  BY <1>17, StepPrimed, Zenon

(* The queue schedules another packet only when none is being sent.         *)
LEMMA QueueStep ==
  ASSUME IInv, DecoderInv, StepInv, UNCHANGED <<in_used, wire, decoderVars>>,
         sending_flow = NoFlow \/ UNCHANGED <<sending_flow, sending_len>>
  PROVE  StepInv'
<1> DEFINE N == buf_used + Len(wire)
           x == Left(buf, buf_start, buf_used, wire)
<1>1. /\ InStep(N, x, sending_flow, sending_len, in_used)
      /\ buf' = buf /\ buf_start' = buf_start /\ buf_used' = buf_used
  BY Zenon DEF StepInv, Held, decoderVars
<1> HIDE DEF x, N
<1>2. InStep(N, x, sending_flow', sending_len', in_used')
  <2>1. CASE UNCHANGED <<sending_flow, sending_len>>
    BY <1>1, <2>1, Zenon
  <2>2. CASE sending_flow = NoFlow
    <3>1. in_used = 0
      BY <1>1, <2>2, Zenon DEF InStep, Stops
    <3>2. InStep(N, x, sending_flow, sending_len, 0)
      BY <1>1, <3>1, Zenon
    <3>3. InStep(N, x, sending_flow', sending_len', 0)
      BY <3>2, StepIdle, Zenon
    <3> QED  BY <3>1, <3>3, Zenon
  <2> QED  BY <2>1, <2>2, Zenon
<1>3. Held(buf', buf_start', buf_used', wire', sending_flow', sending_len', in_used')
  BY <1>1, <1>2, Zenon DEF Held, x, N
<1> QED  BY <1>3, StepPrimed, Zenon


LEMMA StepInit == Init => StepInv
<1> SUFFICES ASSUME Init PROVE StepInv
  OBVIOUS
<1>1. buf_start = 0 /\ buf_used = 0 /\ wire = <<>> /\ in_used = 0
  BY Zenon DEF Init
<1>2. 0 + Len(<<>>) = 0
  OBVIOUS
<1>3. Held(buf, 0, 0, <<>>, sending_flow, sending_len, 0)
  BY <1>2, StepEmpty, Zenon DEF Held
<1> QED  BY <1>1, <1>3, Zenon DEF StepInv

LEMMA StepNext == ASSUME IInv, DecoderInv, StepInv, [Next]_vars PROVE StepInv'
<1>1. CASE UNCHANGED <<queueVars, in_used, wire, decoderVars>>
  BY <1>1, QueueStep, Zenon DEF queueVars
<1>2. CASE connect
  BY <1>1, <1>2, Zenon DEF connect
<1>3. CASE disconnect
  <2>1. /\ buf_start' = 0 /\ buf_used' = 0 /\ wire' = <<>> /\ in_used' = 0
    BY <1>3, Zenon DEF disconnect, streamGone
  <2>2. 0 + Len(<<>>) = 0
    OBVIOUS
  <2>3. Held(buf', 0, 0, <<>>, sending_flow', sending_len', 0)
    BY <2>2, StepEmpty, Zenon DEF Held
  <2>4. Held(buf', buf_start', buf_used', wire', sending_flow', sending_len', in_used')
    BY <2>1, <2>3, Zenon
  <2> QED  BY <2>4, StepPrimed, Zenon
<1>4. ASSUME NEW f \in Flows, NEW len \in 0 .. MTU - HEADER, submit(f, len) PROVE StepInv'
  <2>1. sending_flow = NoFlow \/ UNCHANGED <<sending_flow, sending_len>>
    BY <1>4, Zenon DEF submit, input_handler_send, busy
  <2> QED  BY <1>4, <2>1, QueueStep, Zenon DEF submit, streamVars
<1>5. ASSUME NEW k \in 1 .. MTU, streamTakes(k) PROVE StepInv'
  BY <1>5, TakesStep, Zenon
<1>6. ASSUME NEW k \in 1 .. Len(wire), decoderReceives(k) PROVE StepInv'
  BY <1>6, ReceivesStep, Zenon
<1>7. CASE decoderDone
  <2>1. sending_len \in Nat
    BY DEF IInv, QueueTypeOK
  <2>2. process_data(buf, buf_start, buf_used, wire) /\ UNCHANGED <<sending_flow, sending_len>>
    BY <1>7, Zenon DEF decoderDone, queueVars
  <2> QED  BY <2>1, <2>2, ProcessStep, Zenon DEF DecoderInv, StepInv
<1>8. CASE flowChanges
  <2>1. UNCHANGED <<sending_flow, sending_len>>
    BY <1>8, Zenon DEF flowChanges, PacketPassFairQueueFlow_Init, PacketPassFairQueueFlow_Free
  <2> QED  BY <1>8, <2>1, QueueStep, Zenon DEF flowChanges, streamVars
<1>9. CASE jobRuns
  <2>1. sending_flow = NoFlow
    BY <1>9, Zenon DEF jobRuns, schedule_job_handler, IInv, QueueMoves
  <2> QED  BY <1>9, <2>1, QueueStep, Zenon DEF jobRuns, streamVars
<1>10. CASE UNCHANGED vars
  BY <1>1, <1>10, Zenon DEF vars, streamVars
<1> QED
  BY <1>2, <1>3, <1>4, <1>5, <1>6, <1>7, <1>8, <1>9, <1>10, Zenon DEF Next

(* What the decoder has and what follows are the bytes of unread.           *)
LEMMA UnreadBytes ==
  ASSUME DecoderInv
  PROVE  /\ Len(unread) = buf_used + Len(wire) /\ Len(unread) \in Nat /\ unread \in Seq(Bytes)
         /\ \A i \in 1 .. Len(unread) : unread[i] = Left(buf, buf_start, buf_used, wire)[i]
<1> DEFINE have == [i \in 1 .. buf_used |-> buf[buf_start + i - 1]]
           x == Left(buf, buf_start, buf_used, wire)
<1>1. /\ wire \in Seq(Bytes) /\ Len(wire) \in Nat /\ buf_used \in Nat /\ buf_start \in Nat
      /\ buf \in [0 .. buf_size - 1 -> Bytes] /\ buf_start + buf_used <= buf_size
  BY DEF DecoderInv
<1>2. \A i \in 1 .. buf_used : buf[buf_start + i - 1] \in Bytes
  <2> TAKE i \in 1 .. buf_used
  <2>1. buf_start + i - 1 \in 0 .. buf_size - 1
    BY <1>1, SizeFacts
  <2> QED  BY <1>1, <2>1, Zenon
<1>3. have \in Seq(Bytes) /\ Len(have) = buf_used
      /\ \A i \in 1 .. buf_used : have[i] = buf[buf_start + i - 1]
  BY <1>1, <1>2
<1>4. unread = have \o wire
  BY Zenon DEF unread
<1> HIDE DEF have
<1>5. /\ unread \in Seq(Bytes) /\ Len(unread) = buf_used + Len(wire)
      /\ \A i \in 1 .. buf_used : unread[i] = have[i]
      /\ \A i \in 1 .. buf_used + Len(wire) : ~(i <= buf_used) => unread[i] = wire[i - buf_used]
  <2>1. unread \in Seq(Bytes) /\ Len(unread) = buf_used + Len(wire)
    <3>1. have \o wire \in Seq(Bytes) /\ Len(have \o wire) = Len(have) + Len(wire)
      BY <1>1, <1>3, ConcatProperties, Zenon
    <3> QED  BY <1>3, <1>4, <3>1, Zenon
  <2>2. \A i \in 1 .. buf_used : unread[i] = have[i]
    BY <1>1, <1>3, <1>4
  <2>3. ASSUME NEW i \in 1 .. buf_used + Len(wire), ~(i <= buf_used)
        PROVE  unread[i] = wire[i - buf_used]
    <3>1. i - buf_used \in 1 .. Len(wire) /\ i = Len(have) + (i - buf_used)
      BY <1>1, <1>3, <2>3
    <3>2. (have \o wire)[Len(have) + (i - buf_used)] = wire[i - buf_used]
      BY <1>1, <1>3, <3>1
    <3> QED  BY <1>4, <3>1, <3>2
  <2> QED  BY <2>1, <2>2, <2>3, Zenon
<1>6. \A i \in 1 .. buf_used + Len(wire) :
        x[i] = IF i <= buf_used THEN buf[buf_start + i - 1] ELSE wire[i - buf_used]
  BY Zenon DEF Left
<1> HIDE DEF x
<1>7. \A i \in 1 .. buf_used + Len(wire) : unread[i] = x[i]
  <2> TAKE i \in 1 .. buf_used + Len(wire)
  <2>1. i <= buf_used => i \in 1 .. buf_used
    BY <1>1
  <2> QED  BY <1>3, <1>5, <1>6, <2>1, Zenon
<1> QED  BY <1>1, <1>5, <1>7 DEF x

LEMMA StepIsInStep == ASSUME DecoderInv, StepInv PROVE DecoderInStep
<1> DEFINE N == Len(unread)
           x == Left(buf, buf_start, buf_used, wire)
<1>1. /\ N \in Nat /\ unread \in Seq(Bytes) /\ N = buf_used + Len(wire)
      /\ \A i \in 1 .. N : unread[i] = x[i]
  BY UnreadBytes, Zenon
<1>2. InStep(N, x, sending_flow, sending_len, in_used)
  BY <1>1, Zenon DEF StepInv, Held
<1> HIDE DEF x
<1>3. InStep(N, unread, sending_flow, sending_len, in_used)
  BY <1>1, <1>2, StepSame, Zenon
<1>4. unread # <<>> => N \in 1 .. N /\ 1 \in 1 .. N /\ N > 0 /\ Head(unread) = unread[1]
  BY <1>1
<1>5. unread # <<>> => Head(unread).at = 0
  BY <1>3, <1>4, Zenon DEF InStep, Starts
<1>6. \A i \in 1 .. N - 1 : follows(unread[i], unread[i + 1])
  <2> TAKE i \in 1 .. N - 1
  <2>0. i \in 1 .. N /\ i + 1 \in 1 .. N /\ i < N /\ i <= i + 1 /\ (i + 1) - i = 1
    BY <1>1
  <2>1. IsByte(unread[i]) /\ IsByte(unread[i + 1])
    BY <1>3, <2>0, Zenon DEF InStep
  <2>2. PICK b : b = unread[i]
    BY Zenon
  <2>3. b.flow \in Nat /\ b.len \in Nat /\ b.at \in Nat /\ b.at < b.len
    BY <2>1, <2>2, ByteTypes, Zenon
  <2>4. CASE b.at = b.len - 1
    <3>1. unread[i + 1].at = 0
      BY <1>3, <2>0, <2>2, <2>4, Zenon DEF InStep, Joins
    <3> QED  BY <2>2, <2>4, <3>1, Zenon DEF follows
  <2>5. CASE b.at # b.len - 1
    <3>1. 1 < b.len - b.at
      BY <2>3, <2>5
    <3>2. unread[i + 1] = Byte(b.flow, b.len, b.at + 1)
      BY <1>3, <2>0, <2>2, <3>1, Zenon DEF InStep, GoesOn
    <3>3. unread[i + 1].at < unread[i + 1].len
      BY <2>1, ByteTypes, Zenon
    <3> QED  BY <2>2, <3>2, <3>3, Zenon DEF follows
  <2> QED  BY <2>4, <2>5, Zenon
<1>7. unread # <<>> /\ unread[N].at < unread[N].len - 1
        => unread[N] = Byte(sending_flow, sending_len, in_used - 1)
  <2> SUFFICES ASSUME unread # <<>>, unread[N].at < unread[N].len - 1
               PROVE  unread[N] = Byte(sending_flow, sending_len, in_used - 1)
    BY Zenon
  <2>1. IsByte(unread[N])
    BY <1>3, <1>4, Zenon DEF InStep
  <2>2. unread[N].len \in Nat /\ unread[N].at \in Nat
    BY <2>1, ByteTypes, Zenon
  <2>3. unread[N].at # unread[N].len - 1
    BY <2>2
  <2> QED  BY <1>3, <1>4, <2>3, Zenon DEF InStep, Stops
<1> QED  BY <1>5, <1>6, <1>7, Zenon DEF DecoderInStep

(* The decoder stays in step with the sender, whatever the sizes of the     *)
(* packets and of the buffer, the pieces in which the stream takes and      *)
(* gives them, and wherever it breaks (process_data, PacketStreamSender's   *)
(* in_used and PacketPassConnector's new start).                            *)
THEOREM StaysInStep == Spec => []DecoderInStep
<1>1. DecoderInv /\ StepInv => DecoderInStep
  BY StepIsInStep, Zenon
<1>2. IInv /\ DecoderInv /\ StepInv /\ [Next]_vars => StepInv'
  BY StepNext, Zenon
<1>3. IInv /\ DecoderInv /\ [Next]_vars => DecoderInv'
  BY DecoderNext, Zenon
<1> QED
  BY <1>1, <1>2, <1>3, StepInit, DecoderInit, LinkIsQueue, Invariance, PTL DEF Spec
=============================================================================
