----------------------------- MODULE FairQueue -----------------------------
(***************************************************************************)
(* PacketPassFairQueue.c: several flows share one output.  Each flow has a *)
(* virtual time, which grows by the size of what it has sent; the flow     *)
(* with the least time is sent next.  The time is a 64 bit number, and     *)
(* before it would overflow all times are moved back.                      *)
(* Jobs may run in any order here: other flows may come in between the end *)
(* of a packet and the job that schedules the next one.                    *)
(***************************************************************************)
EXTENDS Integers

CONSTANTS
    Flows,          \* flows; their numbers are in the order of their addresses
    MAX_TIME,       \* FAIRQUEUE_MAX_TIME; times are numbers modulo MAX_TIME + 1
    packet_weight,
    MTU             \* of the output

(* What PacketPassFairQueue_Init requires of the output's MTU.              *)
ASSUME QueueConstants ==
    /\ Flows \subseteq Nat \ {0}
    /\ MAX_TIME \in Nat /\ packet_weight \in Nat \ {0} /\ MTU \in Nat
    /\ packet_weight + MTU <= MAX_TIME

NoFlow == 0
NotQueued == -1

VARIABLES
    flows,          \* flows_list
    time,
    data_len,       \* per flow the length of its packet in queued_tree, or NotQueued
    sending_flow,
    sending_len,
    previous_flow,
    schedule_job,   \* the job is set
    passed,         \* (history) passed[f, g]: what g was sent while f was queued
    no_time         \* (history) a flow came when there was no current time to take

queueVars == <<flows, time, data_len, sending_flow, sending_len, previous_flow, schedule_job,
               passed, no_time>>

QueueTypeOK ==
    /\ flows \subseteq Flows
    /\ time \in [Flows -> 0 .. MAX_TIME]
    /\ data_len \in [Flows -> NotQueued .. MTU]
    /\ sending_flow \in flows \union {NoFlow} /\ sending_len \in 0 .. MTU
    /\ previous_flow \in flows \union {NoFlow}
    /\ schedule_job \in BOOLEAN /\ no_time \in BOOLEAN
    /\ passed \in [Flows \X Flows -> Nat]

QueueInit ==
    /\ flows = {}
    /\ time = [f \in Flows |-> 0] /\ data_len = [f \in Flows |-> NotQueued]
    /\ sending_flow = NoFlow /\ sending_len = 0
    /\ previous_flow = NoFlow /\ schedule_job = FALSE
    /\ passed = [p \in Flows \X Flows |-> 0] /\ no_time = FALSE

Queued == {f \in flows : data_len[f] # NotQueued}
-----------------------------------------------------------------------------
(* compare_flows, and the first flow of the tree, with the times t.         *)
compare_flows(t, f, g) == t[f] < t[g] \/ (t[f] = t[g] /\ f < g)
first_flow(t, S) == CHOOSE f \in S : \A g \in S \ {f} : compare_flows(t, f, g)

(* get_current_time: the time of the flow that is being sent, or else the   *)
(* least of the first queued flow and the previous one, or 0.               *)
get_current_time ==
    LET candidates == (IF Queued = {} THEN {} ELSE {first_flow(time, Queued)})
                        \union (IF previous_flow = NoFlow THEN {} ELSE {previous_flow})
    IN  CASE sending_flow # NoFlow -> time[sending_flow]
          [] sending_flow = NoFlow /\ candidates # {} -> time[first_flow(time, candidates)]
          [] OTHER -> 0

(* A 64 bit sum or difference.                                              *)
wrap(n) == IF n < 0 THEN n + MAX_TIME + 1 ELSE IF n > MAX_TIME THEN n - MAX_TIME - 1 ELSE n

(* Mutant: the finished flow's time stops at 0 like the others'.            *)
increment_sent_flow_clamps(flow, amount) ==
    LET subtract == IF Queued = {} THEN time[flow] ELSE time[first_flow(time, Queued)]
        moved(f) == IF subtract > time[f] THEN 0 ELSE time[f] - subtract
    IN  IF amount > MAX_TIME - time[flow]
        THEN [f \in Flows |-> IF f = flow THEN wrap(moved(f) + amount) ELSE moved(f)]
        ELSE [time EXCEPT ![flow] = @ + amount]

(* Mutant: the time stops at its maximum.                                   *)
increment_sent_flow_saturates(flow, amount) ==
    [time EXCEPT ![flow] = IF amount > MAX_TIME - @ THEN MAX_TIME ELSE @ + amount]

(* increment_sent_flow: the new times.  When the sum would overflow, all    *)
(* are moved back by the time of the first queued flow, none below 0 but    *)
(* the finished flow's, which wraps around and back.                        *)
increment_sent_flow(flow, amount) ==
    LET subtract == IF Queued = {} THEN time[flow] ELSE time[first_flow(time, Queued)]
    IN  IF amount > MAX_TIME - time[flow]
        THEN [f \in Flows |-> IF f = flow THEN wrap(wrap(time[f] - subtract) + amount)
                              ELSE IF subtract > time[f] THEN 0 ELSE time[f] - subtract]
        ELSE [time EXCEPT ![flow] = @ + amount]

(* schedule: f, the first of the queued flows, goes to the output.  lens    *)
(* has the packets that are queued.                                         *)
schedule(f, lens) ==
    /\ sending_flow' = f /\ sending_len' = lens[f]
    /\ data_len' = [lens EXCEPT ![f] = NotQueued]
    /\ passed' = [p \in Flows \X Flows |-> IF p[1] = f THEN 0 ELSE passed[p]]

(* Mutant: a flow that comes back keeps the time it had.                    *)
raised_not(f) == time

(* The times when f queues a packet: it does not come before the current    *)
(* time, unless it is the flow that was just sent.                          *)
raised(f) ==
    IF f = previous_flow \/ time[f] >= get_current_time THEN time
    ELSE [time EXCEPT ![f] = get_current_time]

(* The output is not free for another packet.                               *)
busy == sending_flow # NoFlow \/ schedule_job

(* input_handler_send.                                                      *)
input_handler_send(f, len) ==
    /\ f \in flows /\ f # sending_flow /\ f \notin Queued
    /\ time' = raised(f)
    /\ previous_flow' = IF f = previous_flow THEN NoFlow ELSE previous_flow
    /\ no_time' = (no_time \/ /\ sending_flow = NoFlow /\ previous_flow = NoFlow /\ Queued = {}
                              /\ \E g \in flows : time[g] > 0)
    /\ LET lens == [data_len EXCEPT ![f] = len]
       IN  \/ /\ ~busy
              /\ schedule(first_flow(time', Queued \union {f}), lens)
           \/ /\ busy
              /\ data_len' = lens
              /\ UNCHANGED <<sending_flow, sending_len, passed>>
    /\ UNCHANGED <<flows, schedule_job>>

(* Bound: the history counts no further than FairShare needs.               *)
counted(n) == IF n > 2 * (packet_weight + MTU) THEN 2 * (packet_weight + MTU) + 1 ELSE n

(* output_handler_done.  The flow may queue its next packet before the job  *)
(* runs, and is then not raised.                                            *)
output_handler_done ==
    /\ sending_flow # NoFlow
    /\ previous_flow' = sending_flow /\ sending_flow' = NoFlow /\ sending_len' = 0
    /\ time' = increment_sent_flow(sending_flow, packet_weight + sending_len)
    /\ schedule_job' = TRUE
    /\ passed' = [p \in Flows \X Flows |->
                    IF p[1] \in Queued /\ p[2] = sending_flow
                    THEN counted(passed[p] + (packet_weight + sending_len)) ELSE passed[p]]
    /\ UNCHANGED <<flows, data_len, no_time>>

schedule_job_handler ==
    /\ schedule_job /\ schedule_job' = FALSE
    /\ previous_flow' = NoFlow
    /\ \/ Queued # {} /\ schedule(first_flow(time, Queued), data_len)
       \/ Queued = {} /\ UNCHANGED <<sending_flow, sending_len, data_len, passed>>
    /\ UNCHANGED <<flows, time, no_time>>

(* A flow starts with the time 0; its memory is not kept when it is freed,  *)
(* which may be at any time but while its packet is being sent.             *)
PacketPassFairQueueFlow_Init(f) ==
    /\ f \in Flows \ flows
    /\ flows' = flows \union {f}
    /\ time' = [time EXCEPT ![f] = 0] /\ data_len' = [data_len EXCEPT ![f] = NotQueued]
    /\ UNCHANGED <<sending_flow, sending_len, previous_flow, schedule_job, passed, no_time>>

PacketPassFairQueueFlow_Free(f) ==
    /\ f \in flows \ {sending_flow}
    /\ flows' = flows \ {f}
    /\ previous_flow' = IF f = previous_flow THEN NoFlow ELSE previous_flow
    /\ time' = [time EXCEPT ![f] = 0] /\ data_len' = [data_len EXCEPT ![f] = NotQueued]
    /\ passed' = [p \in Flows \X Flows |-> IF f \in {p[1], p[2]} THEN 0 ELSE passed[p]]
    /\ UNCHANGED <<sending_flow, sending_len, schedule_job, no_time>>

QueueNext ==
    \/ \E f \in Flows : \/ \E len \in 0 .. MTU : input_handler_send(f, len)
                        \/ PacketPassFairQueueFlow_Init(f)
                        \/ PacketPassFairQueueFlow_Free(f)
    \/ output_handler_done
    \/ schedule_job_handler

QueueSpec == QueueInit /\ [][QueueNext]_queueVars
-----------------------------------------------------------------------------
(* Moving the times back at an overflow does not change who is ahead: the   *)
(* flow that was sent falls behind every queued flow by exactly what it     *)
(* sent (increment_sent_flow, with its deliberate wrap-around).             *)
SentIsCharged ==
    [][sending_flow # NoFlow /\ sending_flow' = NoFlow =>
         \A f \in Queued : time'[f] - time'[sending_flow]
                             = time[f] - time[sending_flow] - (packet_weight + sending_len)]_queueVars

(* While a flow waits, no other flow is sent more than two packets of the   *)
(* largest size, as long as every flow that came found a current time to    *)
(* start from.  (After an idle moment there is none: a flow that has sent   *)
(* much then waits for one that has not.)                                   *)
FairShare ==
    ~no_time => \A f \in Queued, g \in flows : passed[<<f, g>>] <= 2 * (packet_weight + MTU)

(* The next packet is never forgotten: when packets are queued, either one  *)
(* is being sent or the job that will send one is set, never both; and a    *)
(* flow is the previous one only until that job has run (the assertions of  *)
(* schedule, schedule_job_handler and output_handler_done).                 *)
QueueMoves ==
    /\ Queued # {} => sending_flow # NoFlow \/ schedule_job
    /\ ~(sending_flow # NoFlow /\ schedule_job)
    /\ previous_flow # NoFlow => schedule_job
    /\ sending_flow \notin Queued
=============================================================================
