----------------------------- MODULE PacketLink -----------------------------
(***************************************************************************)
(* Packets over a stream: flows share a PacketPassFairQueue; one packet at *)
(* a time, with the length that PacketProtoEncoder puts before it, passes  *)
(* PacketPassConnector and PacketStreamSender into the stream, which takes *)
(* it in pieces; PacketProtoDecoder finds the packets again in what        *)
(* arrives.  When the stream breaks, the connector keeps its packet and    *)
(* sends it from the start on the next one.  The gateway's client and the  *)
(* gateway are connected in this way.                                      *)
(***************************************************************************)
EXTENDS FairQueue, Sequences

CONSTANTS
    HEADER,         \* sizeof(struct packetproto_header)
    output_mtu,     \* the largest packet that the decoder's output takes
    StreamSize      \* bound: bytes inside the stream

ASSUME LinkConstants ==
    {HEADER, StreamSize} \subseteq Nat \ {0} /\ output_mtu \in Nat /\ HEADER <= MTU

buf_size == HEADER + output_mtu         \* PACKETPROTO_ENCLEN(output_mtu)

(* A byte: which one of a packet of this length from this flow.  The header *)
(* holds the length, so any of its bytes tells it.                          *)
Byte(f, len, at) == [flow |-> f, len |-> len, at |-> at]
NoByte == Byte(NoFlow, 0, 0)

VARIABLES
    connected,      \* the connector has an output
    in_used,        \* PacketStreamSender: bytes of the packet that the stream took
    wire,           \* bytes inside the stream
    buf,            \* PacketProtoDecoder
    buf_start,
    buf_used,
    handing         \* a packet is at the decoder's output; otherwise it is receiving

streamVars == <<connected, in_used, wire>>
decoderVars == <<buf, buf_start, buf_used, handing>>
vars == <<queueVars, streamVars, decoderVars>>

LinkTypeOK ==
    /\ QueueTypeOK
    /\ connected \in BOOLEAN /\ handing \in BOOLEAN
    /\ in_used \in 0 .. MTU /\ Len(wire) <= StreamSize
    /\ DOMAIN buf = 0 .. buf_size - 1
    /\ buf_start \in 0 .. buf_size /\ buf_used \in 0 .. buf_size

Init ==
    /\ QueueInit
    /\ connected = FALSE /\ in_used = 0 /\ wire = <<>>
    /\ buf = [i \in 0 .. buf_size - 1 |-> NoByte]
    /\ buf_start = 0 /\ buf_used = 0 /\ handing = FALSE
-----------------------------------------------------------------------------
(* PacketPassConnector_ConnectOutput, PacketStreamSender_Init and           *)
(* PacketProtoDecoder_Init on a new stream.                                 *)
connect ==
    /\ ~connected /\ connected' = TRUE
    /\ UNCHANGED <<queueVars, in_used, wire, decoderVars>>

(* Mutant: the sender goes on where it was in the packet.                   *)
streamGone_resumes ==
    /\ connected' = FALSE /\ wire' = <<>>
    /\ buf' = [i \in 0 .. buf_size - 1 |-> NoByte]
    /\ buf_start' = 0 /\ buf_used' = 0 /\ handing' = FALSE
    /\ UNCHANGED in_used

(* PacketPassConnector_DisconnectOutput, and what was in the stream and in  *)
(* the decoder is gone.                                                     *)
streamGone ==
    /\ connected' = FALSE /\ in_used' = 0 /\ wire' = <<>>
    /\ buf' = [i \in 0 .. buf_size - 1 |-> NoByte]
    /\ buf_start' = 0 /\ buf_used' = 0 /\ handing' = FALSE

disconnect == connected /\ streamGone /\ UNCHANGED queueVars

(* A flow queues a packet; PacketProtoEncoder has put the header before it. *)
submit(f, len) ==
    /\ input_handler_send(f, HEADER + len)
    /\ UNCHANGED <<streamVars, decoderVars>>

(* PacketStreamSender: the stream takes k more bytes; after the last one    *)
(* the packet is done for the connector and for the queue.                  *)
streamTakes(k) ==
    /\ connected /\ sending_flow # NoFlow /\ Len(wire) + k <= StreamSize
    /\ wire' = wire \o [i \in 1 .. k |-> Byte(sending_flow, sending_len, in_used + i - 1)]
    /\ \/ in_used + k < sending_len /\ in_used' = in_used + k /\ UNCHANGED queueVars
       \/ in_used + k = sending_len /\ in_used' = 0 /\ output_handler_done
    /\ UNCHANGED <<connected, decoderVars>>

(* Mutant: the rest is moved to the start of the buffer only when it is     *)
(* empty.                                                                   *)
wraps_empty(s, u) == u = 0 /\ s = buf_size

(* The decoder has reached the end of its buffer.                           *)
wraps(s, u) == s + u = buf_size

(* process_data, with the buffer b that has u bytes from s, while w is left *)
(* in the stream.  A whole packet goes to the output; a packet that is too  *)
(* large ends the connection (handler_error); otherwise more is received,   *)
(* after the bytes were moved to the front if the end of the buffer is      *)
(* reached.                                                                 *)
process_data(b, s, u, w) ==
    \/ /\ u >= HEADER /\ b[s].len - HEADER > output_mtu
       /\ streamGone
    \/ /\ u >= HEADER /\ b[s].len - HEADER <= output_mtu /\ u >= b[s].len
       /\ buf' = b /\ buf_start' = s + b[s].len /\ buf_used' = u - b[s].len
       /\ handing' = TRUE
       /\ wire' = w /\ UNCHANGED <<connected, in_used>>
    \/ /\ ~(u >= HEADER /\ (b[s].len - HEADER > output_mtu \/ u >= b[s].len))
       /\ buf' = IF wraps(s, u) THEN [i \in DOMAIN b |-> IF i < u THEN b[s + i] ELSE NoByte] ELSE b
       /\ buf_start' = IF wraps(s, u) THEN 0 ELSE s
       /\ buf_used' = u /\ handing' = FALSE
       /\ wire' = w /\ UNCHANGED <<connected, in_used>>

(* PacketProtoDecoder's input_handler_done: k bytes have been received.     *)
decoderReceives(k) ==
    /\ connected /\ ~handing
    /\ k <= buf_size - (buf_start + buf_used)
    /\ LET end == buf_start + buf_used
       IN  process_data([i \in DOMAIN buf |-> IF i \in end .. end + k - 1 THEN wire[i - end + 1]
                                              ELSE buf[i]],
                        buf_start, buf_used + k, SubSeq(wire, k + 1, Len(wire)))
    /\ UNCHANGED queueVars

(* Its output_handler_done: the packet was taken (recv_if handlers accept   *)
(* it at once).                                                             *)
decoderDone ==
    /\ connected /\ handing
    /\ process_data(buf, buf_start, buf_used, wire)
    /\ UNCHANGED queueVars

flowChanges ==
    /\ \E f \in Flows : PacketPassFairQueueFlow_Init(f) \/ PacketPassFairQueueFlow_Free(f)
    /\ UNCHANGED <<streamVars, decoderVars>>

jobRuns == schedule_job_handler /\ UNCHANGED <<streamVars, decoderVars>>

Next ==
    \/ connect \/ disconnect
    \/ \E f \in Flows, len \in 0 .. MTU - HEADER : submit(f, len)
    \/ \E k \in 1 .. MTU : streamTakes(k)
    \/ \E k \in 1 .. Len(wire) : decoderReceives(k)
    \/ decoderDone
    \/ flowChanges \/ jobRuns

Spec == Init /\ [][Next]_vars
-----------------------------------------------------------------------------
(* The bytes that the decoder has and those that will follow.               *)
unread == [i \in 1 .. buf_used |-> buf[buf_start + i - 1]] \o wire

(* After byte b of the stream comes byte c: the next of the same packet, or *)
(* the first of another after the last.                                     *)
follows(b, c) ==
    \/ c = Byte(b.flow, b.len, b.at + 1) /\ c.at < c.len
    \/ b.at = b.len - 1 /\ c.at = 0

(* The decoder stays in step with the stream: what it has not yet decoded   *)
(* begins with the first byte of a packet, nothing is missing, repeated or  *)
(* overwritten, and only the packet that is still being sent is incomplete  *)
(* (process_data's moves in the buffer, PacketStreamSender's in_used, and   *)
(* the new start after a break).                                            *)
DecoderInStep ==
    /\ unread # <<>> => Head(unread).at = 0
    /\ \A i \in 1 .. Len(unread) - 1 : follows(unread[i], unread[i + 1])
    /\ LET last == unread[Len(unread)] IN
       unread # <<>> /\ last.at < last.len - 1 => last = Byte(sending_flow, sending_len, in_used - 1)

(* Whenever the decoder receives it has room for at least one byte, and a   *)
(* packet at its output is not overwritten (StreamRecvInterface wants a     *)
(* length above 0).                                                         *)
RoomToReceive == connected /\ ~handing => buf_start + buf_used < buf_size

(* A packet that is queued is sent, if the stream does not break again and  *)
(* again and flows are not freed and made again and again.                  *)
Fairness ==
    /\ WF_vars(connect) /\ WF_vars(jobRuns) /\ WF_vars(decoderDone)
    /\ WF_vars(\E k \in 1 .. MTU : streamTakes(k))
    /\ WF_vars(\E k \in 1 .. Len(wire) : decoderReceives(k))

FairSpec == Spec /\ Fairness

NoStarvation ==
    (<>[][~flowChanges]_vars /\ <>[]connected) => \A f \in Flows : (f \in Queued) ~> (f \notin Queued)
=============================================================================
