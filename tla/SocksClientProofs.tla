------------------------- MODULE SocksClientProofs -------------------------
(***************************************************************************)
(* The safety of the SOCKS client for every set of options, every server,  *)
(* every limit and every socket buffer.                                    *)
(***************************************************************************)
EXTENDS SocksClient, TLAPS

(* There is no connection: before, and after.                               *)
Off ==
    state \in {"none", "CONNECTING", "freed"} =>
        /\ send = "off" /\ recv = "off" /\ recv_job = FALSE /\ input = "off"
        /\ wait_events = {} /\ is_hupd = FALSE /\ ready = {}
        /\ send_count = 0 /\ recv_count = 0
        /\ state # "freed" => written = 0 /\ received = 0

(* Who owns the socket.                                                     *)
Owner ==
    /\ connector \in {"waiting", "job"} <=> state = "CONNECTING"
    /\ connector_fd <=> state = "CONNECTING"
    /\ state # "freed" => closes = 0
    /\ state = "none" <=> connect = "none" /\ state # "freed"
    /\ state = "freed" => closes \in {0, 1} /\ (closes = 1 <=> connect # "none")

(* What the reactor last returned: an error was a reset, after which no     *)
(* send waits, and a receive that the error did not find busy can only have *)
(* become busy over its limit.                                              *)
Returned ==
    /\ is_hupd => ready = {}
    /\ recv_job => recv = "busy"
    /\ trouble => rst /\ send_count = 0
    /\ trouble /\ send = "busy" => "WRITE" \in ready
    /\ trouble /\ recv = "busy" /\ "READ" \notin ready => recv_job \/ recv_count = LIMIT

sendStates == {"SENDING_HELLO", "SENDING_PASSWORD", "SENDING_REQUEST"}
recvStates == {"SENT_HELLO", "SENT_PASSWORD", "SENT_REQUEST", "RECEIVED_REPLY_HEADER"}

(* The message that a sending state sends and the answer that a receiving   *)
(* state waits for.                                                         *)
message ==
    IF state = "SENDING_HELLO" THEN helloLen
    ELSE IF state = "SENDING_PASSWORD" THEN passwordLen ELSE requestLen

answer ==
    IF state = "SENT_HELLO" THEN HELLO
    ELSE IF state = "SENT_PASSWORD" THEN PASSWORD_REPLY
    ELSE IF state = "SENT_REQUEST" THEN HEADER ELSE server.addr

(* The bytes of the two streams that belong to earlier messages.            *)
outBefore ==
    IF state = "SENDING_HELLO" THEN 0
    ELSE IF state \in {"SENT_HELLO", "SENDING_PASSWORD"} THEN helloLen
    ELSE IF state = "SENT_PASSWORD" THEN helloLen + passwordLen
    ELSE IF state = "SENDING_REQUEST" THEN outLen - requestLen ELSE outLen

inBefore ==
    IF state \in {"SENDING_HELLO", "SENT_HELLO"} THEN 0
    ELSE IF state \in {"SENDING_PASSWORD", "SENT_PASSWORD"} THEN HELLO
    ELSE IF state \in {"SENDING_REQUEST", "SENT_REQUEST"} THEN inLen - HEADER - server.addr
    ELSE inLen - server.addr

Sending ==
    state \in sendStates =>
        /\ recv = "idle" /\ recv_job = FALSE
        /\ input \in {"op", "busy", "done"}
        /\ input \in {"op", "busy"} => in_len = message /\ buffer = in_len
        /\ input = "op" => send = "idle" /\ in_used = 0 /\ written = outBefore
        /\ input = "busy" =>
              \/ /\ send \in {"op", "busy"} /\ in_used < in_len /\ send_len = in_len - in_used
                 /\ written = outBefore + in_used
              \/ /\ send = "done" /\ send_len > 0 /\ send_len <= in_len - in_used
                 /\ written = outBefore + in_used + send_len
        /\ input = "done" => send = "idle" /\ written = outBefore + message
        /\ received = inBefore

Receiving ==
    state \in recvStates =>
        /\ input = "idle" /\ send = "idle"
        /\ recv_total = answer /\ recv_off + recv_total <= buffer
        /\ state = "SENT_REQUEST" => recv_off = 0 /\ buffer = HEADER + IPV6
        /\ state = "RECEIVED_REPLY_HEADER" => server.addr # 0
        /\ \/ /\ recv \in {"op", "busy"} /\ control_len < recv_total /\ recv_len = recv_total - control_len
              /\ received = inBefore + control_len
           \/ /\ recv = "done" /\ recv_len > 0 /\ recv_len <= recv_total - control_len
              /\ received = inBefore + control_len + recv_len
        /\ written = outBefore

(* A password is sent to a server that asked for it, and no data before the *)
(* client is up.                                                            *)
Methods ==
    /\ state \in {"SENDING_PASSWORD", "SENT_PASSWORD"} => usesPassword
    /\ state \notin {"UP", "freed"} => sent = 0 /\ got = 0

Up == state = "UP" => input = "off" /\ send # "off" /\ recv # "off" /\ StreamsExact

(* The invariant of the connection, and the one of its user.                *)
ConInv == ConTypeOK /\ WakesUp /\ Returned

UpperTypeOK ==
    /\ opts \in Options /\ server \in Servers
    /\ state \in {"none", "CONNECTING", "SENDING_HELLO", "SENT_HELLO", "SENDING_PASSWORD",
                  "SENT_PASSWORD", "SENDING_REQUEST", "SENT_REQUEST", "RECEIVED_REPLY_HEADER",
                  "UP", "freed"}
    /\ buffer \in Nat /\ input \in ifStates /\ in_len \in Nat \cup {-1} /\ in_used \in Nat
    /\ recv_off \in Nat /\ control_len \in Nat /\ recv_total \in Nat
    /\ connect \in {"none", "trying", "ok", "failed"}
    /\ connector \in {"off", "waiting", "job", "connected"} /\ connector_fd \in BOOLEAN
    /\ closes \in Nat /\ reported \in {"none", "UP", "ERROR", "ERROR_CLOSED"}
    /\ sent \in Nat /\ got \in Nat

Inv ==
    /\ ConInv /\ UpperTypeOK
    /\ Off /\ Owner /\ Sending /\ Receiving /\ Methods /\ Up
-----------------------------------------------------------------------------
(* The lengths are natural numbers and the messages are not empty           *)
(* (BSocksClient.c:173-184, 296-300, 471-476).                              *)
LEMMA Lengths ==
    ASSUME opts \in Options, server \in Servers
    PROVE  /\ helloLen \in Nat /\ helloLen > 0 /\ passwordLen \in Nat /\ passwordLen > 0
           /\ requestLen \in Nat /\ requestLen > 0 /\ requestLen = HEADER + opts.addr
           /\ server.addr \in {0, 6, 18} /\ server.method \in {"none", "password", "other"}
           /\ outLen = IF usesPassword THEN helloLen + passwordLen + requestLen ELSE helloLen + requestLen
           /\ inLen = IF usesPassword THEN 8 + server.addr ELSE 6 + server.addr
           /\ outLen \in Int /\ inLen \in Int /\ outBefore \in Int /\ inBefore \in Int
<1>1. opts \in [methods : 1..2, ulen : Nat, plen : Nat, addr : {6, 18}]
    BY OptionsAssumption, Zenon
<1>2. server \in [method : {"none", "password", "other"}, addr : {0, 6, 18}]
    BY OptionsAssumption, Zenon
<1>3. /\ helloLen \in Nat /\ helloLen > 0 /\ passwordLen \in Nat /\ passwordLen > 0
      /\ requestLen \in Nat /\ requestLen > 0 /\ requestLen = HEADER + opts.addr
    BY <1>1 DEF helloLen, passwordLen, requestLen, HEADER
<1>4. server.addr \in {0, 6, 18} /\ server.method \in {"none", "password", "other"}
    BY <1>2, Zenon
<1>5. outLen = IF usesPassword THEN helloLen + passwordLen + requestLen ELSE helloLen + requestLen
    BY <1>3 DEF outLen, usesPassword
<1>6. inLen = IF usesPassword THEN 8 + server.addr ELSE 6 + server.addr
    BY <1>4 DEF inLen, usesPassword, HEADER, HELLO, PASSWORD_REPLY
<1>7. outLen \in Int
    BY <1>3, <1>5 DEF usesPassword
<1>8. inLen \in Int
    BY <1>4, <1>6 DEF usesPassword
<1>9. outBefore \in Int
    BY <1>3, <1>7 DEF outBefore
<1>10. inBefore \in Int
    BY <1>4, <1>8 DEF inBefore, HELLO, HEADER
<1>. QED
    BY <1>3, <1>4, <1>5, <1>6, <1>7, <1>8, <1>9, <1>10, Zenon

(* The invariant holds of a client that is not initialized yet              *)
(* (BSocksClient.c:532-571).                                                *)
LEMMA InitInv == Init => Inv
<1>. SUFFICES ASSUME Init PROVE Inv
    OBVIOUS
<1>1. ConTypeOK
    <2>1. room \in 0..ROOM /\ send_count \in 0..LIMIT /\ recv_count \in 0..LIMIT
        BY ConnectionSizes DEF Init, ConInit
    <2>. QED BY <2>1, Zenon DEF Init, ConInit, ConTypeOK, ifStates
<1>2. UpperTypeOK
    BY Zenon DEF Init, UpperTypeOK, ifStates
<1>3. Off /\ Owner
    BY Zenon DEF Init, ConInit, Off, Owner
<1>4. WakesUp /\ Returned
    BY Zenon DEF Init, ConInit, WakesUp, Returned, trouble
<1>5. Sending /\ Receiving /\ Methods /\ Up
    BY Zenon DEF Init, Sending, Receiving, Methods, Up, sendStates, recvStates
<1>. QED BY <1>1, <1>2, <1>3, <1>4, <1>5, Zenon DEF Inv, ConInv

(* Freeing the client, its socket closed once (BSocksClient.c:573-598).     *)
LEMMA FreedStep ==
    ASSUME Inv, freed(1), state \notin {"none", "freed"},
           reported' \in {"none", "UP", "ERROR", "ERROR_CLOSED"}
    PROVE  Inv'
<1>1. closes = 0 /\ connect # "none"
    BY Zenon DEF Inv, UpperTypeOK, Owner
<1>2. ConInv'
    <2>1. UNCHANGED <<inq, room, fin, rst, received, written>>
        BY Zenon DEF freed, sockVars
    <2>2. send_count' \in 0..LIMIT /\ recv_count' \in 0..LIMIT
        BY ConnectionSizes DEF freed, BConnection_Free
    <2>3. recv_job' \in BOOLEAN /\ is_hupd' \in BOOLEAN
        BY Zenon DEF freed, BConnection_Free
    <2>4. ConTypeOK'
        BY <2>1, <2>2, <2>3, Zenon DEF Inv, ConInv, ConTypeOK, ifStates, freed, BConnection_Free
    <2>5. WakesUp' /\ Returned'
        BY Zenon DEF freed, BConnection_Free, WakesUp, Returned, trouble
    <2>. QED BY <2>4, <2>5, Zenon DEF ConInv
<1>3. UpperTypeOK'
    <2>1. UNCHANGED <<opts, server, sent, got, connect>>
        BY Zenon DEF freed, given, userVars
    <2>2. connector_fd' \in BOOLEAN
        BY Zenon DEF freed
    <2>3. closes' = 1
        BY <1>1 DEF freed
    <2>. QED BY <2>1, <2>2, <2>3 DEF Inv, UpperTypeOK, ifStates, freed
<1>4. Off'
    BY Zenon DEF freed, BConnection_Free, Off
<1>5. Owner'
    BY <1>1 DEF freed, Owner
<1>6. Sending' /\ Receiving' /\ Methods' /\ Up'
    BY Zenon DEF freed, Sending, Receiving, Methods, Up, sendStates, recvStates
<1>. QED BY <1>2, <1>3, <1>4, <1>5, <1>6, Zenon DEF Inv

(* The user frees the client (BSocksClient.c:573-598, tun2socks.c:1821).    *)
LEMMA FreeStep ==
    ASSUME Inv, BSocksClient_Free, state \notin {"none", "freed"},
           reported' \in {"none", "UP", "ERROR", "ERROR_CLOSED"}
    PROVE  Inv'
<1>1. freed(1)
    BY DEF BSocksClient_Free, Inv, Owner
<1>. QED BY <1>1, FreedStep, Zenon

(* An error that is reported frees the client (BSocksClient.c:68-71).       *)
LEMMA ReportStep ==
    ASSUME Inv, state \notin {"none", "freed"}, report_error \/ connection_closed
    PROVE  Inv'
BY FreeStep, Zenon DEF report_error, connection_closed
-----------------------------------------------------------------------------
(* A step that leaves the connection alone (the kernel's side may move)     *)
(* preserves its invariant (BConnection_unix.c:334-382).                    *)
LEMMA ConStays ==
    ASSUME ConInv, UNCHANGED conVars,
           inq' \in Nat, room' \in 0..ROOM, fin' \in BOOLEAN, rst' \in BOOLEAN, rst => rst',
           received' \in Nat, written' \in Nat
    PROVE  ConInv'
<1>. USE DEF conVars, sendIf, recvIf, reactorVars
<1>1. ConTypeOK'
    BY Zenon DEF ConInv, ConTypeOK
<1>2. WakesUp'
    BY Zenon DEF ConInv, WakesUp
<1>3. Returned'
    BY Zenon DEF ConInv, Returned, trouble
<1>. QED BY <1>1, <1>2, <1>3, Zenon DEF ConInv

(* BSocksClient_Init and its failure (BSocksClient.c:532-571,               *)
(* BConnection_unix.c:635-714).                                             *)
LEMMA InitStep == ASSUME Inv, BSocksClient_Init \/ BSocksClient_Init_fails PROVE Inv'
<1>1. state = "none" /\ UNCHANGED <<conVars, sockVars, controlVars, given, userVars, reported>>
    BY Zenon DEF BSocksClient_Init, BSocksClient_Init_fails
<1>2. /\ UNCHANGED <<inq, room, fin, rst, received, written>>
      /\ UNCHANGED <<buffer, input, in_len, in_used, recv_off, control_len, recv_total>>
      /\ UNCHANGED <<opts, server, sent, got>>
      /\ UNCHANGED <<send, recv, recv_job, wait_events, is_hupd, ready, send_count, recv_count>>
    BY <1>1, Zenon DEF sockVars, controlVars, given, userVars, conVars, sendIf, recvIf, reactorVars
<1>3. ConInv'
    <2>1. UNCHANGED conVars BY <1>1, Zenon
    <2>. QED BY <1>2, <2>1, ConStays, Zenon DEF Inv, ConInv, ConTypeOK
<1>4. state' \in {"CONNECTING", "freed"}
    BY Zenon DEF BSocksClient_Init, BSocksClient_Init_fails
<1>5. Off'
    BY <1>1, <1>2, <1>4, Zenon DEF Inv, Off
<1>6. Sending' /\ Receiving' /\ Methods' /\ Up'
    BY <1>1, <1>2, <1>4, Zenon DEF Inv, Sending, Receiving, Methods, Up, sendStates, recvStates
<1>7. closes = 0 /\ connect = "none" /\ connector \notin {"waiting", "job"} /\ connector_fd = FALSE
    BY <1>1, Zenon DEF Inv, Owner, UpperTypeOK
<1>8. CASE BSocksClient_Init
    <2>1. UpperTypeOK'
        BY <1>1, <1>2, <1>8, Zenon DEF BSocksClient_Init, Inv, UpperTypeOK
    <2>2. Owner'
        BY <1>7, <1>8, Zenon DEF BSocksClient_Init, Owner
    <2>. QED BY <1>3, <1>5, <1>6, <2>1, <2>2, Zenon DEF Inv
<1>9. CASE BSocksClient_Init_fails
    <2>1. UpperTypeOK'
        BY <1>1, <1>2, <1>7, <1>9 DEF BSocksClient_Init_fails, Inv, UpperTypeOK
    <2>2. Owner'
        BY <1>7, <1>9 DEF BSocksClient_Init_fails, Owner
    <2>. QED BY <1>3, <1>5, <1>6, <2>1, <2>2, Zenon DEF Inv
<1>. QED BY <1>8, <1>9, Zenon

(* connector_handler (BSocksClient.c:151-220).                              *)
LEMMA ConnectorStep ==
    ASSUME Inv, NEW e \in BOOLEAN, connector \in {"waiting", "job"}, connector_handler(e)
    PROVE  Inv'
<1>1. state = "CONNECTING"
    BY Zenon DEF Inv, Owner
<1>2. CASE report_error \/ (freed(1) /\ reported' = "ERROR")
    BY <1>1, <1>2, ReportStep, FreedStep, Zenon
<1>3. CASE ~(report_error \/ (freed(1) /\ reported' = "ERROR"))
    <2>1. /\ send' = "idle" /\ recv' = "idle"
          /\ UNCHANGED <<send_len, recv_len, recv_job, wait_events, is_hupd, send_count, recv_count, ready>>
          /\ connector' = "connected" /\ connector_fd' = FALSE
          /\ buffer' = helloLen /\ input' = "op" /\ in_len' = helloLen /\ in_used' = 0
          /\ state' = "SENDING_HELLO"
          /\ UNCHANGED <<inq, room, fin, rst, received, written, connect, recv_off, control_len, recv_total,
                         opts, server, sent, got, closes, reported>>
        BY <1>3, Zenon DEF connector_handler, BConnection_Init, send_message, reactorVars, sockVars, given, userVars
    <2>2. helloLen \in Nat /\ helloLen' = helloLen
        BY <2>1, Lengths, Zenon DEF Inv, UpperTypeOK, helloLen
    <2>3. ConInv'
        <3>1. ConTypeOK'
            BY <2>1, Zenon DEF Inv, ConInv, ConTypeOK, ifStates
        <3>2. WakesUp' /\ Returned'
            BY <1>1, <2>1, Zenon DEF Inv, Off, ConInv, WakesUp, Returned, trouble
        <3>. QED BY <3>1, <3>2, Zenon DEF ConInv
    <2>4. UpperTypeOK'
        BY <2>1, <2>2, Zenon DEF Inv, UpperTypeOK, ifStates
    <2>5. Off' /\ Owner'
        BY <1>1, <2>1, Zenon DEF Inv, Off, Owner
    <2>6. Sending'
        BY <1>1, <2>1, <2>2, Zenon DEF Inv, Off, Sending, sendStates, message, outBefore, inBefore
    <2>7. Receiving' /\ Methods' /\ Up'
        BY <1>1, <2>1, Zenon DEF Inv, Receiving, Methods, Up, recvStates
    <2>. QED BY <2>3, <2>4, <2>5, <2>6, <2>7, Zenon DEF Inv
<1>. QED BY <1>2, <1>3, Zenon
-----------------------------------------------------------------------------
(* The two ways in which a send that does not fail goes on                  *)
(* (BConnection_unix.c:241-281), w and h as in connection_send.             *)
SendWaits(w, h) ==
    /\ send' = "busy" /\ send_len' = send_len /\ written' = written /\ room' = room
    /\ wait_events' = w \cup {"WRITE"} /\ is_hupd' = FALSE /\ ~h
    /\ send_count' \in 0..LIMIT /\ (send_count = LIMIT \/ ~rst)

SendsSome(w, h) ==
    /\ send' = "done" /\ send_len' \in Nat /\ send_len' <= send_len
    /\ send_len > 0 => send_len' > 0
    /\ written' = written + send_len' /\ room' \in 0..ROOM
    /\ wait_events' = w /\ is_hupd' = h
    /\ send_count' \in 0..LIMIT /\ ~rst

(* A receive that does not fail (BConnection_unix.c:283-332).               *)
RecvWaits(w, h) ==
    /\ recv' = "busy" /\ recv_len' = recv_len /\ received' = received /\ inq' = inq
    /\ wait_events' = w \cup {"READ"} /\ is_hupd' = FALSE /\ ~h
    /\ recv_count' \in 0..LIMIT /\ (recv_count' = LIMIT \/ ~rst)

RecvsSome(w, h) ==
    /\ recv' = "done" /\ recv_len' \in Nat /\ recv_len' <= recv_len
    /\ recv_len > 0 => recv_len' > 0
    /\ received' = received + recv_len' /\ inq' \in Nat
    /\ wait_events' = w /\ is_hupd' = h
    /\ recv_count' \in 0..LIMIT /\ (h \/ recv_count < LIMIT)

sendSide == <<recv, recv_len, recv_count, inq, fin, rst, received>>
recvSide == <<send, send_len, send_count, room, fin, rst, written>>

(* Without a connection there is nothing to do for it                       *)
(* (BSocksClient.c:573-598).                                                *)
LEMMA Connected ==
    ASSUME Inv, send # "off" \/ recv # "off" \/ input # "off" \/ ready # {} \/ recv_job
    PROVE  state \notin {"none", "CONNECTING", "freed"}
BY Zenon DEF Inv, Off

(* A step of the connection that changes no variable of the client.         *)
LEMMA OthersStep ==
    ASSUME Inv, others, state \notin {"none", "CONNECTING", "freed"}, ConInv',
           Sending', Receiving', Up'
    PROVE  Inv'
<1>1. /\ UNCHANGED <<opts, server, state, buffer, input, in_len, in_used, recv_off, control_len, recv_total>>
      /\ UNCHANGED <<connect, connector, connector_fd, closes, reported, sent, got>>
    BY Zenon DEF others, upper, controlVars, connectorVars, given, userVars
<1>2. UpperTypeOK'
    BY <1>1 DEF Inv, UpperTypeOK
<1>3. Off' /\ Owner'
    BY <1>1, Zenon DEF Inv, Off, Owner
<1>4. Methods'
    BY <1>1, Zenon DEF Inv, Methods, usesPassword
<1>. QED BY <1>2, <1>3, <1>4, Zenon DEF Inv

(* What a send does to the client's bookkeeping                             *)
(* (PacketStreamSender.c:36-77).                                            *)
LEMMA SendSide ==
    ASSUME Inv, others, send \in {"op", "busy"},
           NEW w, NEW h, SendWaits(w, h) \/ SendsSome(w, h),
           UNCHANGED sendSide, recv_job' = FALSE \/ recv = "busy" \/ recv_job' = recv_job
    PROVE  Sending' /\ Receiving' /\ Up'
<1>1. /\ UNCHANGED <<opts, server, state, buffer, input, in_len, in_used, recv_off, control_len, recv_total>>
      /\ UNCHANGED <<sent, got>>
    BY Zenon DEF others, upper, controlVars, given, userVars
<1>2. UNCHANGED <<recv, recv_len, received>>
    BY Zenon DEF sendSide
<1>3. /\ UNCHANGED <<outBefore, inBefore, message, answer, outLen, inLen>>
      /\ UNCHANGED <<helloLen, passwordLen, requestLen, usesPassword>>
    BY <1>1, Zenon DEF outBefore, inBefore, message, answer, outLen, inLen, helloLen, passwordLen, requestLen, usesPassword
<1>4. send' \in {"busy", "done"} /\ send_len' \in Nat
    BY Zenon DEF SendWaits, SendsSome, Inv, ConInv, ConTypeOK
<1>5. send' = "busy" => send_len' = send_len /\ written' = written
    BY Zenon DEF SendWaits, SendsSome
<1>6. send' = "done" => /\ send_len' <= send_len /\ (send_len > 0 => send_len' > 0)
                       /\ written' = written + send_len'
    BY Zenon DEF SendWaits, SendsSome
<1>7. in_used \in Nat /\ in_len \in Int /\ send_len \in Nat /\ written \in Nat
    BY DEF Inv, UpperTypeOK, ConInv, ConTypeOK
<1>8. Sending'
    <2>. SUFFICES ASSUME state \in sendStates PROVE Sending'
        BY <1>1, Zenon DEF Sending, sendStates
    <2>1. /\ recv = "idle" /\ recv_job = FALSE /\ received = inBefore
          /\ input = "busy" /\ in_len = message /\ buffer = in_len
          /\ in_used < in_len /\ send_len = in_len - in_used /\ written = outBefore + in_used
        BY Zenon DEF Inv, Sending
    <2>2. recv_job' = FALSE
        BY <2>1, Zenon
    <2>3. outBefore \in Int
        BY Lengths, Zenon DEF Inv, UpperTypeOK
    <2>4. \/ /\ send' \in {"op", "busy"} /\ send_len' = in_len - in_used
             /\ written' = outBefore + in_used
          \/ /\ send' = "done" /\ send_len' > 0 /\ send_len' <= in_len - in_used
             /\ written' = outBefore + in_used + send_len'
        <3>1. CASE send' = "busy"
            BY <1>5, <2>1, <3>1, Zenon
        <3>2. CASE send' = "done"
            <4>1. send_len > 0
                BY <1>7, <2>1
            <4>2. send_len = in_len - in_used /\ send_len' <= send_len /\ send_len' \in Nat
                BY <1>4, <1>6, <1>7, <2>1, <3>2, Zenon
            <4>3. send_len' <= in_len - in_used
                BY <1>7, <4>2, Zenon
            <4>. QED BY <1>6, <2>1, <3>2, <4>1, <4>3, Zenon
        <3>. QED BY <1>4, <3>1, <3>2, Zenon
    <2>. QED BY <1>1, <1>2, <1>3, <2>1, <2>2, <2>4, Zenon DEF Sending
<1>9. Receiving'
    BY <1>1, Zenon DEF Inv, Receiving, recvStates
<1>10. Up'
    <2>. SUFFICES ASSUME state = "UP" PROVE Up'
        BY <1>1, Zenon DEF Up
    <2>1. outLen \in Int /\ sent \in Nat
        BY Lengths, Zenon DEF Inv, UpperTypeOK
    <2>2. input = "off" /\ recv # "off" /\ StreamsExact
        BY Zenon DEF Inv, Up
    <2>3. StreamsExact'
        BY <1>1, <1>2, <1>3, <1>4, <1>5, <1>6, <1>7, <2>1, <2>2 DEF StreamsExact
    <2>. QED BY <1>1, <1>2, <1>4, <2>2, <2>3, Zenon DEF Up
<1>. QED BY <1>8, <1>9, <1>10, Zenon

(* What a receive does to it (BSocksClient.c:133-149).                      *)
LEMMA RecvSide ==
    ASSUME Inv, others, recv \in {"op", "busy"}, recv_job' = recv_job \/ recv_job' = FALSE,
           NEW w, NEW h, RecvWaits(w, h) \/ RecvsSome(w, h), UNCHANGED recvSide
    PROVE  Sending' /\ Receiving' /\ Up'
<1>1. /\ UNCHANGED <<opts, server, state, buffer, input, in_len, in_used, recv_off, control_len, recv_total>>
      /\ UNCHANGED <<sent, got>>
    BY Zenon DEF others, upper, controlVars, given, userVars
<1>2. UNCHANGED <<send, send_len, written>>
    BY Zenon DEF recvSide
<1>3. /\ UNCHANGED <<outBefore, inBefore, message, answer, outLen, inLen>>
      /\ UNCHANGED <<helloLen, passwordLen, requestLen, usesPassword>>
    BY <1>1, Zenon DEF outBefore, inBefore, message, answer, outLen, inLen, helloLen, passwordLen, requestLen, usesPassword
<1>4. recv' \in {"busy", "done"} /\ recv_len' \in Nat
    BY Zenon DEF RecvWaits, RecvsSome, Inv, ConInv, ConTypeOK
<1>5. recv' = "busy" => recv_len' = recv_len /\ received' = received
    BY Zenon DEF RecvWaits, RecvsSome
<1>6. recv' = "done" => /\ recv_len' <= recv_len /\ (recv_len > 0 => recv_len' > 0)
                       /\ received' = received + recv_len'
    BY Zenon DEF RecvWaits, RecvsSome
<1>7. control_len \in Nat /\ recv_total \in Nat /\ recv_len \in Nat /\ received \in Nat
    BY Zenon DEF Inv, UpperTypeOK, ConInv, ConTypeOK
<1>8. Sending'
    BY <1>1, Zenon DEF Inv, Sending, sendStates
<1>9. Receiving'
    <2>. SUFFICES ASSUME state \in recvStates PROVE Receiving'
        BY <1>1, Zenon DEF Receiving, recvStates
    <2>1. /\ input = "idle" /\ send = "idle" /\ written = outBefore
          /\ recv_total = answer /\ recv_off + recv_total <= buffer
          /\ state = "SENT_REQUEST" => recv_off = 0 /\ buffer = HEADER + IPV6
          /\ state = "RECEIVED_REPLY_HEADER" => server.addr # 0
          /\ control_len < recv_total /\ recv_len = recv_total - control_len
          /\ received = inBefore + control_len
        BY Zenon DEF Inv, Receiving
    <2>2. inBefore \in Int
        BY Lengths, Zenon DEF Inv, UpperTypeOK
    <2>3. \/ /\ recv' \in {"op", "busy"} /\ recv_len' = recv_total - control_len
             /\ received' = inBefore + control_len
          \/ /\ recv' = "done" /\ recv_len' > 0 /\ recv_len' <= recv_total - control_len
             /\ received' = inBefore + control_len + recv_len'
        <3>1. CASE recv' = "busy"
            BY <1>5, <2>1, <3>1, Zenon
        <3>2. CASE recv' = "done"
            <4>1. recv_len > 0
                BY <1>7, <2>1
            <4>2. recv_len = recv_total - control_len /\ recv_len' <= recv_len /\ recv_len' \in Nat
                BY <1>4, <1>6, <1>7, <2>1, <3>2, Zenon
            <4>3. recv_len' <= recv_total - control_len
                BY <1>7, <4>2, Zenon
            <4>. QED BY <1>6, <2>1, <3>2, <4>1, <4>3, Zenon
        <3>. QED BY <1>4, <3>1, <3>2, Zenon
    <2>. QED BY <1>1, <1>2, <1>3, <2>1, <2>3, Zenon DEF Receiving
<1>10. Up'
    <2>. SUFFICES ASSUME state = "UP" PROVE Up'
        BY <1>1, Zenon DEF Up
    <2>1. inLen \in Int /\ got \in Nat
        BY Lengths, Zenon DEF Inv, UpperTypeOK
    <2>2. input = "off" /\ send # "off" /\ StreamsExact
        BY Zenon DEF Inv, Up
    <2>3. StreamsExact'
        BY <1>1, <1>2, <1>3, <1>4, <1>5, <1>6, <1>7, <2>1, <2>2 DEF StreamsExact
    <2>. QED BY <1>1, <1>2, <1>4, <2>2, <2>3, Zenon DEF Up
<1>. QED BY <1>8, <1>9, <1>10, Zenon

(* A step that moves no data of the connection leaves the client's          *)
(* bookkeeping as it is (BConnection_unix.c:334-382).                       *)
LEMMA SockSide ==
    ASSUME Inv, others,
           UNCHANGED <<send, send_len, recv, recv_len, recv_job>>, UNCHANGED <<received, written>>
    PROVE  Sending' /\ Receiving' /\ Up'
<1>1. /\ UNCHANGED <<opts, server, state, buffer, input, in_len, in_used, recv_off, control_len, recv_total>>
      /\ UNCHANGED <<sent, got>>
    BY Zenon DEF others, upper, controlVars, given, userVars
<1>2. /\ UNCHANGED <<outBefore, inBefore, message, answer, outLen, inLen>>
      /\ UNCHANGED <<helloLen, passwordLen, requestLen, usesPassword>>
    BY <1>1, Zenon DEF outBefore, inBefore, message, answer, outLen, inLen, helloLen, passwordLen, requestLen, usesPassword
<1>3. Sending'
    BY <1>1, <1>2, Zenon DEF Inv, Sending
<1>4. Receiving'
    BY <1>1, <1>2, Zenon DEF Inv, Receiving
<1>5. Up'
    BY <1>1, <1>2, Zenon DEF Inv, Up, StreamsExact
<1>. QED BY <1>3, <1>4, <1>5, Zenon
-----------------------------------------------------------------------------
(* connection_send_if_handler_send (BConnection_unix.c:404-420).            *)
LEMMA SendOperationStep == ASSUME Inv, send_operation(others, report_error) PROVE Inv'
<1>. DEFINE went == SendWaits(wait_events, is_hupd) \/ SendsSome(wait_events, is_hupd)
<1>1. send = "op" /\ state \notin {"none", "CONNECTING", "freed"}
    BY Connected, Zenon DEF send_operation
<1>2. send_len \in Nat /\ send_count \in 0..LIMIT /\ room \in 0..ROOM /\ written \in Nat /\ LIMIT \in Nat
    BY ConnectionSizes, Zenon DEF Inv, ConInv, ConTypeOK
<1>3. \/ report_error
      \/ went /\ others /\ UNCHANGED <<recvIf, recv_job, recv_count, ready, inq, fin, rst, received>>
    <2>1. least(send_len, room) \in Nat /\ least(send_len, room) <= send_len /\ least(send_len, room) <= room
        BY <1>2 DEF least
    <2>2. room > 0 /\ send_len > 0 => least(send_len, room) > 0
        BY <1>2, Zenon DEF least
    <2>3. room - least(send_len, room) \in 0..ROOM
        BY <1>2, <2>1, ConnectionSizes
    <2>. QED BY <1>2, <2>1, <2>2, <2>3
         DEF send_operation, connection_send, sendWaits, allowed, counted, SendWaits, SendsSome
<1>4. CASE report_error
    BY <1>1, <1>4, ReportStep, Zenon
<1>5. CASE went /\ others /\ UNCHANGED <<recvIf, recv_job, recv_count, ready, inq, fin, rst, received>>
    <2>1. UNCHANGED sendSide /\ UNCHANGED <<recv, recv_len, recv_job, recv_count, ready, inq, fin, rst, received>>
        BY <1>5, Zenon DEF sendSide, recvIf
    <2>2. ConInv'
        <3>0. is_hupd' \in BOOLEAN /\ wait_events' \subseteq {"READ", "WRITE"}
            BY <1>5, Zenon DEF SendWaits, SendsSome, Inv, ConInv, ConTypeOK
        <3>1. ConTypeOK'
            BY <1>2, <1>5, <2>1, <3>0 DEF SendWaits, SendsSome, Inv, ConInv, ConTypeOK, ifStates
        <3>2. WakesUp'
            BY <1>1, <1>5, <2>1 DEF SendWaits, SendsSome, Inv, ConInv, WakesUp
        <3>3. Returned'
            <4>1. ~trouble
                BY <1>2, <1>5, ConnectionSizes, Zenon DEF SendWaits, SendsSome, Inv, ConInv, Returned
            <4>. QED BY <1>5, <2>1, <4>1 DEF SendWaits, SendsSome, Inv, ConInv, Returned, trouble
        <3>. QED BY <3>1, <3>2, <3>3, Zenon DEF ConInv
    <2>3. Sending' /\ Receiving' /\ Up'
        BY <1>1, <1>5, <2>1, SendSide, Zenon
    <2>. QED BY <1>1, <1>5, <2>2, <2>3, OthersStep, Zenon
<1>. QED BY <1>3, <1>4, <1>5, Zenon

(* connection_recv_if_handler_recv (BConnection_unix.c:422-438).            *)
LEMMA RecvOperationStep == ASSUME Inv, recv_operation(others, report_error, connection_closed) PROVE Inv'
<1>. DEFINE went == RecvWaits(wait_events, is_hupd) \/ RecvsSome(wait_events, is_hupd)
<1>1. recv = "op" /\ state \notin {"none", "CONNECTING", "freed"}
    BY Connected, Zenon DEF recv_operation
<1>2. recv_len \in Nat /\ recv_count \in 0..LIMIT /\ inq \in Nat /\ received \in Nat /\ LIMIT \in Nat
    BY ConnectionSizes, Zenon DEF Inv, ConInv, ConTypeOK
<1>3. \/ report_error \/ connection_closed
      \/ went /\ others /\ UNCHANGED <<sendIf, recv_job, send_count, ready, room, fin, rst, written>>
    BY <1>2 DEF recv_operation, connection_recv, recvWaits, allowed, counted, least, RecvWaits, RecvsSome
<1>4. CASE report_error \/ connection_closed
    BY <1>1, <1>4, ReportStep, Zenon
<1>5. CASE went /\ others /\ UNCHANGED <<sendIf, recv_job, send_count, ready, room, fin, rst, written>>
    <2>1. UNCHANGED recvSide /\ UNCHANGED <<send, send_len, recv_job, send_count, ready, room, fin, rst, written>>
        BY <1>5, Zenon DEF recvSide, sendIf
    <2>2. recv_job = FALSE
        BY <1>1, Zenon DEF Inv, ConInv, ConTypeOK, Returned
    <2>3. ConInv'
        <3>0. is_hupd' \in BOOLEAN /\ wait_events' \subseteq {"READ", "WRITE"}
            BY <1>5, Zenon DEF RecvWaits, RecvsSome, Inv, ConInv, ConTypeOK
        <3>1. ConTypeOK'
            BY <1>2, <1>5, <2>1, <3>0 DEF RecvWaits, RecvsSome, Inv, ConInv, ConTypeOK, ifStates
        <3>2. WakesUp'
            BY <1>1, <1>5, <2>1, <2>2 DEF RecvWaits, RecvsSome, Inv, ConInv, WakesUp
        <3>3. Returned'
            BY <1>5, <2>1, <2>2 DEF RecvWaits, RecvsSome, Inv, ConInv, Returned, trouble
        <3>. QED BY <3>1, <3>2, <3>3, Zenon DEF ConInv
    <2>4. Sending' /\ Receiving' /\ Up'
        BY <1>1, <1>5, <2>1, RecvSide, Zenon
    <2>. QED BY <1>1, <1>5, <2>3, <2>4, OthersStep, Zenon
<1>. QED BY <1>3, <1>4, <1>5, Zenon

(* connection_recv_job_handler (BConnection_unix.c:394-402).                *)
LEMMA RecvJobStep ==
    ASSUME Inv, connection_recv_job_handler(others, report_error, connection_closed)
    PROVE  Inv'
<1>. DEFINE went == RecvWaits(wait_events, is_hupd) \/ RecvsSome(wait_events, is_hupd)
<1>1. recv = "busy" /\ recv_job /\ state \notin {"none", "CONNECTING", "freed"}
    BY Connected, Zenon DEF connection_recv_job_handler, Inv, ConInv, Returned
<1>2. recv_len \in Nat /\ recv_count \in 0..LIMIT /\ inq \in Nat /\ received \in Nat /\ LIMIT \in Nat
    BY ConnectionSizes, Zenon DEF Inv, ConInv, ConTypeOK
<1>3. \/ report_error \/ connection_closed
      \/ went /\ others /\ recv_job' = FALSE /\ UNCHANGED <<sendIf, send_count, ready, room, fin, rst, written>>
    BY <1>2 DEF connection_recv_job_handler, connection_recv, recvWaits, allowed, counted, least,
       RecvWaits, RecvsSome
<1>4. CASE report_error \/ connection_closed
    BY <1>1, <1>4, ReportStep, Zenon
<1>5. CASE went /\ others /\ recv_job' = FALSE /\ UNCHANGED <<sendIf, send_count, ready, room, fin, rst, written>>
    <2>1. UNCHANGED recvSide /\ UNCHANGED <<send, send_len, send_count, ready, room, fin, rst, written>>
        BY <1>5, Zenon DEF recvSide, sendIf
    <2>2. ConInv'
        <3>0. recv_job' \in BOOLEAN /\ is_hupd' \in BOOLEAN /\ wait_events' \subseteq {"READ", "WRITE"}
            BY <1>5, Zenon DEF RecvWaits, RecvsSome, Inv, ConInv, ConTypeOK
        <3>1. ConTypeOK'
            BY <1>2, <1>5, <2>1, <3>0 DEF RecvWaits, RecvsSome, Inv, ConInv, ConTypeOK, ifStates
        <3>2. WakesUp'
            BY <1>1, <1>5, <2>1 DEF RecvWaits, RecvsSome, Inv, ConInv, WakesUp
        <3>3. Returned'
            BY <1>5, <2>1 DEF RecvWaits, RecvsSome, Inv, ConInv, Returned, trouble
        <3>. QED BY <3>1, <3>2, <3>3, Zenon DEF ConInv
    <2>3. Sending' /\ Receiving' /\ Up'
        BY <1>1, <1>5, <2>1, RecvSide, Zenon
    <2>. QED BY <1>1, <1>5, <2>2, <2>3, OthersStep, Zenon
<1>. QED BY <1>3, <1>4, <1>5, Zenon

(* connection_fd_handler (BConnection_unix.c:334-382).                      *)
LEMMA FdStep ==
    ASSUME Inv, ~jobs, connection_fd_handler(others, report_error, connection_closed)
    PROVE  Inv'
<1>. DEFINE w == wait_events \ events
            h == "HUP" \in events
            sentOn == SendWaits(w, h) \/ SendsSome(w, h)
            readOn == RecvWaits(w, h) \/ RecvsSome(w, h)
<1>1. ready # {} /\ is_hupd = FALSE /\ recv_job = FALSE /\ state \notin {"none", "CONNECTING", "freed"}
    <2>1. ready # {}
        BY Zenon DEF connection_fd_handler, events
    <2>2. is_hupd = FALSE /\ recv_job = FALSE
        BY <2>1, Zenon DEF Inv, ConInv, ConTypeOK, Returned, jobs, conJobs
    <2>. QED BY <2>1, <2>2, Connected, Zenon
<1>2. /\ send_len \in Nat /\ send_count \in 0..LIMIT /\ room \in 0..ROOM /\ written \in Nat
      /\ recv_len \in Nat /\ recv_count \in 0..LIMIT /\ inq \in Nat /\ received \in Nat /\ LIMIT \in Nat \ {0}
    BY ConnectionSizes, Zenon DEF Inv, ConInv, ConTypeOK
<1>3. /\ "WRITE" \in wait_events <=> send = "busy"
      /\ "READ" \in wait_events <=> recv = "busy"
    BY <1>1, Zenon DEF Inv, ConInv, WakesUp
<1>4. /\ "WRITE" \in events <=> "WRITE" \in ready /\ "WRITE" \in wait_events
      /\ "READ" \in events <=> "READ" \in ready /\ "READ" \in wait_events
      /\ "HUP" \in events => trouble
    BY Zenon DEF events, trouble
<1>5. /\ trouble => rst /\ send_count = 0
      /\ trouble /\ recv = "busy" /\ "READ" \notin ready => recv_count = LIMIT
    BY <1>1, Zenon DEF Inv, ConInv, Returned
<1>6. h \in BOOLEAN /\ w \subseteq {"READ", "WRITE"}
    <2>1. h \in BOOLEAN
        OBVIOUS
    <2>2. w \subseteq {"READ", "WRITE"}
        BY Zenon DEF Inv, ConInv, ConTypeOK
    <2>. QED BY <2>1, <2>2, Zenon
<1>7. \/ report_error \/ connection_closed
      \/ /\ haveSend /\ sentOn /\ others /\ recv_job' = haveRecv /\ ready' = {}
         /\ UNCHANGED <<recvIf, recv_count, inq, fin, rst, received>>
      \/ /\ ~haveSend /\ haveRecv /\ readOn /\ others /\ ready' = {}
         /\ UNCHANGED <<sendIf, recv_job, send_count, room, fin, rst, written>>
      \/ /\ ~haveSend /\ ~haveRecv /\ h
         /\ is_hupd' = TRUE /\ wait_events' = w /\ ready' = {}
         /\ UNCHANGED <<sendIf, recvIf, recv_job, send_count, recv_count, sockVars>> /\ others
    <2>1. least(send_len, room) \in Nat /\ least(send_len, room) <= send_len /\ least(send_len, room) <= room
        BY <1>2 DEF least
    <2>2. room > 0 /\ send_len > 0 => least(send_len, room) > 0
        BY <1>2, Zenon DEF least
    <2>3. room - least(send_len, room) \in 0..ROOM
        BY <1>2, <2>1, ConnectionSizes
    <2>4. CASE haveSend
        <3>1. connection_send(send_len, w, h,
                              others /\ recv_job' = haveRecv /\ ready' = {}
                                     /\ UNCHANGED <<recvIf, recv_count, inq, fin, rst, received>>,
                              report_error)
            BY <2>4, Zenon DEF connection_fd_handler
        <3>. HIDE DEF w, h
        <3>. QED BY <1>2, <2>1, <2>2, <2>3, <2>4, <3>1
             DEF connection_send, sendWaits, allowed, counted, SendWaits, SendsSome
    <2>5. CASE ~haveSend /\ haveRecv
        <3>. DEFINE rest == /\ others /\ ready' = {}
                            /\ UNCHANGED <<sendIf, recv_job, send_count, room, fin, rst, written>>
        <3>1. connection_recv(recv_len, w, h, rest, report_error, connection_closed)
            BY <2>5, Zenon DEF connection_fd_handler
        <3>2. least(recv_len, inq) \in Nat /\ least(recv_len, inq) <= recv_len /\ inq - least(recv_len, inq) \in Nat
            BY <1>2 DEF least
        <3>3. inq > 0 /\ recv_len > 0 => least(recv_len, inq) > 0
            BY <1>2, Zenon DEF least
        <3>4. report_error \/ connection_closed \/ (rest /\ readOn)
            <4>. HIDE DEF w, h, rest
            <4>. QED BY <1>2, <1>6, <3>1, <3>2, <3>3
                 DEF connection_recv, recvWaits, allowed, counted, RecvWaits, RecvsSome
        <3>. QED BY <2>5, <3>4, Zenon
    <2>6. CASE ~haveSend /\ ~haveRecv
        BY <2>6, Zenon DEF connection_fd_handler
    <2>. QED BY <2>4, <2>5, <2>6, Zenon
<1>8. CASE report_error \/ connection_closed
    BY <1>1, <1>8, ReportStep, Zenon
<1>9. CASE /\ haveSend /\ sentOn /\ others /\ recv_job' = haveRecv /\ ready' = {}
           /\ UNCHANGED <<recvIf, recv_count, inq, fin, rst, received>>
    <2>1. UNCHANGED sendSide /\ UNCHANGED <<recv, recv_len, recv_count, inq, fin, rst, received>>
        BY <1>9, Zenon DEF sendSide, recvIf
    <2>2. ~trouble /\ h = FALSE
        BY <1>2, <1>4, <1>5, <1>9 DEF SendWaits, SendsSome
    <2>3. send = "busy" /\ "WRITE" \in events /\ (haveRecv <=> "READ" \in events)
        BY <1>3, <1>4, <1>9, <2>2, Zenon DEF haveSend, haveRecv
    <2>4. haveRecv \in BOOLEAN /\ (haveRecv => recv = "busy")
        BY <1>3, <1>4, <2>3, Zenon DEF haveRecv
    <2>5. is_hupd' = FALSE
        BY <1>9, <2>2, Zenon DEF SendWaits, SendsSome
    <2>6. ConTypeOK'
        <3>1. recv_job' \in BOOLEAN /\ is_hupd' \in BOOLEAN /\ wait_events' \subseteq {"READ", "WRITE"}
            BY <1>6, <1>9, <2>4, <2>5, Zenon DEF SendWaits, SendsSome
        <3>. QED BY <1>2, <1>9, <2>1, <3>1 DEF SendWaits, SendsSome, Inv, ConInv, ConTypeOK, ifStates
    <2>7. WakesUp'
        <3>1. "WRITE" \in wait_events' <=> send' = "busy"
            BY <1>9, <2>3, Zenon DEF SendWaits, SendsSome
        <3>2. "READ" \in wait_events' <=> recv' = "busy" /\ ~recv_job'
            BY <1>3, <1>4, <1>9, <2>1, <2>3, Zenon DEF SendWaits, SendsSome
        <3>. QED BY <2>5, <3>1, <3>2, Zenon DEF WakesUp
    <2>8. Returned'
        BY <1>9, <2>1, <2>4, Zenon DEF Returned, trouble
    <2>9. Sending' /\ Receiving' /\ Up'
        <3>1. recv_job' = FALSE \/ recv = "busy"
            BY <1>9, <2>4, Zenon
        <3>2. send \in {"op", "busy"}
            BY <2>3, Zenon
        <3>. QED BY <1>9, <2>1, <3>1, <3>2, SendSide, Zenon
    <2>. QED BY <1>1, <1>9, <2>6, <2>7, <2>8, <2>9, OthersStep, Zenon DEF ConInv
<1>10. CASE /\ ~haveSend /\ haveRecv /\ readOn /\ others /\ ready' = {}
            /\ UNCHANGED <<sendIf, recv_job, send_count, room, fin, rst, written>>
    <2>1. UNCHANGED recvSide /\ UNCHANGED <<send, send_len, recv_job, send_count, room, fin, rst, written>>
        BY <1>10, Zenon DEF recvSide, sendIf
    <2>2. recv = "busy" /\ ("READ" \notin events => trouble /\ "READ" \notin ready)
        BY <1>3, <1>4, <1>10, Zenon DEF haveRecv
    <2>3. "WRITE" \notin events /\ (trouble => send # "busy")
        BY <1>10, Zenon DEF haveSend
    <2>4. ConTypeOK'
        <3>1. is_hupd' \in BOOLEAN /\ wait_events' \subseteq {"READ", "WRITE"}
            BY <1>6, <1>10, Zenon DEF RecvWaits, RecvsSome
        <3>. QED BY <1>2, <1>10, <2>1, <3>1 DEF RecvWaits, RecvsSome, Inv, ConInv, ConTypeOK, ifStates
    <2>5. WakesUp'
        <3>1. CASE RecvWaits(w, h)
            BY <1>1, <1>3, <2>1, <2>3, <3>1, Zenon DEF RecvWaits, WakesUp
        <3>2. CASE RecvsSome(w, h) /\ h
            BY <1>4, <2>1, <2>3, <3>2, Zenon DEF RecvsSome, WakesUp
        <3>3. CASE RecvsSome(w, h) /\ ~h
            <4>1. "READ" \in events
                BY <1>2, <1>5, <2>2, <3>3 DEF RecvsSome
            <4>. QED BY <1>3, <1>6, <2>1, <2>3, <3>3, <4>1, Zenon DEF RecvsSome, WakesUp
        <3>. QED BY <1>10, <3>1, <3>2, <3>3, Zenon
    <2>6. Returned'
        BY <1>1, <1>10, <2>1, Zenon DEF Returned, trouble
    <2>7. Sending' /\ Receiving' /\ Up'
        BY <1>10, <2>1, <2>2, RecvSide, Zenon
    <2>. QED BY <1>1, <1>10, <2>4, <2>5, <2>6, <2>7, OthersStep, Zenon DEF ConInv
<1>11. CASE /\ ~haveSend /\ ~haveRecv /\ h
            /\ is_hupd' = TRUE /\ wait_events' = w /\ ready' = {}
            /\ UNCHANGED <<sendIf, recvIf, recv_job, send_count, recv_count, sockVars>> /\ others
    <2>1. /\ UNCHANGED <<send, send_len, recv, recv_len, recv_job, send_count, recv_count>>
          /\ UNCHANGED <<inq, room, fin, rst, received, written>>
        BY <1>11, Zenon DEF sendIf, recvIf, sockVars
    <2>2. ConTypeOK'
        <3>1. is_hupd' \in BOOLEAN
            BY <1>11, Zenon
        <3>. QED BY <1>6, <1>11, <2>1, <3>1, Zenon DEF Inv, ConInv, ConTypeOK
    <2>3. WakesUp'
        BY <1>4, <1>11, <2>1, Zenon DEF WakesUp, haveSend, haveRecv
    <2>4. Returned'
        BY <1>1, <1>11, <2>1, Zenon DEF Returned, trouble
    <2>5. Sending' /\ Receiving' /\ Up'
        BY <1>11, <2>1, SockSide, Zenon
    <2>. QED BY <1>1, <1>11, <2>2, <2>3, <2>4, <2>5, OthersStep, Zenon DEF ConInv
<1>. QED BY <1>7, <1>8, <1>9, <1>10, <1>11, Zenon
-----------------------------------------------------------------------------
(* A step of the connection's user starts or ends an operation, and leaves  *)
(* the reactor and the socket alone (StreamPassInterface.h:82-160).         *)
LEMMA ConMoves ==
    ASSUME ConInv, UNCHANGED <<reactorVars, sockVars>>,
           send' = send \/ (send # "busy" /\ send' \in {"idle", "op"}), send_len' \in Nat,
           recv' = recv \/ (recv # "busy" /\ recv' \in {"idle", "op"}), recv_len' \in Nat
    PROVE  ConInv'
<1>1. /\ UNCHANGED <<recv_job, wait_events, is_hupd, send_count, recv_count, ready>>
      /\ UNCHANGED <<inq, room, fin, rst, received, written>>
    BY Zenon DEF reactorVars, sockVars
<1>2. ConTypeOK'
    BY <1>1, Zenon DEF ConInv, ConTypeOK, ifStates
<1>3. WakesUp'
    BY <1>1, Zenon DEF ConInv, WakesUp
<1>4. Returned'
    BY <1>1, Zenon DEF ConInv, Returned, trouble
<1>. QED BY <1>2, <1>3, <1>4, Zenon DEF ConInv

(* wait_for_events (BReactor_badvpn.c:541-549), and an entry with nothing   *)
(* left to report (BReactor_badvpn.c:825-867).                              *)
LEMMA WaitStep == ASSUME Inv, others, wait_for_events \/ no_events PROVE Inv'
<1>1. /\ UNCHANGED <<send, send_len, recv, recv_len, recv_job, wait_events, is_hupd>>
      /\ UNCHANGED <<inq, room, fin, rst, received, written>>
      /\ state \notin {"none", "CONNECTING", "freed"}
    BY Connected, Zenon DEF wait_for_events, no_events, sendIf, recvIf, sockVars
<1>2. ready' \subseteq {"READ", "WRITE", "ERROR", "HUP"} /\ send_count' \in 0..LIMIT /\ recv_count' \in 0..LIMIT
    <2>1. CASE no_events
        BY <2>1, Zenon DEF no_events, Inv, ConInv, ConTypeOK
    <2>2. CASE wait_for_events
        <3>1. send_count' \in 0..LIMIT /\ recv_count' \in 0..LIMIT
            BY <2>2, ConnectionSizes DEF wait_for_events
        <3>2. ready' \subseteq {"READ", "WRITE", "ERROR", "HUP"}
            BY <2>2, Zenon DEF wait_for_events, pollable
        <3>. QED BY <3>1, <3>2, Zenon
    <2>. QED BY <2>1, <2>2, Zenon
<1>3. ConTypeOK'
    BY <1>1, <1>2, Zenon DEF Inv, ConInv, ConTypeOK
<1>4. WakesUp'
    BY <1>1, Zenon DEF Inv, ConInv, WakesUp
<1>5. Returned'
    <2>1. CASE no_events
        BY <1>1, <2>1 DEF no_events, Inv, ConInv, Returned, trouble
    <2>2. CASE wait_for_events
        <3>1. PICK e \in SUBSET {"ERROR", "HUP"} : ((e # {}) <=> rst) /\ ready' = pollable \cup e
            BY <2>2, Zenon DEF wait_for_events
        <3>2. is_hupd = FALSE /\ recv_job = FALSE /\ send_count' = 0
            BY <2>2, Zenon DEF wait_for_events, conJobs, Inv, ConInv, ConTypeOK
        <3>3. trouble' => rst
            BY <3>1, Zenon DEF trouble, pollable
        <3>4. rst /\ send = "busy" => "WRITE" \in ready'
            BY <3>1, <3>2, Zenon DEF pollable, Inv, ConInv, WakesUp
        <3>5. rst /\ recv = "busy" => "READ" \in ready'
            BY <3>1, <3>2, Zenon DEF pollable, Inv, ConInv, WakesUp
        <3>. QED BY <1>1, <3>2, <3>3, <3>4, <3>5, Zenon DEF Returned
    <2>. QED BY <2>1, <2>2, Zenon
<1>6. Sending' /\ Receiving' /\ Up'
    BY <1>1, SockSide, Zenon
<1>. QED BY <1>1, <1>3, <1>4, <1>5, <1>6, OthersStep, Zenon DEF ConInv

(* The kernel and the server move (external).                               *)
LEMMA NetworkStep ==
    ASSUME Inv,
           \/ server_reads \/ server_closes \/ server_resets
           \/ \E n \in 1..(inLen + DATA) : server_sends(n)
    PROVE  Inv'
<1>1. connect = "ok" /\ UNCHANGED conVars /\ others /\ UNCHANGED <<received, written>>
    BY Zenon DEF server_reads, server_closes, server_resets, server_sends, network,
       peer_reads, peer_closes, peer_resets, peer_sends
<1>2. UNCHANGED <<send, send_len, recv, recv_len, recv_job, wait_events, is_hupd, send_count, recv_count, ready>>
    BY <1>1, Zenon DEF conVars, sendIf, recvIf, reactorVars
<1>3. inLen + DATA \in Int
    BY Lengths, OptionsAssumption DEF Inv, UpperTypeOK
<1>4. inq' \in Nat /\ room' \in 0..ROOM
    BY <1>3, ConnectionSizes
    DEF server_reads, server_closes, server_resets, server_sends, network,
        peer_reads, peer_closes, peer_resets, peer_sends, Inv, ConInv, ConTypeOK
<1>5. fin' \in BOOLEAN
    BY Zenon DEF server_reads, server_closes, server_resets, server_sends, network,
        peer_reads, peer_closes, peer_resets, peer_sends, Inv, ConInv, ConTypeOK
<1>6. rst' \in BOOLEAN /\ (rst => rst')
    BY Zenon DEF server_reads, server_closes, server_resets, server_sends, network,
        peer_reads, peer_closes, peer_resets, peer_sends, Inv, ConInv, ConTypeOK
<1>7. ConInv'
    BY <1>1, <1>4, <1>5, <1>6, ConStays, Zenon DEF Inv, ConInv, ConTypeOK
<1>8. Sending' /\ Receiving' /\ Up'
    BY <1>1, <1>2, SockSide, Zenon
<1>9. CASE state \notin {"none", "CONNECTING", "freed"}
    BY <1>1, <1>7, <1>8, <1>9, OthersStep, Zenon
<1>10. CASE state \in {"none", "CONNECTING", "freed"}
    <2>1. /\ UNCHANGED <<opts, server, state, buffer, input, in_len, in_used, recv_off, control_len, recv_total>>
          /\ UNCHANGED <<connect, connector, connector_fd, closes, reported, sent, got>>
        BY <1>1, Zenon DEF others, upper, controlVars, connectorVars, given, userVars
    <2>2. UpperTypeOK'
        BY <2>1 DEF Inv, UpperTypeOK
    <2>3. Off' /\ Owner'
        BY <1>1, <1>2, <2>1, Zenon DEF Inv, Off, Owner
    <2>4. Methods'
        BY <2>1, Zenon DEF Inv, Methods, usesPassword
    <2>. QED BY <1>7, <1>8, <2>2, <2>3, <2>4, Zenon DEF Inv
<1>. QED BY <1>9, <1>10, Zenon

(* The kernel's connection attempt ends (external).                         *)
LEMMA ConnectStep == ASSUME Inv, connect_ends PROVE Inv'
<1>1. /\ UNCHANGED <<opts, server, state, buffer, input, in_len, in_used, recv_off, control_len, recv_total>>
      /\ UNCHANGED <<connector, connector_fd, closes, reported, sent, got>>
      /\ UNCHANGED <<send, send_len, recv, recv_len, recv_job, wait_events, is_hupd, send_count, recv_count, ready>>
      /\ UNCHANGED <<inq, room, fin, rst, received, written>>
      /\ connect = "trying" /\ connect' \in {"ok", "failed"}
    BY Zenon DEF connect_ends, conVars, sendIf, recvIf, reactorVars, sockVars, controlVars, given, userVars
<1>2. /\ UNCHANGED <<outBefore, inBefore, message, answer, outLen, inLen>>
      /\ UNCHANGED <<helloLen, passwordLen, requestLen, usesPassword>>
    BY <1>1, Zenon DEF outBefore, inBefore, message, answer, outLen, inLen, helloLen, passwordLen, requestLen, usesPassword
<1>3. ConInv'
    <2>1. UNCHANGED conVars
        BY Zenon DEF connect_ends
    <2>. QED BY <1>1, <2>1, ConStays, Zenon DEF Inv, ConInv, ConTypeOK
<1>4. UpperTypeOK'
    BY <1>1 DEF Inv, UpperTypeOK
<1>5. Off'
    BY <1>1, Zenon DEF Inv, Off
<1>6. Owner'
    BY <1>1, Zenon DEF Inv, Owner
<1>7. Sending'
    BY <1>1, <1>2, Zenon DEF Inv, Sending
<1>8. Receiving' /\ Methods'
    BY <1>1, <1>2, Zenon DEF Inv, Receiving, Methods
<1>9. Up'
    BY <1>1, <1>2, Zenon DEF Inv, Up, StreamsExact
<1>. QED BY <1>3, <1>4, <1>5, <1>6, <1>7, <1>8, <1>9, Zenon DEF Inv
-----------------------------------------------------------------------------
(* A client that has its connection sends, receives or is up                *)
(* (BSocksClient.c:44-52).                                                  *)
LEMMA Where ==
    ASSUME Inv, state \notin {"none", "CONNECTING", "freed"}
    PROVE  state \in sendStates \/ state \in recvStates \/ state = "UP"
BY Zenon DEF Inv, UpperTypeOK, sendStates, recvStates

(* A step from one of these states to another leaves the socket's owner.    *)
LEMMA Keeps ==
    ASSUME Inv, state \notin {"none", "CONNECTING", "freed"}, state' \notin {"none", "CONNECTING", "freed"},
           UNCHANGED <<connectorVars, closes>>
    PROVE  Off' /\ Owner'
<1>1. UNCHANGED <<connect, connector, connector_fd, closes>>
    BY Zenon DEF connectorVars
<1>. QED BY <1>1, Zenon DEF Inv, Off, Owner

(* The lengths depend on the options, the server and the state only.        *)
LEMMA SameLengths ==
    ASSUME UNCHANGED <<opts, server>>
    PROVE  /\ UNCHANGED <<outLen, inLen, helloLen, passwordLen, requestLen, usesPassword>>
           /\ state' = state => UNCHANGED <<outBefore, inBefore, message, answer>>
<1>1. UNCHANGED <<outLen, inLen, helloLen, passwordLen, requestLen, usesPassword>>
    BY Zenon DEF outLen, inLen, helloLen, passwordLen, requestLen, usesPassword
<1>2. state' = state => UNCHANGED <<outBefore, inBefore, message, answer>>
    BY <1>1, Zenon DEF outBefore, inBefore, message, answer
<1>. QED BY <1>1, <1>2, Zenon

(* input_handler_send (PacketStreamSender.c:50-63).                         *)
LEMMA InputStep == ASSUME Inv, input_handler_send PROVE Inv'
<1>1. /\ input = "op" /\ input' = "busy" /\ send' = "op" /\ send_len' = in_len - in_used
      /\ UNCHANGED <<recv, recv_len, recv_job, received, written, buffer, in_len, in_used, recv_off, control_len,
                     recv_total, opts, server, sent, got, state, reported>>
      /\ UNCHANGED <<connectorVars, closes, reactorVars, sockVars>> /\ UNCHANGED <<connect, connector, connector_fd>>
    BY Zenon DEF input_handler_send, recvIf, reactorVars, sockVars, given, userVars, connectorVars
<1>2. state \notin {"none", "CONNECTING", "freed"} /\ state \in sendStates
    <2>1. state \notin {"none", "CONNECTING", "freed"}
        BY <1>1, Connected, Zenon
    <2>. QED BY <1>1, <2>1, Where, Zenon DEF Inv, Receiving, Up
<1>3. /\ recv = "idle" /\ recv_job = FALSE /\ received = inBefore /\ send = "idle" /\ written = outBefore
      /\ in_used = 0 /\ in_len = message /\ buffer = in_len
    BY <1>1, <1>2, Zenon DEF Inv, Sending
<1>4. message \in Nat /\ message > 0
    BY Lengths, Zenon DEF Inv, UpperTypeOK, message
<1>5. outBefore \in Int
    BY Lengths, Zenon DEF Inv, UpperTypeOK
<1>6. send_len' = message
    BY <1>1, <1>3, <1>4
<1>7. ConInv'
    BY <1>1, <1>3, <1>4, <1>6, ConMoves, Zenon DEF Inv, ConInv, ConTypeOK
<1>8. UpperTypeOK'
    BY <1>1 DEF Inv, UpperTypeOK, ifStates
<1>9. Sending'
    BY <1>1, <1>3, <1>4, <1>5, <1>6, SameLengths DEF Sending
<1>10. Receiving' /\ Up'
    BY <1>1, <1>2, Zenon DEF Receiving, Up, sendStates, recvStates
<1>11. Methods'
    BY <1>1, SameLengths, Zenon DEF Inv, Methods
<1>12. Off' /\ Owner'
    BY <1>1, <1>2, Keeps, Zenon
<1>. QED BY <1>7, <1>8, <1>9, <1>10, <1>11, <1>12, Zenon DEF Inv

(* output_handler_done (PacketStreamSender.c:65-77).                        *)
LEMMA OutputStep == ASSUME Inv, output_handler_done PROVE Inv'
<1>1. /\ send = "done" /\ in_used' = in_used + send_len
      /\ UNCHANGED <<recv, recv_len, recv_job, received, written, buffer, recv_off, control_len,
                     recv_total, opts, server, sent, got, state, reported>>
      /\ UNCHANGED <<connectorVars, closes, reactorVars, sockVars>> /\ UNCHANGED <<connect, connector, connector_fd>>
    BY Zenon DEF output_handler_done, recvIf, reactorVars, sockVars, given, userVars, connectorVars
<1>2. state \notin {"none", "CONNECTING", "freed"} /\ state \in sendStates
    <2>1. state \notin {"none", "CONNECTING", "freed"} /\ state # "UP"
        BY <1>1, Connected, Zenon DEF output_handler_done
    <2>. QED BY <1>1, <2>1, Where, Zenon DEF Inv, Receiving
<1>3. /\ recv = "idle" /\ recv_job = FALSE /\ received = inBefore /\ input = "busy"
      /\ in_len = message /\ buffer = in_len /\ send_len > 0 /\ send_len <= in_len - in_used
      /\ written = outBefore + in_used + send_len
    BY <1>1, <1>2, Zenon DEF Inv, Sending
<1>4. /\ message \in Nat /\ in_used \in Nat /\ send_len \in Nat /\ outBefore \in Int
    BY Lengths, Zenon DEF Inv, UpperTypeOK, ConInv, ConTypeOK, message
<1>5. in_used' \in Nat /\ written = outBefore + in_used'
    BY <1>1, <1>3, <1>4
<1>6. Receiving' /\ Up'
    BY <1>1, <1>2, Zenon DEF Receiving, Up, sendStates, recvStates
<1>7. Methods'
    BY <1>1, SameLengths, Zenon DEF Inv, Methods
<1>8. Off' /\ Owner'
    BY <1>1, <1>2, Keeps, Zenon
<1>9. CASE in_used' < in_len
    <2>1. send' = "op" /\ send_len' = in_len - in_used' /\ UNCHANGED <<input, in_len>>
        BY <1>3, <1>4, <1>5, <1>9 DEF output_handler_done
    <2>2. send_len' \in Nat
        <3>1. in_len \in Nat
            BY <1>3, <1>4, Zenon
        <3>2. PICK x \in Nat : x = in_used'
            BY <1>5, Zenon
        <3>3. x < in_len
            BY <1>9, <3>2, Zenon
        <3>4. in_len - x \in Nat
            BY <3>1, <3>3
        <3>. QED BY <2>1, <3>2, <3>4, Zenon
    <2>3. ConInv'
        BY <1>1, <2>1, <2>2, ConMoves, Zenon DEF Inv, ConInv, ConTypeOK
    <2>4. UpperTypeOK'
        BY <1>1, <1>5, <2>1 DEF Inv, UpperTypeOK
    <2>5. Sending'
        BY <1>1, <1>3, <1>5, <1>9, <2>1, SameLengths, Zenon DEF Sending
    <2>. QED BY <1>6, <1>7, <1>8, <2>3, <2>4, <2>5, Zenon DEF Inv
<1>10. CASE ~(in_used' < in_len)
    <2>1. send' = "idle" /\ send_len' = 0 /\ input' = "done" /\ in_len' = -1
        BY <1>3, <1>4, <1>5, <1>10, Zenon DEF output_handler_done
    <2>2. in_used' = message
        BY <1>1, <1>3, <1>4, <1>10
    <2>3. ConInv'
        BY <1>1, <2>1, ConMoves, Zenon DEF Inv, ConInv, ConTypeOK
    <2>4. UpperTypeOK'
        BY <1>1, <1>5, <2>1 DEF Inv, UpperTypeOK, ifStates
    <2>5. Sending'
        BY <1>1, <1>3, <1>5, <2>1, <2>2, SameLengths, Zenon DEF Sending
    <2>. QED BY <1>6, <1>7, <1>8, <2>3, <2>4, <2>5, Zenon DEF Inv
<1>. QED BY <1>9, <1>10, Zenon
-----------------------------------------------------------------------------
(* A client in a receiving state whose read has just completed              *)
(* (BSocksClient.c:236-245).                                                *)
LEMMA Answered ==
    ASSUME Inv, recv = "done", state # "UP"
    PROVE  /\ state \in recvStates /\ state \notin {"none", "CONNECTING", "freed"}
           /\ input = "idle" /\ send = "idle" /\ written = outBefore /\ recv_job = FALSE
           /\ recv_total = answer /\ recv_off + recv_total <= buffer
           /\ state = "SENT_REQUEST" => recv_off = 0 /\ buffer = HEADER + IPV6
           /\ state = "RECEIVED_REPLY_HEADER" => server.addr # 0
           /\ recv_len > 0 /\ recv_len <= recv_total - control_len
           /\ received = inBefore + control_len + recv_len
           /\ recv_len \in Nat /\ recv_total \in Nat /\ control_len \in Nat /\ received \in Nat
<1>1. state \notin {"none", "CONNECTING", "freed"}
    BY Connected, Zenon
<1>2. state \in recvStates
    BY <1>1, Where, Zenon DEF Inv, Sending
<1>3. recv_len \in Nat /\ recv_total \in Nat /\ control_len \in Nat /\ received \in Nat
    BY Zenon DEF Inv, UpperTypeOK, ConInv, ConTypeOK
<1>4. recv_job = FALSE
    BY Zenon DEF Inv, ConInv, ConTypeOK, Returned
<1>. QED BY <1>1, <1>2, <1>3, <1>4, Zenon DEF Inv, Receiving

(* recv_handler_done before the end of the answer (BSocksClient.c:236-245). *)
LEMMA PartStep == ASSUME Inv, recv_handler_done_part PROVE Inv'
<1>1. /\ recv = "done" /\ state # "UP" /\ control_len + recv_len < recv_total
      /\ control_len' = control_len + recv_len /\ recv' = "op" /\ recv_len' = recv_total - control_len'
      /\ UNCHANGED <<send, send_len, received, written, buffer, input, in_len, in_used, recv_off,
                     recv_total, opts, server, sent, got, state, reported>>
      /\ UNCHANGED <<connectorVars, closes, reactorVars, sockVars>> /\ UNCHANGED <<connect, connector, connector_fd>>
    BY Zenon DEF recv_handler_done_part, sendIf, sockVars, given, userVars, connectorVars
<1>2. inBefore \in Int
    BY Lengths, Zenon DEF Inv, UpperTypeOK
<1>3. /\ control_len' \in Nat /\ recv_len' \in Nat /\ received = inBefore + control_len'
      /\ control_len' < recv_total
    <2>. DEFINE c == control_len + recv_len
    <2>1. c \in Nat /\ c < recv_total /\ recv_total - c \in Nat /\ received = inBefore + c
        BY <1>1, <1>2, Answered
    <2>2. control_len' = c /\ recv_len' = recv_total - c
        BY <1>1, Zenon
    <2>. QED BY <2>1, <2>2, Zenon
<1>4. ConInv'
    BY <1>1, <1>3, ConMoves, Zenon DEF Inv, ConInv, ConTypeOK
<1>5. UpperTypeOK'
    BY <1>1, <1>3 DEF Inv, UpperTypeOK
<1>6. Receiving'
    BY <1>1, <1>3, Answered, SameLengths, Zenon DEF Receiving
<1>7. Sending' /\ Up' /\ state' \notin {"none", "CONNECTING", "freed"}
    BY <1>1, Answered, Zenon DEF Sending, Up, sendStates, recvStates
<1>8. Methods'
    BY <1>1, SameLengths, Zenon DEF Inv, Methods
<1>9. Off' /\ Owner'
    BY <1>1, <1>7, Answered, Keeps, Zenon
<1>. QED BY <1>4, <1>5, <1>6, <1>7, <1>8, <1>9, Zenon DEF Inv

(* The next message goes out (BSocksClient.c:262-275, 402-512).             *)
LEMMA AnsweredStep ==
    ASSUME Inv, complete, NEW next, NEW n, answered(next, n),
           \/ /\ state = "SENT_HELLO" /\ next = "SENDING_PASSWORD" /\ n = passwordLen /\ usesPassword
           \/ /\ state = "SENT_HELLO" /\ next = "SENDING_REQUEST" /\ n = requestLen /\ server.method = "none"
           \/ /\ state = "SENT_PASSWORD" /\ next = "SENDING_REQUEST" /\ n = requestLen
    PROVE  Inv'
<1>1. /\ recv = "done" /\ state # "UP" /\ control_len + recv_len >= recv_total
      /\ state' = next /\ buffer' = n /\ input' = "op" /\ in_len' = n /\ in_used' = 0
      /\ recv' = "idle" /\ recv_len' = 0 /\ control_len' = recv_total
      /\ UNCHANGED <<send, send_len, recv_job, received, written, recv_off, recv_total,
                     opts, server, sent, got, reported>>
      /\ UNCHANGED <<connectorVars, closes, reactorVars, sockVars>> /\ UNCHANGED <<connect, connector, connector_fd>>
    BY Zenon DEF complete, answered, send_message, sendIf, reactorVars, sockVars, given, userVars, connectorVars
<1>2. /\ send = "idle" /\ written = outBefore /\ recv_job = FALSE
      /\ received = inBefore + recv_total /\ recv_total = answer
    <2>1. inBefore \in Int
        BY Lengths, Zenon DEF Inv, UpperTypeOK
    <2>. QED BY <1>1, <2>1, Answered
<1>3. n \in Nat
    BY Lengths, Zenon DEF Inv, UpperTypeOK
<1>4. ConInv'
    BY <1>1, ConMoves, Zenon DEF Inv, ConInv, ConTypeOK
<1>5. UpperTypeOK'
    BY <1>1, <1>3, Answered, Zenon DEF Inv, UpperTypeOK, ifStates
<1>6. opts \in Options /\ server \in Servers
    BY Zenon DEF Inv, UpperTypeOK
<1>7. message' = n /\ outBefore' = outBefore /\ inBefore' = inBefore + answer
    <2>1. /\ UNCHANGED <<outLen, inLen, helloLen, passwordLen, requestLen, usesPassword>>
          /\ server' = server
        BY <1>1, SameLengths, Zenon
    <2>2. state = "SENT_PASSWORD" => usesPassword
        BY Zenon DEF Inv, Methods
    <2>3. message' = n
        BY <1>1, <2>1, Zenon DEF message
    <2>4. outBefore' = outBefore
        BY <1>1, <1>6, <2>1, <2>2, Lengths DEF outBefore, usesPassword
    <2>5. inBefore' = inBefore + answer
        BY <1>1, <1>6, <2>1, <2>2, Lengths
        DEF inBefore, answer, usesPassword, HELLO, HEADER, PASSWORD_REPLY
    <2>. QED BY <2>3, <2>4, <2>5, Zenon
<1>8. Sending'
    BY <1>1, <1>2, <1>7, Zenon DEF Sending
<1>9. Receiving' /\ Up' /\ state' \notin {"none", "CONNECTING", "freed"}
    BY <1>1, Zenon DEF Receiving, Up, recvStates
<1>10. Methods'
    BY <1>1, SameLengths, Zenon DEF Inv, Methods
<1>11. Off' /\ Owner'
    BY <1>1, <1>9, Answered, Keeps, Zenon
<1>. QED BY <1>4, <1>5, <1>8, <1>9, <1>10, <1>11, Zenon DEF Inv

(* recv_handler_done with the server's hello or the answer to a password    *)
(* (BSocksClient.c:247-329).                                                *)
LEMMA HelloStep == ASSUME Inv, recv_hello \/ recv_password_reply PROVE Inv'
<1>1. complete /\ state \in {"SENT_HELLO", "SENT_PASSWORD"}
    BY Zenon DEF recv_hello, recv_password_reply
<1>2. CASE report_error
    BY <1>1, <1>2, ReportStep, Zenon
<1>3. CASE ~report_error
    <2>1. CASE recv_hello
        BY <1>1, <1>3, <2>1, AnsweredStep, Zenon DEF recv_hello, auth_finished
    <2>2. CASE recv_password_reply
        BY <1>1, <1>3, <2>2, AnsweredStep, Zenon DEF recv_password_reply, auth_finished
    <2>. QED BY <2>1, <2>2, Zenon
<1>. QED BY <1>2, <1>3, Zenon

(* send_handler_done (BSocksClient.c:402-467).                              *)
LEMMA SendDoneStep == ASSUME Inv, send_handler_done PROVE Inv'
<1>1. input = "done" /\ state \notin {"none", "CONNECTING", "freed"} /\ state \in sendStates
    <2>1. input = "done" /\ state \notin {"none", "CONNECTING", "freed"}
        BY Connected, Zenon DEF send_handler_done
    <2>. QED BY <2>1, Where, Zenon DEF Inv, Receiving, Up
<1>2. CASE report_error
    BY <1>1, <1>2, ReportStep, Zenon
<1>3. CASE ~report_error
    <2>. DEFINE n == IF state = "SENDING_HELLO" THEN HELLO
                     ELSE IF state = "SENDING_PASSWORD" THEN PASSWORD_REPLY ELSE HEADER
    <2>1. /\ input' = "idle" /\ recv_off' = 0 /\ control_len' = 0 /\ recv_total' = n /\ recv' = "op" /\ recv_len' = n
          /\ \/ state = "SENDING_HELLO" /\ state' = "SENT_HELLO" /\ buffer' = n
             \/ state = "SENDING_PASSWORD" /\ state' = "SENT_PASSWORD" /\ buffer' = n
             \/ state = "SENDING_REQUEST" /\ state' = "SENT_REQUEST" /\ buffer' = HEADER + IPV6
          /\ UNCHANGED <<send, send_len, received, written, in_len, in_used, opts, server, sent, got, reported>>
          /\ UNCHANGED <<connectorVars, closes, reactorVars, sockVars>>
          /\ UNCHANGED <<connect, connector, connector_fd>>
        BY <1>1, <1>3, Zenon DEF send_handler_done, start_receive, sendStates,
           sendIf, sockVars, given, userVars, connectorVars
    <2>2. recv = "idle" /\ send = "idle" /\ written = outBefore + message /\ received = inBefore
        BY <1>1, Zenon DEF Inv, Sending
    <2>3. opts \in Options /\ server \in Servers
        BY Zenon DEF Inv, UpperTypeOK
    <2>4. answer' = n /\ outBefore' = outBefore + message /\ inBefore' = inBefore
        <3>1. /\ UNCHANGED <<outLen, inLen, helloLen, passwordLen, requestLen, usesPassword>>
              /\ server' = server
            BY <2>1, SameLengths, Zenon
        <3>2. state = "SENDING_PASSWORD" => usesPassword
            BY Zenon DEF Inv, Methods
        <3>3. answer' = n
            BY <2>1, <3>1, Zenon DEF answer
        <3>4. outBefore' = outBefore + message
            BY <2>1, <2>3, <3>1, <3>2, Lengths DEF outBefore, message
        <3>5. inBefore' = inBefore
            BY <2>1, <3>1, Zenon DEF inBefore
        <3>. QED BY <3>3, <3>4, <3>5, Zenon
    <2>5. n \in Nat /\ n > 0
        BY DEF HELLO, PASSWORD_REPLY, HEADER
    <2>6. buffer' \in Nat /\ n <= buffer'
        BY <2>1 DEF HELLO, PASSWORD_REPLY, HEADER, IPV6
    <2>. HIDE DEF n
    <2>7. ConInv'
        BY <2>1, <2>2, <2>5, ConMoves, Zenon DEF Inv, ConInv, ConTypeOK
    <2>8. UpperTypeOK'
        BY <2>1, <2>5, <2>6 DEF Inv, UpperTypeOK, ifStates
    <2>9. Receiving'
        <3>1. inBefore \in Int
            BY <2>3, Lengths, Zenon
        <3>2. received' = inBefore' + control_len'
            BY <2>1, <2>2, <2>4, <3>1
        <3>3. recv_off' + recv_total' <= buffer'
            BY <2>1, <2>5, <2>6
        <3>4. control_len' < recv_total' /\ recv_len' = recv_total' - control_len'
            BY <2>1, <2>5
        <3>5. state' # "RECEIVED_REPLY_HEADER" /\ (state' = "SENT_REQUEST" => buffer' = HEADER + IPV6)
            BY <2>1, Zenon
        <3>. QED BY <2>1, <2>2, <2>4, <3>2, <3>3, <3>4, <3>5, Zenon DEF Receiving, HEADER, IPV6
    <2>10. Sending' /\ Up' /\ state' \notin {"none", "CONNECTING", "freed"}
        BY <2>1, Zenon DEF Sending, Up, sendStates
    <2>11. Methods'
        BY <2>1, SameLengths, Zenon DEF Inv, Methods
    <2>12. Off' /\ Owner'
        BY <1>1, <2>1, <2>10, Keeps, Zenon
    <2>. QED BY <2>7, <2>8, <2>9, <2>10, <2>11, <2>12, Zenon DEF Inv
<1>. QED BY <1>2, <1>3, Zenon

(* recv_handler_done with the reply's header (BSocksClient.c:331-369).      *)
LEMMA HeaderStep == ASSUME Inv, recv_reply_header PROVE Inv'
<1>1. recv = "done" /\ state = "SENT_REQUEST" /\ control_len + recv_len >= recv_total
    BY Zenon DEF recv_reply_header, complete
<1>2. CASE report_error
    BY <1>1, <1>2, ReportStep, Zenon
<1>3. CASE ~report_error
    <2>1. /\ server.addr # 0 /\ recv_off' = HEADER /\ control_len' = 0 /\ recv_total' = server.addr
          /\ recv' = "op" /\ recv_len' = server.addr /\ state' = "RECEIVED_REPLY_HEADER"
          /\ UNCHANGED <<send, send_len, received, written, buffer, input, in_len, in_used,
                         opts, server, sent, got, reported>>
          /\ UNCHANGED <<connectorVars, closes, reactorVars, sockVars>>
          /\ UNCHANGED <<connect, connector, connector_fd>>
        BY <1>1, <1>3, Zenon DEF recv_reply_header, start_receive, sendIf, sockVars, given, userVars, connectorVars
    <2>2. opts \in Options /\ server \in Servers /\ server.addr \in {0, 6, 18}
        BY Lengths, Zenon DEF Inv, UpperTypeOK
    <2>3. /\ input = "idle" /\ send = "idle" /\ written = outBefore /\ buffer = HEADER + IPV6
          /\ received = inBefore + recv_total /\ recv_total = HEADER
        <3>1. inBefore \in Int
            BY <2>2, Lengths, Zenon
        <3>2. recv_total = HEADER
            BY <1>1, Answered, Zenon DEF answer
        <3>. QED BY <1>1, <3>1, <3>2, Answered
    <2>4. answer' = server.addr /\ outBefore' = outBefore /\ inBefore' = inBefore + HEADER
        <3>1. /\ UNCHANGED <<outLen, inLen, helloLen, passwordLen, requestLen, usesPassword>>
              /\ server' = server
            BY <2>1, SameLengths, Zenon
        <3>2. answer' = server.addr
            BY <2>1, <3>1, Zenon DEF answer
        <3>3. outBefore' = outBefore
            BY <1>1, <2>1, <3>1, Zenon DEF outBefore
        <3>4. inBefore' = inBefore + HEADER
            BY <1>1, <2>1, <2>2, <3>1, Lengths DEF inBefore, HEADER
        <3>. QED BY <3>2, <3>3, <3>4, Zenon
    <2>5. ConInv'
        BY <1>1, <2>1, <2>2, ConMoves DEF Inv, ConInv, ConTypeOK
    <2>6. UpperTypeOK'
        BY <2>1, <2>2 DEF Inv, UpperTypeOK, HEADER
    <2>7. Receiving'
        <3>1. inBefore \in Int
            BY <2>2, Lengths, Zenon
        <3>2. received' = inBefore' + control_len'
            BY <2>1, <2>3, <2>4, <3>1 DEF HEADER
        <3>3. recv_off' + recv_total' <= buffer'
            BY <2>1, <2>2, <2>3 DEF HEADER, IPV6
        <3>4. control_len' < recv_total' /\ recv_len' = recv_total' - control_len'
            BY <2>1, <2>2
        <3>5. server'.addr # 0
            BY <2>1, Zenon
        <3>. QED BY <2>1, <2>3, <2>4, <3>2, <3>3, <3>4, <3>5, Zenon DEF Receiving
    <2>8. Sending' /\ Up' /\ Methods' /\ state' \notin {"none", "CONNECTING", "freed"}
        BY <1>1, <2>1, Zenon DEF Inv, Sending, Up, Methods, sendStates
    <2>9. Off' /\ Owner'
        BY <1>1, <2>1, <2>8, Keeps, Zenon
    <2>. QED BY <2>5, <2>6, <2>7, <2>8, <2>9, Zenon DEF Inv
<1>. QED BY <1>2, <1>3, Zenon

(* recv_handler_done with the rest of the reply (BSocksClient.c:371-394).   *)
LEMMA RestStep == ASSUME Inv, recv_reply_rest PROVE Inv'
<1>1. /\ recv = "done" /\ state = "RECEIVED_REPLY_HEADER" /\ control_len + recv_len >= recv_total
      /\ buffer' = 0 /\ input' = "off" /\ in_len' = -1 /\ in_used' = 0
      /\ recv_off' = 0 /\ control_len' = 0 /\ recv_total' = 0
      /\ send' = "idle" /\ recv' = "idle" /\ send_len' = 0 /\ recv_len' = 0 /\ recv_job' = FALSE
      /\ wait_events' = (IF is_hupd THEN wait_events ELSE {})
      /\ state' = "UP" /\ reported' = "UP"
      /\ UNCHANGED <<is_hupd, send_count, recv_count, ready, inq, room, fin, rst, received, written>>
      /\ UNCHANGED <<opts, server, sent, got>> /\ UNCHANGED <<connectorVars, closes>>
      /\ UNCHANGED <<connect, connector, connector_fd>>
    BY Zenon DEF recv_reply_rest, complete, reinit_io, sockVars, given, userVars, connectorVars
<1>2. opts \in Options /\ server \in Servers /\ server.addr \in {0, 6, 18} /\ inBefore \in Int
    BY Lengths, Zenon DEF Inv, UpperTypeOK
<1>3. written = outLen /\ received = inLen /\ sent = 0 /\ got = 0
    <2>1. received = inBefore + recv_total /\ recv_total = server.addr
        <3>1. recv_total = server.addr
            BY <1>1, Answered, Zenon DEF answer
        <3>. QED BY <1>1, <1>2, <3>1, Answered
    <2>2. inBefore = inLen - server.addr
        BY <1>1, Zenon DEF inBefore
    <2>3. received = inLen
        BY <1>2, <2>1, <2>2, Lengths
    <2>4. written = outLen
        BY <1>1, Answered, Zenon DEF outBefore
    <2>5. sent = 0 /\ got = 0
        BY <1>1, Zenon DEF Inv, Methods
    <2>. QED BY <2>3, <2>4, <2>5, Zenon
<1>4. ConInv'
    <2>1. ConTypeOK'
        <3>1. recv_job' \in BOOLEAN /\ wait_events' \subseteq {"READ", "WRITE"}
            BY <1>1, Zenon DEF Inv, ConInv, ConTypeOK
        <3>. QED BY <1>1, <3>1, Zenon DEF Inv, ConInv, ConTypeOK, ifStates
    <2>2. WakesUp'
        BY <1>1, Zenon DEF WakesUp
    <2>3. Returned'
        BY <1>1, Zenon DEF Inv, ConInv, Returned, trouble
    <2>. QED BY <2>1, <2>2, <2>3, Zenon DEF ConInv
<1>5. UpperTypeOK'
    BY <1>1, Zenon DEF Inv, UpperTypeOK, ifStates
<1>6. Up'
    <2>1. UNCHANGED <<outLen, inLen>>
        BY <1>1, SameLengths, Zenon
    <2>2. outLen \in Int /\ inLen \in Int
        BY <1>2, Lengths, Zenon
    <2>3. received' = inLen' + got' + 0 /\ written' = outLen' + sent' + 0
        BY <1>1, <1>3, <2>1, <2>2
    <2>. QED BY <1>1, <2>3, Zenon DEF Up, StreamsExact
<1>7. Sending' /\ Receiving' /\ Methods' /\ state' \notin {"none", "CONNECTING", "freed"}
    BY <1>1, Zenon DEF Sending, Receiving, Methods, sendStates, recvStates
<1>8. Off' /\ Owner'
    BY <1>1, <1>7, Keeps, Zenon
<1>. QED BY <1>4, <1>5, <1>6, <1>7, <1>8, Zenon DEF Inv
-----------------------------------------------------------------------------
(* The user of a client that is up sends and receives                       *)
(* (tun2socks.c:2014-2090).                                                 *)
LEMMA UserStep ==
    ASSUME Inv,
           \/ user_send_done \/ user_recv_done
           \/ \E n \in 1..DATA : user_sends(n) \/ user_receives(n)
    PROVE  Inv'
<1>1. /\ state = "UP" /\ state' = "UP"
      /\ UNCHANGED <<buffer, input, in_len, in_used, recv_off, control_len, recv_total, opts, server, reported>>
      /\ UNCHANGED <<received, written>>
      /\ UNCHANGED <<reactorVars, sockVars, connectorVars, closes>>
      /\ UNCHANGED <<connect, connector, connector_fd>>
    BY Zenon DEF user_send_done, user_recv_done, user_sends, user_receives,
       sockVars, controlVars, connectorVars, given, userVars
<1>2. input = "off" /\ send # "off" /\ recv # "off" /\ StreamsExact
    BY <1>1, Zenon DEF Inv, Up
<1>3. /\ sent \in Nat /\ got \in Nat /\ send_len \in Nat /\ recv_len \in Nat /\ outLen \in Int /\ inLen \in Int
      /\ DATA \in Nat
    BY Lengths, OptionsAssumption, Zenon DEF Inv, UpperTypeOK, ConInv, ConTypeOK
<1>4. /\ received = inLen + got + (IF recv = "done" THEN recv_len ELSE 0)
      /\ written = outLen + sent + (IF send = "done" THEN send_len ELSE 0)
    BY <1>1, <1>2, Zenon DEF StreamsExact
<1>5. UNCHANGED <<outLen, inLen>>
    BY <1>1, SameLengths, Zenon
<1>6. /\ send' = send \/ (send # "busy" /\ send' \in {"idle", "op"})
      /\ recv' = recv \/ (recv # "busy" /\ recv' \in {"idle", "op"})
      /\ send_len' \in Nat /\ recv_len' \in Nat /\ sent' \in Nat /\ got' \in Nat
    BY <1>3 DEF user_send_done, user_recv_done, user_sends, user_receives, sendIf, recvIf, userVars
<1>7. ConInv'
    BY <1>1, <1>6, ConMoves, Zenon DEF Inv
<1>8. UpperTypeOK'
    BY <1>1, <1>6, Zenon DEF Inv, UpperTypeOK
<1>9. received' = inLen' + got' + (IF recv' = "done" THEN recv_len' ELSE 0)
    <2>1. CASE user_recv_done
        <3>1. recv = "done" /\ recv' = "idle" /\ got' = got + recv_len
            BY <2>1, Zenon DEF user_recv_done
        <3>2. received = inLen + (got + recv_len) + 0
            BY <1>3, <1>4, <3>1
        <3>. QED BY <1>1, <1>5, <3>1, <3>2, Zenon
    <2>2. CASE ~user_recv_done
        <3>1. got' = got /\ ((recv' = recv /\ recv_len' = recv_len) \/ (recv # "done" /\ recv' # "done"))
            BY <2>2, Zenon DEF user_send_done, user_sends, user_receives, recvIf, userVars
        <3>. QED BY <1>1, <1>4, <1>5, <3>1, Zenon
    <2>. QED BY <2>1, <2>2, Zenon
<1>10. written' = outLen' + sent' + (IF send' = "done" THEN send_len' ELSE 0)
    <2>1. CASE user_send_done
        <3>1. send = "done" /\ send' = "idle" /\ sent' = sent + send_len
            BY <2>1, Zenon DEF user_send_done
        <3>2. written = outLen + (sent + send_len) + 0
            BY <1>3, <1>4, <3>1
        <3>. QED BY <1>1, <1>5, <3>1, <3>2, Zenon
    <2>2. CASE ~user_send_done
        <3>1. sent' = sent /\ ((send' = send /\ send_len' = send_len) \/ (send # "done" /\ send' # "done"))
            BY <2>2, Zenon DEF user_recv_done, user_sends, user_receives, sendIf, userVars
        <3>. QED BY <1>1, <1>4, <1>5, <3>1, Zenon
    <2>. QED BY <2>1, <2>2, Zenon
<1>11. Up'
    BY <1>1, <1>2, <1>6, <1>9, <1>10, Zenon DEF Up, StreamsExact
<1>12. Sending' /\ Receiving' /\ Methods'
    BY <1>1, Zenon DEF Sending, Receiving, Methods, sendStates, recvStates
<1>13. Off' /\ Owner'
    BY <1>1, Keeps, Zenon
<1>. QED BY <1>7, <1>8, <1>11, <1>12, <1>13, Zenon DEF Inv
-----------------------------------------------------------------------------
(* Every step preserves the invariant.                                      *)
LEMMA StepInv == ASSUME Inv, Next PROVE Inv'
<1>1. CASE connector_job_handler \/ connector_fd_handler
    <2>1. CASE connector_job_handler
        BY <2>1, ConnectorStep, Zenon DEF connector_job_handler
    <2>2. CASE connector_fd_handler
        <3>1. connector = "waiting" /\ connector_handler(connect = "failed")
            BY <2>2, Zenon DEF connector_fd_handler
        <3>2. CASE connect = "failed"
            BY <3>1, <3>2, ConnectorStep, Zenon
        <3>3. CASE connect # "failed"
            BY <3>1, <3>3, ConnectorStep, Zenon
        <3>. QED BY <3>2, <3>3, Zenon
    <2>. QED BY <1>1, <2>1, <2>2, Zenon
<1>2. CASE input_handler_send \/ output_handler_done \/ send_handler_done
    BY <1>2, InputStep, OutputStep, SendDoneStep, Zenon
<1>3. CASE \/ send_operation(others, report_error)
           \/ recv_operation(others, report_error, connection_closed)
           \/ connection_recv_job_handler(others, report_error, connection_closed)
    BY <1>3, SendOperationStep, RecvOperationStep, RecvJobStep, Zenon
<1>4. CASE recv_handler_done_part \/ recv_hello \/ recv_password_reply \/ recv_reply_header \/ recv_reply_rest
    BY <1>4, PartStep, HelloStep, HeaderStep, RestStep, Zenon
<1>5. CASE user_send_done \/ user_recv_done \/ \E n \in 1..DATA : user_sends(n) \/ user_receives(n)
    BY <1>5, UserStep, Zenon
<1>6. CASE ~jobs /\ connection_fd_handler(others, report_error, connection_closed)
    BY <1>6, FdStep, Zenon
<1>7. CASE others /\ (no_events \/ wait_for_events)
    BY <1>7, WaitStep, Zenon
<1>8. CASE BSocksClient_Init \/ BSocksClient_Init_fails
    BY <1>8, InitStep, Zenon
<1>9. CASE user_frees
    BY <1>9, FreeStep, Zenon DEF user_frees, Inv, UpperTypeOK
<1>10. CASE connect_ends
    BY <1>10, ConnectStep, Zenon
<1>11. CASE \/ server_reads \/ server_closes \/ server_resets
            \/ \E n \in 1..(inLen + DATA) : server_sends(n)
    BY <1>11, NetworkStep, Zenon
<1>. QED
    BY <1>1, <1>2, <1>3, <1>4, <1>5, <1>6, <1>7, <1>8, <1>9, <1>10, <1>11, Zenon
    DEF Next, Job, Dispatch, User, Network

(* A step that changes nothing (external: the rest of the process runs).    *)
LEMMA Stutter == ASSUME Inv, UNCHANGED vars PROVE Inv'
<1>1. /\ UNCHANGED <<opts, server, state, buffer, input, in_len, in_used, recv_off, control_len, recv_total>>
      /\ UNCHANGED <<connect, connector, connector_fd, closes, reported, sent, got>>
      /\ UNCHANGED <<send, send_len, recv, recv_len, recv_job, wait_events, is_hupd, send_count, recv_count, ready>>
      /\ UNCHANGED <<inq, room, fin, rst, received, written>> /\ UNCHANGED conVars /\ others
    BY Zenon DEF vars, conVars, sendIf, recvIf, reactorVars, sockVars, upper, controlVars, connectorVars, given, userVars,
       others
<1>2. ConInv'
    BY <1>1, ConStays, Zenon DEF Inv, ConInv, ConTypeOK
<1>3. UpperTypeOK'
    BY <1>1 DEF Inv, UpperTypeOK
<1>4. Off' /\ Owner'
    BY <1>1, Zenon DEF Inv, Off, Owner
<1>5. Sending' /\ Receiving' /\ Up'
    BY <1>1, SockSide, Zenon
<1>6. Methods'
    BY <1>1, SameLengths, Zenon DEF Inv, Methods
<1>. QED BY <1>2, <1>3, <1>4, <1>5, <1>6, Zenon DEF Inv

(* The inductive invariant of the client and its connection                 *)
(* (BSocksClient.c, BConnection_unix.c).                                    *)
THEOREM Invariance == Spec => []Inv
<1>1. Init => Inv
    BY InitInv, Zenon
<1>2. Inv /\ [Next]_vars => Inv'
    BY StepInv, Stutter, Zenon
<1>. QED BY <1>1, <1>2, PTL DEF Spec

(* The types of the variables of the connection and of the client           *)
(* (BConnection_unix.c:815-928, BSocksClient.c:532-571).                    *)
THEOREM TypeCorrect == Spec => []TypeOK
<1>1. Inv => TypeOK
    BY Zenon DEF Inv, ConInv, UpperTypeOK, TypeOK
<1>. QED BY <1>1, Invariance, PTL

(* No wake-up is lost and none is spurious, whatever the limit, the buffer  *)
(* and the order of jobs and events (BConnection_unix.c:241-382).           *)
THEOREM NoLostWakeUp == Spec => []WakesUp
<1>1. Inv => WakesUp
    BY Zenon DEF Inv, ConInv
<1>. QED BY <1>1, Invariance, PTL

(* The data starts where the handshake ends, in both directions             *)
(* (BSocksClient.c:236-394).                                                *)
THEOREM ExactStreams == Spec => []StreamsExact
<1>1. Inv => StreamsExact
    BY Zenon DEF Inv, Up, StreamsExact
<1>. QED BY <1>1, Invariance, PTL

(* The one buffer always fits its two users (BSocksClient.c:115-149).       *)
THEOREM BufferSafe == Spec => []BufferFits
<1>1. ASSUME Inv PROVE BufferFits
    <2>1. CASE state \in {"none", "CONNECTING", "freed"}
        BY <1>1, <2>1, Zenon DEF Inv, Off, BufferFits
    <2>2. CASE state \in sendStates
        BY <1>1, <2>2 DEF Inv, UpperTypeOK, Sending, BufferFits
    <2>3. CASE state \in recvStates
        <3>1. recv_len \in Nat /\ recv_total \in Nat /\ control_len \in Nat
            BY <1>1, Zenon DEF Inv, UpperTypeOK, ConInv, ConTypeOK
        <3>. QED BY <1>1, <2>3, <3>1 DEF Inv, Receiving, BufferFits
    <2>4. CASE state = "UP"
        BY <1>1, <2>4, Zenon DEF Inv, Up, BufferFits
    <2>. QED BY <1>1, <2>1, <2>2, <2>3, <2>4, Where, Zenon
<1>. QED BY <1>1, Invariance, PTL

(* The socket has one owner at a time, which closes it                      *)
(* (BSocksClient.c:214-219, 573-598, BConnection_unix.c:795-813, 930-952).  *)
THEOREM ClosesOnce == Spec => []ClosedOnce
<1>1. Inv => ClosedOnce
    BY DEF Inv, UpperTypeOK, Owner, ClosedOnce
<1>. QED BY <1>1, Invariance, PTL
=============================================================================
