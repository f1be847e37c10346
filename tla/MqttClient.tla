----------------------------- MODULE MqttClient -----------------------------
(***************************************************************************)
(* The MQTT client: the calls of mqtt_client.c, the packet reader of       *)
(* mqtt_packet.c and the socket layer of mqtt_socket.c, down to single     *)
(* calls of net->read and net->write.  The network gives and takes any     *)
(* part of what it is asked for, or returns 0, or an error, as after the   *)
(* timeout, which ends the running call wherever it is; the application    *)
(* then makes the call again, or another one, over the positions and       *)
(* states left behind.                                                     *)
(*                                                                         *)
(* Bytes are known by their place: the network holds what the server sent  *)
(* as packets, of whose first `off` bytes are read.  A byte that is read   *)
(* or written at another place than its own ends the model ("astray"):     *)
(* what the client makes of such bytes is not followed.                    *)
(***************************************************************************)
EXTENDS Naturals, Sequences

CONSTANTS
  Requests,     \* the application's MqttConnect, MqttSubscribe, ... structures
  ServerSends,  \* PUBLISH packets of the server
  RX_BUF_LEN,   \* rx_buf_len
  TX_BUF_LEN,   \* tx_buf_len
  MAX_QUEUE,    \* bound: packets the network holds
  MAX_CALLS     \* bound: calls the application makes, after which it stops

\* A packet: header bytes, variable header, payload.  Only a PUBLISH has a payload here.
PacketShape(p) ==
  /\ p.id \in Nat /\ p.qos \in 0..2
  /\ p.head \in 2..4 /\ p.var \in Nat /\ p.pay \in Nat
  /\ p.type # "PUBLISH" => p.pay = 0

ASSUME RequestsAssumption ==
  \A r \in Requests :
    /\ PacketShape(r) /\ r.head + r.var <= TX_BUF_LEN
    /\ r.type \in {"CONNECT", "SUBSCRIBE", "UNSUBSCRIBE", "PUBLISH"}
ASSUME ServerAssumption ==
  \A p \in ServerSends : PacketShape(p) /\ p.type = "PUBLISH" /\ p.head + p.var <= RX_BUF_LEN
ASSUME BuffersAssumption ==
  /\ {RX_BUF_LEN, TX_BUF_LEN, MAX_QUEUE, MAX_CALLS} \subseteq Nat
  /\ RX_BUF_LEN >= 4 /\ TX_BUF_LEN >= 4

VARIABLES
  pc,       \* "idle", "write", "ack", "read", "payload", "handle", "astray"
  call,     \* the packet the running call is to send; NoCall
  ret,      \* what the last call returned
  calls,    \* how many calls were made (bound)
  stat,     \* stat of the application's structures
  part,     \* buffer_pos and buffer_len of the structures (PUBLISH only)
  packet,   \* client->packet
  read,     \* client->read.pos
  write,    \* client->write
  txbuf,    \* whose bytes are in tx_buf, and from which on
  msg,      \* client->msg; pkt is its decoded header
  connected,  \* MQTT_CLIENT_FLAG_IS_CONNECTED
  inq, off, \* what the server sent and the network holds; bytes read of the first packet
  wire,     \* the packet last begun on the wire, and how many of its bytes
  cut,      \* was the client ever left with a position or a message of a lost moment? (history)
  seen,     \* payload bytes of the present message the callback was given (history)
  sends,    \* how often each request was sent (history, up to two)
  answered, \* requests whose answer was read (history)
  skipped   \* requests for whose call a read or write of nothing passed as done (history)

call_vars == <<call, ret, calls>>
struct_vars == <<stat, part>>
reader == <<packet, read, msg>>
writer == <<write, txbuf>>
net == <<connected, inq, off, wire>>
history == <<cut, seen, sends, answered, skipped>>
vars == <<pc, call_vars, struct_vars, reader, writer, net, history>>

-------------------------------------------------------------------------------
(* Packets *)

Size(p) == p.head + p.var + p.pay
Short(type, id, var) == [type |-> type, id |-> id, qos |-> 0, head |-> 2, var |-> var, pay |-> 0]

NoPacket == Short("NONE", 0, 0)
NoCall == NoPacket
NoRet == [call |-> NoCall, rc |-> "NONE"]
PingReq == Short("PINGREQ", 0, 0)
Disconnect == Short("DISCONNECT", 0, 0)
WaitMessage == Short("MAX", 0, 0)    \* MqttClient_WaitMessage sends nothing and waits for any
Resp(type, id) == Short(type, id, 2)

\* What a call waits for, and what a server answers.
WaitType(r) ==
  CASE r.type = "CONNECT" -> "CONNACK"
    [] r.type = "SUBSCRIBE" -> "SUBACK"
    [] r.type = "UNSUBSCRIBE" -> "UNSUBACK"
    [] r.type = "PINGREQ" -> "PINGRESP"
    [] r.type = "PUBLISH" -> IF r.qos = 1 THEN "PUBACK" ELSE "PUBCOMP"
    [] OTHER -> "MAX"

ServerAnswer(p) ==
  CASE p.type = "PINGREQ" -> <<Short("PINGRESP", 0, 0)>>
    [] p.type = "PUBREL" -> <<Resp("PUBCOMP", p.id)>>
    [] p.type = "PUBREC" -> <<Resp("PUBREL", p.id)>>
    [] p.type = "PUBLISH" /\ p.qos = 1 -> <<Resp("PUBACK", p.id)>>
    [] p.type = "PUBLISH" /\ p.qos = 2 -> <<Resp("PUBREC", p.id)>>
    [] p.type \in {"CONNECT", "SUBSCRIBE", "UNSUBSCRIBE"} -> <<Resp(WaitType(p), p.id)>>
    [] OTHER -> <<>>

\* What the client answers by itself.
ClientAnswer(p) ==
  CASE p.type = "PUBLISH" /\ p.qos = 1 -> Resp("PUBACK", p.id)
    [] p.type = "PUBLISH" /\ p.qos = 2 -> Resp("PUBREC", p.id)
    [] p.type = "PUBREC" -> Resp("PUBREL", p.id)
    [] p.type = "PUBREL" -> Resp("PUBCOMP", p.id)
    [] OTHER -> NoPacket

IsAnswer(p, r) == p.type = WaitType(r) /\ (r.id = 0 \/ p.id = r.id)

AtMost(n, limit) == IF n < limit THEN n ELSE limit
WireWhole == wire.n = Size(wire.pkt)

-------------------------------------------------------------------------------
(* MqttSocket_Read and MqttSocket_Write *)

\* buf_len of the running MqttSocket_Read.
ReadLen ==
  IF pc = "payload" THEN AtMost(msg.pkt.pay - msg.pos, RX_BUF_LEN)
  ELSE CASE packet.stat = "BEGIN" -> 2
         [] packet.stat = "READ_HEAD" -> 1
         [] packet.stat = "READ" -> packet.remain_len

\* Which byte of the packet it takes next for its own.
ReadAt ==
  IF pc = "payload" THEN msg.pkt.head + msg.pkt.var + msg.pos + read
  ELSE IF packet.stat = "BEGIN" THEN read
  ELSE packet.header_len + read

\* buf_len of the running MqttSocket_Write.
WriteLen == IF pc = "write" /\ call.type = "PUBLISH" THEN write.len ELSE Size(txbuf.pkt)

\* Which byte of which packet it sends next, and is that the byte the wire goes on with?
WriteAt == txbuf.at + write.pos
WritesInPlace ==
  /\ pc = "write" => txbuf.pkt = call
  /\ \/ WriteAt = 0 /\ WireWhole
     \/ wire = [pkt |-> txbuf.pkt, n |-> WriteAt]

-------------------------------------------------------------------------------
(* Parts of the calls *)

Return(rc) ==
  /\ pc' = "idle"
  /\ UNCHANGED calls
  /\ call' = NoCall
  /\ ret' = [call |-> call, rc |-> rc]

\* Is something half written, or kept in tx_buf to be written by a call made again?
HalfWritten == write.pos # 0 \/ ~WireWhole \/ \E r \in Requests : stat[r] = "WRITE"

\* An encoder of mqtt_packet.c: tx_buf holds the first bytes of p.
Encode(p) ==
  /\ txbuf' = [pkt |-> p, at |-> 0]
  /\ cut' = (cut \/ (HalfWritten /\ ~(txbuf.pkt = p /\ wire = [pkt |-> p, n |-> write.pos])))

\* Mutant: the packet state is reset for a message waited for already, too.
EnterWaitReset(s) ==
  /\ pc' = IF s \in {"BEGIN", "WAIT"} THEN "read" ELSE "handle"
  /\ packet' = [packet EXCEPT !.stat = "BEGIN"]
  /\ cut' = (cut \/ (s = "BEGIN" /\ packet.stat # "BEGIN" /\ off # 0))

\* The switch at the head of MqttClient_WaitType, for a message state s.
EnterWait(s) ==
  /\ pc' = IF s \in {"BEGIN", "WAIT"} THEN "read" ELSE "handle"
  /\ packet' = IF s = "BEGIN" THEN [packet EXCEPT !.stat = "BEGIN"] ELSE packet
  /\ cut' = (cut \/ (s = "BEGIN" /\ packet.stat # "BEGIN" /\ off # 0))

\* client->msg in state s; its other fields are written before they are read again.
Fresh(s) == [stat |-> s, pkt |-> NoPacket, new |-> FALSE, pos |-> 0, len |-> 0]

\* Its end: the packet is the one waited for, or the wait begins again.
Check ==
  IF call = WaitMessage \/ IsAnswer(msg.pkt, call)
  THEN Return("SUCCESS") /\ msg' = Fresh("BEGIN") /\ UNCHANGED <<packet, cut>>
  ELSE /\ msg' = Fresh("BEGIN")
       /\ EnterWait("BEGIN")
       /\ UNCHANGED call_vars

-------------------------------------------------------------------------------
(* The application's calls *)

Start(c) ==
  /\ pc = "idle"
  /\ calls' = calls + 1
  /\ call' = c
  /\ ret' = NoRet

\* MqttClient_Connect, MqttClient_Subscribe and MqttClient_Unsubscribe.
CallRequest(r) ==
  /\ r.type # "PUBLISH"
  /\ Start(r)
  /\ IF stat[r] = "BEGIN"
     THEN Encode(r) /\ pc' = "write" /\ UNCHANGED packet
     ELSE EnterWait(msg.stat) /\ UNCHANGED txbuf
  /\ skipped' = skipped \ {r}
  /\ UNCHANGED <<struct_vars, read, msg, write, net, seen, sends, answered>>

\* Mutant: the first part is not cut to tx_buf.
FirstPartUncut(r) == r.pay
FirstPart(r) == AtMost(r.pay, TX_BUF_LEN - (r.head + r.var))

\* The first part of the payload goes with the header.  A call made again in state WRITE
\* takes what tx_buf and write.len hold.
MqttClient_Publish(r) ==
  /\ r.type = "PUBLISH"
  /\ Start(r)
  /\ \/ /\ stat[r] = "BEGIN"
        /\ Encode(r)
        /\ LET n == FirstPart(r)
           IN  /\ part' = [part EXCEPT ![r] = [pos |-> 0, len |-> n]]
               /\ write' = [write EXCEPT !.len = r.head + r.var + n]
        /\ stat' = [stat EXCEPT ![r] = "WRITE"]
        /\ pc' = "write"
        /\ UNCHANGED packet
     \/ /\ stat[r] = "WRITE"
        /\ pc' = "write"
        /\ UNCHANGED <<struct_vars, packet, writer, cut>>
     \/ /\ stat[r] = "WAIT"
        /\ EnterWait(msg.stat)
        /\ UNCHANGED <<struct_vars, writer>>
  /\ UNCHANGED <<read, msg, net, seen, sends, answered, skipped>>

\* The state of a ping is that of the message: in any other state than BEGIN nothing is sent.
MqttClient_Ping ==
  /\ Start(PingReq)
  /\ IF msg.stat = "BEGIN"
     THEN Encode(PingReq) /\ pc' = "write" /\ UNCHANGED packet
     ELSE EnterWait(msg.stat) /\ UNCHANGED txbuf
  /\ UNCHANGED <<struct_vars, read, msg, write, net, seen, sends, answered, skipped>>

MqttClient_Disconnect ==
  /\ Start(Disconnect)
  /\ Encode(Disconnect)
  /\ pc' = "write"
  /\ UNCHANGED <<struct_vars, reader, write, net, seen, sends, answered, skipped>>

MqttClient_WaitMessage ==
  /\ Start(WaitMessage)
  /\ EnterWait(msg.stat)
  /\ UNCHANGED <<struct_vars, read, msg, writer, net, seen, sends, answered, skipped>>

-------------------------------------------------------------------------------
(* Writing *)

\* Mutant: stat is left at MQTT_MSG_BEGIN.
RequestWrittenForgotten ==
  /\ pc = "write"
  /\ call.type \in {"CONNECT", "SUBSCRIBE", "UNSUBSCRIBE"}
  /\ EnterWait(msg.stat)
  /\ write' = [write EXCEPT !.pos = 0]
  /\ UNCHANGED <<call_vars, struct_vars, txbuf, msg>>

\* What a call does once MqttPacket_Write has returned.
RequestWritten ==
  /\ pc = "write"
  /\ call.type \in {"CONNECT", "SUBSCRIBE", "UNSUBSCRIBE"}
  /\ stat' = [stat EXCEPT ![call] = "WAIT"]
  /\ EnterWait(msg.stat)
  /\ write' = [write EXCEPT !.pos = 0]
  /\ UNCHANGED <<call_vars, part, txbuf, msg>>

PingWritten ==
  /\ pc = "write"
  /\ call = PingReq
  /\ msg' = Fresh("WAIT")
  /\ EnterWait("WAIT")
  /\ write' = [write EXCEPT !.pos = 0]
  /\ UNCHANGED <<call_vars, struct_vars, txbuf>>

DisconnectWritten ==
  /\ pc = "write"
  /\ call = Disconnect
  /\ Return("SUCCESS")
  /\ write' = [write EXCEPT !.pos = 0]
  /\ UNCHANGED <<struct_vars, packet, msg, txbuf, cut>>

\* One turn of the loop of MqttClient_Publish, after a write that left write.pos at `pos`.  It
\* asks for an error only: when nothing was written, the next part takes tx_buf all the same.
PublishGoesOn(pos, nothing) ==
  LET done == part[call].pos + part[call].len
      rest == AtMost(call.pay - done, TX_BUF_LEN)
  IN  \/ /\ done < call.pay
         /\ part' = [part EXCEPT ![call] = [pos |-> done, len |-> rest]]
         /\ write' = [pos |-> pos, len |-> rest]
         /\ txbuf' = [pkt |-> call, at |-> call.head + call.var + done]
         /\ cut' = (cut \/ nothing)
         /\ UNCHANGED <<pc, call_vars, stat, packet, msg>>
      \/ /\ done >= call.pay
         /\ part' = [part EXCEPT ![call] = [pos |-> done, len |-> 0]]
         /\ write' = [write EXCEPT !.pos = pos]
         /\ stat' = [stat EXCEPT ![call] = IF call.qos = 0 THEN "BEGIN" ELSE "WAIT"]
         /\ IF call.qos = 0
            THEN Return("SUCCESS") /\ UNCHANGED <<packet, cut>>
            ELSE EnterWait(msg.stat) /\ UNCHANGED call_vars
         /\ UNCHANGED <<msg, txbuf>>

PublishWritten == pc = "write" /\ call.type = "PUBLISH" /\ PublishGoesOn(0, FALSE)

AnswerWritten ==
  /\ pc = "ack"
  /\ Check
  /\ write' = [write EXCEPT !.pos = 0]
  /\ UNCHANGED <<struct_vars, txbuf>>

Written ==
  RequestWritten \/ PingWritten \/ DisconnectWritten \/ PublishWritten
    \/ AnswerWritten

\* The server has got a whole packet: it answers, or never does.
Arrives(p) ==
  /\ \E ans \in {<<>>, ServerAnswer(p)} :
       Len(inq) + Len(ans) <= MAX_QUEUE /\ inq' = inq \o ans
  /\ sends' = [r \in Requests |-> IF r = p THEN AtMost(sends[r] + 1, 2) ELSE sends[r]]
  /\ UNCHANGED answered

\* One call of net->write that takes n bytes.
NetWrite(n) ==
  /\ pc \in {"write", "ack"}
  /\ connected
  /\ n \in 1 .. WriteLen - write.pos
  /\ WritesInPlace
  /\ wire' = [pkt |-> txbuf.pkt, n |-> WriteAt + n]
  /\ IF WriteAt + n = Size(txbuf.pkt)
     THEN Arrives(txbuf.pkt) ELSE UNCHANGED <<inq, sends, answered>>
  /\ IF write.pos + n = WriteLen
     THEN Written
     ELSE /\ write' = [write EXCEPT !.pos = @ + n]
          /\ UNCHANGED <<pc, call_vars, struct_vars, packet, msg, txbuf, cut>>
  /\ UNCHANGED <<read, connected, off, seen, skipped>>

\* What the calls but MqttClient_Publish do with it: the 0 is not the length of the packet, so
\* it is returned, and is MQTT_CODE_SUCCESS.
ReturnsNothing ==
  /\ pc = "write" /\ call.type # "PUBLISH"
  /\ Return("SUCCESS")
  /\ UNCHANGED <<struct_vars, packet, msg, writer, cut>>

\* net->write returns 0: MqttSocket_Write ends with that and keeps write.pos.  An answer the
\* client makes by itself counts as sent.
WritesNothing ==
  /\ pc \in {"write", "ack"}
  /\ write.pos < WriteLen
  /\ \/ ReturnsNothing
     \/ pc = "write" /\ call.type = "PUBLISH" /\ PublishGoesOn(write.pos, TRUE)
     \/ pc = "ack" /\ Check /\ UNCHANGED <<struct_vars, writer>>
  /\ skipped' = IF pc = "write" THEN skipped \cup ({call} \cap Requests) ELSE skipped
  /\ UNCHANGED <<read, net, seen, sends, answered>>

WriteAstray ==
  /\ pc \in {"write", "ack"}
  /\ connected
  /\ write.pos < WriteLen
  /\ ~WritesInPlace
  /\ pc' = "astray"
  /\ UNCHANGED <<call_vars, struct_vars, reader, writer, net, history>>

-------------------------------------------------------------------------------
(* Reading *)

\* MqttPacket_Read has a whole packet, or as much of it as rx_buf holds, and MqttClient_WaitType
\* its header; the rest of rx_buf is the first part of the payload.
PacketRead ==
  LET p == Head(inq)
  IN  /\ packet' = [stat |-> "BEGIN", header_len |-> 2, remain_len |-> 0]
      /\ msg' = [stat |-> "READ", pkt |-> p, new |-> TRUE, pos |-> 0,
                 len |-> AtMost(p.pay, RX_BUF_LEN - (p.head + p.var))]
      /\ pc' = "handle"
      /\ answered' = answered \cup {r \in Requests : sends[r] > 0 /\ IsAnswer(p, r)}

\* With h header bytes read: one more, or the remaining length is known and cut to rx_buf.
HeaderRead(h) ==
  LET p == Head(inq)
      rest == AtMost(p.var + p.pay, RX_BUF_LEN - p.head)
  IN  \/ /\ h < p.head
         /\ packet' = [stat |-> "READ_HEAD", header_len |-> h, remain_len |-> 0]
         /\ UNCHANGED <<pc, msg, answered>>
      \/ /\ h = p.head /\ rest > 0
         /\ packet' = [stat |-> "READ", header_len |-> h, remain_len |-> rest]
         /\ UNCHANGED <<pc, msg, answered>>
      \/ h = p.head /\ rest = 0 /\ PacketRead

\* What a full MqttSocket_Read goes on to.
ReadFull ==
  \/ pc = "read" /\ packet.stat = "BEGIN" /\ HeaderRead(2)
  \/ pc = "read" /\ packet.stat = "READ_HEAD" /\ HeaderRead(packet.header_len + 1)
  \/ pc = "read" /\ packet.stat = "READ" /\ PacketRead
  \/ /\ pc = "payload"
     /\ msg' = [msg EXCEPT !.stat = "READ", !.len = ReadLen]
     /\ pc' = "handle"
     /\ UNCHANGED <<packet, answered>>

\* One call of net->read that gives n bytes.
NetRead(n) ==
  /\ pc \in {"read", "payload"}
  /\ connected
  /\ inq # <<>>
  /\ n \in 1 .. ReadLen - read
  /\ off = ReadAt
  /\ IF off + n = Size(Head(inq))
     THEN inq' = Tail(inq) /\ off' = 0
     ELSE off' = off + n /\ UNCHANGED inq
  /\ IF read + n = ReadLen
     THEN read' = 0 /\ ReadFull
     ELSE read' = read + n /\ UNCHANGED <<pc, packet, msg, answered>>
  /\ UNCHANGED <<call_vars, struct_vars, writer, connected, wire, cut, seen, sends, skipped>>

ReadAstray ==
  /\ pc \in {"read", "payload"}
  /\ connected
  /\ inq # <<>>
  /\ read < ReadLen
  /\ off # ReadAt
  /\ pc' = "astray"
  /\ UNCHANGED <<call_vars, struct_vars, reader, writer, net, history>>

\* Mutant: buffer_len is not reset before the read of the next part.
HandlePublishKeepLen ==
  LET n == msg.pos + msg.len
  IN  /\ pc = "handle"
      /\ msg.pkt.type = "PUBLISH"
      /\ seen' = IF msg.stat = "READ_PAYLOAD" THEN seen
                 ELSE (IF msg.new THEN 0 ELSE seen) + msg.len
      /\ \/ /\ n < msg.pkt.pay
            /\ msg' = [msg EXCEPT !.stat = "READ_PAYLOAD", !.new = FALSE, !.pos = n]
            /\ pc' = "payload"
            /\ UNCHANGED <<call_vars, packet, txbuf, cut>>
         \/ /\ n >= msg.pkt.pay /\ msg.pkt.qos > 0
            /\ Encode(ClientAnswer(msg.pkt))
            /\ msg' = [msg EXCEPT !.stat = "BEGIN", !.new = FALSE]
            /\ pc' = "ack"
            /\ UNCHANGED <<call_vars, packet>>
         \/ n >= msg.pkt.pay /\ msg.pkt.qos = 0 /\ Check /\ UNCHANGED txbuf
      /\ UNCHANGED <<struct_vars, read, write, net, sends, answered, skipped>>

\* MqttClient_HandlePayload for a PUBLISH, one turn of its loop: the callback, then the read
\* of the next part, or the answer.
HandlePublish ==
  LET n == msg.pos + msg.len
  IN  /\ pc = "handle"
      /\ msg.pkt.type = "PUBLISH"
      /\ seen' = IF msg.stat = "READ_PAYLOAD" THEN seen
                 ELSE (IF msg.new THEN 0 ELSE seen) + msg.len
      /\ \/ /\ n < msg.pkt.pay
            /\ msg' = [msg EXCEPT !.stat = "READ_PAYLOAD", !.new = FALSE, !.pos = n, !.len = 0]
            /\ pc' = "payload"
            /\ UNCHANGED <<call_vars, packet, txbuf, cut>>
         \/ /\ n >= msg.pkt.pay /\ msg.pkt.qos > 0
            /\ Encode(ClientAnswer(msg.pkt))
            /\ msg' = [msg EXCEPT !.stat = "BEGIN", !.new = FALSE]
            /\ pc' = "ack"
            /\ UNCHANGED <<call_vars, packet>>
         \/ n >= msg.pkt.pay /\ msg.pkt.qos = 0 /\ Check /\ UNCHANGED txbuf
      /\ UNCHANGED <<struct_vars, read, write, net, sends, answered, skipped>>

\* The other packets: a PUBREC or PUBREL is answered, the rest is only looked at.
HandleOther ==
  /\ pc = "handle"
  /\ msg.pkt.type # "PUBLISH"
  /\ \/ /\ msg.pkt.type \in {"PUBREC", "PUBREL"}
        /\ Encode(ClientAnswer(msg.pkt))
        /\ msg' = [msg EXCEPT !.stat = "BEGIN"]
        /\ pc' = "ack"
        /\ UNCHANGED <<call_vars, packet>>
     \/ msg.pkt.type \notin {"PUBREC", "PUBREL"} /\ Check /\ UNCHANGED txbuf
  /\ UNCHANGED <<struct_vars, read, write, net, seen, sends, answered, skipped>>

-------------------------------------------------------------------------------
(* What ends a call early *)

InPosition ==
  \/ pc \in {"write", "ack"} /\ write.pos < WriteLen
  \/ pc \in {"read", "payload"} /\ read < ReadLen

\* net->read or net->write returns an error, for most of them MQTT_CODE_ERROR_TIMEOUT.
NetFails ==
  /\ InPosition
  /\ Return("ERROR")
  /\ UNCHANGED <<struct_vars, reader, writer, net, history>>

\* Mutant: a position beyond the buffer ends the loop over the bytes, not the call.
OutOfBufferUnnoticed ==
  /\ pc \in {"write", "ack", "read", "payload"}
  /\ ~InPosition
  /\ UNCHANGED vars

\* Mutant: the positions are reset when they are beyond the buffer.
OutOfBufferReset ==
  /\ pc \in {"write", "ack", "read", "payload"}
  /\ ~InPosition
  /\ Return("OUT_OF_BUFFER")
  /\ read' = 0 /\ write' = [write EXCEPT !.pos = 0]
  /\ UNCHANGED <<struct_vars, packet, msg, txbuf, net, history>>

OutOfBuffer ==
  /\ pc \in {"write", "ack", "read", "payload"}
  /\ ~InPosition
  /\ Return("OUT_OF_BUFFER")
  /\ UNCHANGED <<struct_vars, reader, writer, net, history>>

\* net->read returns 0, as on a closed connection: in the rest of a packet MqttPacket_Read hands
\* it on, and the call returns it, which is MQTT_CODE_SUCCESS.  In the payload loop, which asks
\* for an error and for bytes, the read is made again.
ReadsNothing ==
  /\ pc = "read" /\ read < ReadLen
  /\ Return(IF packet.stat = "READ" THEN "SUCCESS" ELSE "ERROR")
  /\ skipped' = IF packet.stat = "READ" THEN skipped \cup ({call} \cap Requests) ELSE skipped
  /\ UNCHANGED <<struct_vars, reader, writer, net, cut, seen, sends, answered>>

-------------------------------------------------------------------------------
(* Connecting *)

Blank ==
  [packet |-> [stat |-> "BEGIN", header_len |-> 2, remain_len |-> 0],
   write |-> [pos |-> 0, len |-> 0],
   txbuf |-> [pkt |-> NoPacket, at |-> 0],
   wire |-> [pkt |-> NoPacket, n |-> Size(NoPacket)]]

NothingHalfDone ==
  /\ read = 0 /\ write.pos = 0 /\ WireWhole
  /\ packet.stat = "BEGIN"
  /\ msg.stat # "READ_PAYLOAD"
  /\ \A r \in Requests : stat[r] # "WRITE"

\* MqttClient_NetDisconnect: the positions and states stay, the stream does not.
MqttClient_NetDisconnect ==
  /\ pc = "idle" /\ connected
  /\ connected' = FALSE
  /\ inq' = <<>> /\ off' = 0
  /\ wire' = Blank.wire
  /\ cut' = (cut \/ ~NothingHalfDone)
  /\ UNCHANGED <<pc, call_vars, struct_vars, reader, writer, seen, sends, answered, skipped>>

MqttClient_NetConnect ==
  /\ pc = "idle" /\ ~connected
  /\ connected' = TRUE
  /\ UNCHANGED <<pc, call_vars, struct_vars, reader, writer, inq, off, wire, history>>

\* MqttClient_Init, on a client that is disconnected.
MqttClient_Init ==
  /\ pc \in {"idle", "astray"}
  /\ pc' = "idle" /\ call' = NoCall /\ ret' = NoRet /\ UNCHANGED calls
  /\ packet' = Blank.packet /\ read' = 0 /\ msg' = Fresh("BEGIN")
  /\ write' = Blank.write /\ txbuf' = Blank.txbuf
  /\ connected' = FALSE /\ inq' = <<>> /\ off' = 0 /\ wire' = Blank.wire
  /\ cut' = (\E r \in Requests : stat[r] = "WRITE")
  /\ seen' = 0
  /\ UNCHANGED <<struct_vars, sends, answered, skipped>>

\* The application clears a structure to make its request anew.
Renew(r) ==
  /\ pc = "idle"
  /\ stat[r] # "BEGIN" \/ r \in answered \cup skipped
  /\ stat' = [stat EXCEPT ![r] = "BEGIN"]
  /\ part' = [part EXCEPT ![r] = [pos |-> 0, len |-> 0]]
  /\ sends' = [sends EXCEPT ![r] = 0]
  /\ answered' = answered \ {r} /\ skipped' = skipped \ {r}
  /\ UNCHANGED <<pc, call_vars, reader, writer, net, cut, seen>>

\* The server passes a message of a subscribed topic on.
ServerPublishes(p) ==
  /\ connected
  /\ Len(inq) < MAX_QUEUE
  /\ inq' = Append(inq, p)
  /\ UNCHANGED <<pc, call_vars, struct_vars, reader, writer, connected, off, wire, history>>

-------------------------------------------------------------------------------
(* The specification *)

Init ==
  /\ pc = "idle" /\ call = NoCall /\ ret = NoRet /\ calls = 0
  /\ packet = Blank.packet /\ read = 0 /\ msg = Fresh("BEGIN")
  /\ write = Blank.write /\ txbuf = Blank.txbuf
  /\ connected = FALSE /\ inq = <<>> /\ off = 0 /\ wire = Blank.wire
  /\ cut = FALSE /\ seen = 0
  /\ stat = [r \in Requests |-> "BEGIN"]
  /\ part = [r \in Requests |-> [pos |-> 0, len |-> 0]]
  /\ sends = [r \in Requests |-> 0]
  /\ answered = {} /\ skipped = {}

Application ==
  \/ MqttClient_Init
  \/ /\ calls < MAX_CALLS
     /\ \/ \E r \in Requests : CallRequest(r) \/ MqttClient_Publish(r) \/ Renew(r)
        \/ MqttClient_Ping \/ MqttClient_Disconnect \/ MqttClient_WaitMessage
        \/ MqttClient_NetConnect \/ MqttClient_NetDisconnect

Largest == IF RX_BUF_LEN > TX_BUF_LEN THEN RX_BUF_LEN ELSE TX_BUF_LEN
Client ==
  \/ NetFails \/ OutOfBuffer \/ ReadsNothing \/ WritesNothing
  \/ HandlePublish \/ HandleOther
  \/ \E n \in 1 .. Largest : NetWrite(n) \/ NetRead(n)
  \/ WriteAstray \/ ReadAstray

Next == Application \/ Client \/ \E p \in ServerSends : ServerPublishes(p)

\* In the payload loop nothing is owed: net->read may give 0 there for ever.
Spec == Init /\ [][Next]_vars /\ WF_vars(pc \notin {"idle", "payload", "astray"} /\ Client)

-------------------------------------------------------------------------------
(* Properties *)

Packets == Requests \cup ServerSends \cup {NoPacket, PingReq, Disconnect, WaitMessage}
RC == {"NONE", "SUCCESS", "ERROR", "OUT_OF_BUFFER"}
MsgStat == {"BEGIN", "WAIT", "READ", "READ_PAYLOAD"}

\* Type invariant; with it: positions stay inside the buffers, and no packet is read past its end.
TypeOK ==
  /\ pc \in {"idle", "write", "ack", "read", "payload", "handle", "astray"}
  /\ call \in Packets /\ ret.rc \in RC /\ calls \in 0 .. MAX_CALLS
  /\ stat \in [Requests -> {"BEGIN", "WRITE", "WAIT"}]
  /\ packet.stat \in {"BEGIN", "READ_HEAD", "READ"}
  /\ read \in 0 .. RX_BUF_LEN - 1
  /\ write.pos \in 0 .. TX_BUF_LEN - 1 /\ write.len \in 0 .. TX_BUF_LEN
  /\ msg.stat \in MsgStat
  /\ Len(inq) <= MAX_QUEUE
  /\ off = 0 \/ (inq # <<>> /\ off < Size(Head(inq)))
  /\ wire.n \in 0 .. Size(wire.pkt)
  /\ sends \in [Requests -> 0..2] /\ answered \cup skipped \subseteq Requests

\* Timeouts may end calls anywhere: as long as what they left half done is taken up as it was
\* (no other packet or part was put over it in tx_buf, no header forgotten, no connection
\* replaced), every byte is read and written at its place and no position is beyond its buffer.
TroubleOnlyAfterCut == pc = "astray" \/ ret.rc = "OUT_OF_BUFFER" => cut

\* A call that timed out with two bytes or more of a packet's rest read, and made again, finds
\* packet.stat reset and read.pos not: no call reads again until MqttClient_Init, not over a
\* new connection either.
Deaf == read >= 2 /\ packet.stat = "BEGIN" /\ msg.stat # "READ_PAYLOAD"
DeafUntilInit == [][Deaf => Deaf' \/ MqttClient_Init]_vars

\* The callback gets each byte of a payload once and in order, however many calls it takes to
\* read it, and all of them before the message is acknowledged.
PayloadOnceInOrder ==
  /\ msg.stat = "READ_PAYLOAD" => seen = msg.pos /\ msg.pos < msg.pkt.pay
  /\ pc = "ack" /\ msg.pkt.type = "PUBLISH" => seen = msg.pkt.pay

\* A call returns once the server sends no more messages (while it does, each of them starts
\* the wait for the answer again, with the whole timeout), unless it stays in the payload loop
\* for ever, whose reads give 0 on a connection closed inside a message.
CallsReturn ==
  <>[][\A p \in ServerSends : ~ServerPublishes(p)]_vars
    => \/ <>[](pc = "payload")
       \/ []<>(pc \in {"idle", "astray"})

\* The abstract call: a request is sent once however often its call is made, and succeeds only
\* with an answer of its own, or by a read or write of nothing, which passes for success.
Answerable == {r \in Requests : r.type # "PUBLISH" \/ r.qos > 0}

Promise == INSTANCE MqttCall WITH
  Requests <- Answerable, None <- NoCall,
  calling <- IF call \in Answerable THEN call ELSE NoCall,
  progress <- [r \in Answerable |->
    IF r \in answered THEN "answered" ELSE <<"new", "sent", "sent twice">>[sends[r] + 1]],
  success <- IF ret.rc = "SUCCESS" /\ ret.call \in Answerable THEN ret.call ELSE NoCall,
  skipped <- skipped \cap Answerable

KeepsPromise == Promise!Spec
=============================================================================
