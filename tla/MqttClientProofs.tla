-------------------------- MODULE MqttClientProofs --------------------------
(***************************************************************************)
(* Proofs about MqttClient for any requests, messages and buffer lengths:  *)
(* what the callback is given, where the reader and the writer are when a  *)
(* call times out in the middle of a packet, what is left if that place is *)
(* lost, and that the calls keep the promise of MqttCall.                  *)
(***************************************************************************)
EXTENDS MqttClient, SequenceTheorems, TLAPS

\* What the network can hold: messages of the server, and answers without a payload.
AnswerTypes == {"CONNACK", "SUBACK", "UNSUBACK", "PUBACK", "PUBCOMP", "PINGRESP", "PUBREC", "PUBREL", "MAX"}
AnswerPackets ==
  [type : AnswerTypes, id : Nat, qos : {0}, head : {2}, var : {0, 2}, pay : {0}]
Incoming == ServerSends \cup AnswerPackets

PacketType == [stat : {"BEGIN", "READ_HEAD", "READ"}, header_len : Int, remain_len : Int]

\* The fields, and the identifiers that go into answers.
Shapes ==
  /\ packet \in PacketType
  /\ msg \in [stat : MsgStat, pkt : Incoming \cup {NoPacket}, new : BOOLEAN, pos : Nat, len : Nat]
  /\ read \in Nat
  /\ inq \in Seq(Incoming)
  /\ call.id \in Nat /\ txbuf.pkt.id \in Nat

\* A header is being looked at or a payload read, and only then is the message in that state;
\* nothing of a packet is read yet when its header has just been.
InStep ==
  /\ pc = "handle" => msg.stat \in {"READ", "READ_PAYLOAD"}
  /\ pc = "payload" => msg.stat = "READ_PAYLOAD"
  /\ msg.stat = "READ" => pc = "handle" /\ read = 0

\* In a message of which more is to be read, pos bytes were given to the callback and len are
\* in rx_buf.
GivenBytes ==
  /\ msg.stat = "READ_PAYLOAD" =>
       /\ msg.pkt \in ServerSends /\ seen = msg.pos /\ msg.pos < msg.pkt.pay
       /\ msg.len = 0 /\ ~msg.new
  /\ msg.stat = "READ" /\ msg.pkt.type = "PUBLISH" =>
       /\ msg.pkt \in ServerSends /\ msg.pos + msg.len <= msg.pkt.pay
       /\ IF msg.new THEN msg.pos = 0 ELSE seen = msg.pos
  /\ pc = "ack" /\ msg.pkt.type = "PUBLISH" => seen = msg.pkt.pay

IInv == Shapes /\ InStep /\ GivenBytes

-------------------------------------------------------------------------------
(* Packets *)

LEMMA Messages ==
  ASSUME NEW p \in ServerSends
  PROVE  /\ p.type = "PUBLISH" /\ p.id \in Nat /\ p.head \in Nat /\ p.var \in Nat /\ p.pay \in Nat
         /\ p.head + p.var <= RX_BUF_LEN
BY ServerAssumption DEF PacketShape

LEMMA Lengths == RX_BUF_LEN \in Nat /\ TX_BUF_LEN \in Nat /\ RX_BUF_LEN >= 4 /\ Largest \in Nat
BY BuffersAssumption DEF Largest

LEMMA AtMostIs ==
  ASSUME NEW n \in Nat, NEW limit \in Nat
  PROVE  AtMost(n, limit) \in Nat /\ AtMost(n, limit) <= n
BY DEF AtMost

LEMMA IncomingIds ==
  ASSUME NEW p \in Incoming \cup {NoPacket}
  PROVE  p.id \in Nat
<1>1. CASE p \in ServerSends
  BY <1>1, Messages
<1>2. CASE p \in AnswerPackets
  BY <1>2 DEF AnswerPackets
<1>3. CASE p = NoPacket
  BY <1>3 DEF NoPacket, Short
<1> QED
  BY <1>1, <1>2, <1>3 DEF Incoming

LEMMA PublishIsMessage ==
  ASSUME NEW p \in Incoming \cup {NoPacket}, p.type = "PUBLISH"
  PROVE  p \in ServerSends
<1>1. p \notin AnswerPackets
  BY DEF AnswerPackets, AnswerTypes
<1>2. p # NoPacket
  BY DEF NoPacket, Short
<1> QED
  BY <1>1, <1>2 DEF Incoming

LEMMA ShortIsAnswer ==
  ASSUME NEW type \in AnswerTypes, NEW id \in Nat, NEW var \in {0, 2}
  PROVE  Short(type, id, var) \in Incoming
BY DEF Short, AnswerPackets, Incoming

\* The answers to a packet with an identifier are among them.
LEMMA Answers ==
  ASSUME NEW p, p.id \in Nat
  PROVE  ServerAnswer(p) \in Seq(Incoming) /\ ClientAnswer(p).id \in Nat
<1>1. WaitType(p) \in AnswerTypes
  BY DEF WaitType, AnswerTypes
<1>2. /\ Short("PINGRESP", 0, 0) \in Incoming
      /\ \A type \in AnswerTypes : Resp(type, p.id) \in Incoming
  BY ShortIsAnswer DEF AnswerTypes, Resp
<1>3. /\ Resp("PUBCOMP", p.id) \in Incoming /\ Resp("PUBREL", p.id) \in Incoming
      /\ Resp("PUBACK", p.id) \in Incoming /\ Resp("PUBREC", p.id) \in Incoming
      /\ Resp(WaitType(p), p.id) \in Incoming
  BY <1>1, <1>2 DEF AnswerTypes
<1>4. ServerAnswer(p) \in Seq(Incoming)
  BY <1>2, <1>3 DEF ServerAnswer
<1>5. ClientAnswer(p).id \in Nat
  BY DEF ClientAnswer, Resp, Short, NoPacket
<1> QED
  BY <1>4, <1>5

LEMMA RequestIds ==
  ASSUME NEW r \in Requests \cup {PingReq, Disconnect, WaitMessage, NoPacket}
  PROVE  r.id \in Nat
<1>1. CASE r \in Requests
  BY <1>1, RequestsAssumption DEF PacketShape
<1>2. CASE r \notin Requests
  BY <1>2 DEF PingReq, Disconnect, WaitMessage, NoPacket, Short
<1> QED
  BY <1>1, <1>2

-------------------------------------------------------------------------------
(* Parts of the steps *)

LEMMA FreshIsMessage ==
  ASSUME NEW s \in MsgStat
  PROVE  /\ Fresh(s) \in [stat : MsgStat, pkt : Incoming \cup {NoPacket}, new : BOOLEAN,
                          pos : Nat, len : Nat]
         /\ Fresh(s).stat = s /\ Fresh(s).pkt.type # "PUBLISH"
BY DEF Fresh, NoPacket, Short

LEMMA EnterWaitKeeps ==
  ASSUME Shapes, NEW s \in MsgStat, EnterWait(s)
  PROVE  /\ packet' \in PacketType
         /\ pc' = IF s \in {"BEGIN", "WAIT"} THEN "read" ELSE "handle"
         /\ packet'.stat = "BEGIN" \/ packet'.stat = packet.stat
BY DEF EnterWait, Shapes, PacketType

\* A step that leaves the message alone.
LEMMA QuietStep ==
  ASSUME IInv, msg' = msg, seen' = seen, pc # "handle",
         packet' \in PacketType, read' \in Nat, inq' \in Seq(Incoming),
         call'.id \in Nat, txbuf'.pkt.id \in Nat,
         pc' = "handle" => msg.stat = "READ_PAYLOAD",
         pc' = "payload" => pc = "payload",
         pc' = "ack" => pc = "ack"
  PROVE  IInv'
<1>1. Shapes'
  BY DEF IInv, Shapes, PacketType
<1>2. InStep'
  BY DEF IInv, InStep
<1>3. GivenBytes'
  BY DEF IInv, InStep, GivenBytes
<1> QED
  BY <1>1, <1>2, <1>3 DEF IInv

\* A step that ends a message.
LEMMA FreshStep ==
  ASSUME IInv, NEW s \in {"BEGIN", "WAIT"}, msg' = Fresh(s),
         packet' \in PacketType, read' \in Nat, inq' \in Seq(Incoming),
         call'.id \in Nat, txbuf'.pkt.id \in Nat,
         pc' \notin {"handle", "payload"}
  PROVE  IInv'
<1>1. /\ msg' \in [stat : MsgStat, pkt : Incoming \cup {NoPacket}, new : BOOLEAN, pos : Nat, len : Nat]
      /\ msg'.stat = s /\ msg'.pkt.type # "PUBLISH"
  BY FreshIsMessage DEF MsgStat
<1>2. Shapes'
  BY <1>1 DEF Shapes, PacketType
<1>3. InStep'
  BY <1>1 DEF InStep
<1>4. GivenBytes'
  BY <1>1 DEF GivenBytes
<1> QED
  BY <1>2, <1>3, <1>4 DEF IInv

LEMMA EnterWaitQuiet ==
  ASSUME IInv, EnterWait(msg.stat), pc # "handle"
  PROVE  /\ packet' \in PacketType
         /\ pc' = "read" \/ (pc' = "handle" /\ msg.stat = "READ_PAYLOAD")
<1>1. msg.stat \in MsgStat /\ msg.stat # "READ"
  BY DEF IInv, Shapes, InStep
<1> QED
  BY <1>1, EnterWaitKeeps DEF IInv, MsgStat, PacketType

LEMMA CheckEnds ==
  ASSUME IInv, Check
  PROVE  /\ msg' = Fresh("BEGIN") /\ packet' \in PacketType
         /\ call'.id \in Nat /\ pc' \in {"idle", "read"}
<1>1. CASE call = WaitMessage \/ IsAnswer(msg.pkt, call)
  <2>1. Return("SUCCESS") /\ msg' = Fresh("BEGIN") /\ UNCHANGED packet
    BY <1>1 DEF Check
  <2>2. NoCall.id \in Nat
    BY DEF NoCall, NoPacket, Short
  <2> QED
    BY <2>1, <2>2 DEF Return, IInv, Shapes, PacketType
<1>2. CASE ~(call = WaitMessage \/ IsAnswer(msg.pkt, call))
  <2>1. EnterWait("BEGIN") /\ msg' = Fresh("BEGIN") /\ UNCHANGED call_vars
    BY <1>2 DEF Check
  <2> QED
    BY <2>1, EnterWaitKeeps DEF IInv, Shapes, call_vars, PacketType, MsgStat
<1> QED
  BY <1>1, <1>2

LEMMA ReturnIds == ASSUME NEW rc, Return(rc) PROVE pc' = "idle" /\ call'.id \in Nat
BY DEF Return, NoCall, NoPacket, Short

-------------------------------------------------------------------------------
(* The application's calls *)

LEMMA CallSteps ==
  ASSUME IInv,
         \/ \E r \in Requests : CallRequest(r) \/ MqttClient_Publish(r)
         \/ MqttClient_Ping \/ MqttClient_Disconnect \/ MqttClient_WaitMessage
  PROVE  IInv'
<1>1. ASSUME NEW c \in Requests \cup {PingReq, Disconnect, WaitMessage},
             Start(c), UNCHANGED <<msg, seen, read, inq>>,
             \/ Encode(c) /\ pc' = "write" /\ UNCHANGED packet
             \/ pc' = "write" /\ UNCHANGED <<packet, txbuf>>
             \/ EnterWait(msg.stat) /\ UNCHANGED txbuf
      PROVE  IInv'
  <2>1. pc = "idle" /\ call' = c /\ c.id \in Nat
    BY <1>1, RequestIds DEF Start
  <2>2. /\ packet' \in PacketType
        /\ pc' \in {"write", "read"} \/ (pc' = "handle" /\ msg.stat = "READ_PAYLOAD")
    BY <1>1, <2>1, EnterWaitQuiet DEF IInv, Shapes, PacketType
  <2>3. txbuf'.pkt.id \in Nat
    BY <1>1, <2>1 DEF Encode, IInv, Shapes
  <2>4. read' \in Nat /\ inq' \in Seq(Incoming)
    BY <1>1 DEF IInv, Shapes
  <2>5. call'.id \in Nat /\ pc # "handle"
    BY <2>1
  <2> HIDE DEF IInv
  <2> QED
    BY <1>1, <2>2, <2>3, <2>4, <2>5, QuietStep
<1>2. ASSUME NEW r \in Requests, CallRequest(r) PROVE IInv'
  BY <1>1, <1>2 DEF CallRequest, net
<1>3. ASSUME NEW r \in Requests, MqttClient_Publish(r) PROVE IInv'
  BY <1>1, <1>3 DEF MqttClient_Publish, net, writer
<1>4. CASE MqttClient_Ping
  BY <1>1, <1>4 DEF MqttClient_Ping, net
<1>5. CASE MqttClient_Disconnect
  BY <1>1, <1>5 DEF MqttClient_Disconnect, net, reader
<1>6. CASE MqttClient_WaitMessage
  BY <1>1, <1>6 DEF MqttClient_WaitMessage, net, writer
<1> QED
  BY <1>2, <1>3, <1>4, <1>5, <1>6

LEMMA OtherCalls ==
  ASSUME IInv,
         \/ \E r \in Requests : Renew(r)
         \/ MqttClient_NetConnect \/ MqttClient_NetDisconnect
         \/ \E p \in ServerSends : ServerPublishes(p)
  PROVE  IInv'
<1>1. CASE \/ \E r \in Requests : Renew(r)
           \/ MqttClient_NetConnect \/ MqttClient_NetDisconnect
  <2>1. pc = "idle" /\ pc' = "idle" /\ UNCHANGED <<call, txbuf, packet, read, msg, seen>>
    BY <1>1 DEF Renew, MqttClient_NetConnect, MqttClient_NetDisconnect, call_vars, reader, writer, history
  <2>2. inq' = inq \/ inq' = <<>>
    BY <1>1 DEF Renew, MqttClient_NetConnect, MqttClient_NetDisconnect, net
  <2>3. <<>> \in Seq(Incoming)
    BY EmptySeq
  <2> QED
    BY <2>1, <2>2, <2>3, QuietStep DEF IInv, Shapes, PacketType
<1>2. ASSUME NEW p \in ServerSends, ServerPublishes(p) PROVE IInv'
  <2>1. UNCHANGED <<pc, call, txbuf, packet, read, msg, seen>>
    BY <1>2 DEF ServerPublishes, call_vars, reader, writer, history
  <2>2. inq' \in Seq(Incoming)
    BY <1>2, AppendProperties DEF ServerPublishes, IInv, Shapes, Incoming
  <2> QED
    BY <2>1, <2>2 DEF IInv, Shapes, InStep, GivenBytes
<1> QED
  BY <1>1, <1>2

LEMMA InitStep == ASSUME IInv, MqttClient_Init PROVE IInv'
<1>1. /\ pc' = "idle" /\ call' = NoCall /\ msg' = Fresh("BEGIN") /\ read' = 0 /\ inq' = <<>>
      /\ packet' = [stat |-> "BEGIN", header_len |-> 2, remain_len |-> 0]
      /\ txbuf' = [pkt |-> NoPacket, at |-> 0]
  BY DEF MqttClient_Init, Blank
<1>2. call'.id \in Nat /\ txbuf'.pkt.id \in Nat /\ inq' \in Seq(Incoming)
  BY <1>1, EmptySeq DEF NoCall, NoPacket, Short
<1>3. packet' \in PacketType /\ read' \in Nat
  BY <1>1 DEF PacketType
<1> QED
  BY <1>1, <1>2, <1>3, FreshStep

-------------------------------------------------------------------------------
(* Writing and reading *)

LEMMA PublishGoesOnStep ==
  ASSUME IInv, pc = "write", NEW pos, NEW nothing, PublishGoesOn(pos, nothing),
         read' \in Nat, seen' = seen, inq' \in Seq(Incoming)
  PROVE  IInv'
<1>1. CASE UNCHANGED <<pc, call_vars, stat, packet, msg>> /\ txbuf'.pkt = call
  BY <1>1, QuietStep DEF IInv, Shapes, call_vars
<1>2. CASE Return("SUCCESS") /\ UNCHANGED <<packet, cut, msg, txbuf>>
  BY <1>2, ReturnIds, QuietStep DEF IInv, Shapes
<1>3. CASE EnterWait(msg.stat) /\ UNCHANGED <<call_vars, msg, txbuf>>
  <2>1. call'.id \in Nat /\ txbuf'.pkt.id \in Nat
    BY <1>3 DEF IInv, Shapes, call_vars
  <2> QED
    BY <1>3, <2>1, EnterWaitQuiet, QuietStep
<1> QED
  BY <1>1, <1>2, <1>3 DEF PublishGoesOn

LEMMA WrittenStep ==
  ASSUME IInv, pc \in {"write", "ack"}, Written,
         read' \in Nat, seen' = seen, inq' \in Seq(Incoming)
  PROVE  IInv'
<1> USE DEF call_vars, struct_vars
<1>1. CASE RequestWritten
  <2>1. EnterWait(msg.stat) /\ UNCHANGED <<call, txbuf, msg>>
    BY <1>1 DEF RequestWritten
  <2>2. call'.id \in Nat /\ txbuf'.pkt.id \in Nat
    BY <2>1 DEF IInv, Shapes
  <2> QED
    BY <2>1, <2>2, EnterWaitQuiet, QuietStep
<1>2. CASE PingWritten
  <2>1. EnterWait("WAIT") /\ UNCHANGED <<call, txbuf>> /\ msg' = Fresh("WAIT")
    BY <1>2 DEF PingWritten
  <2>2. call'.id \in Nat /\ txbuf'.pkt.id \in Nat
    BY <2>1 DEF IInv, Shapes
  <2>3. packet' \in PacketType /\ pc' = "read"
    BY <2>1, EnterWaitKeeps DEF MsgStat, IInv
  <2> QED
    BY <2>1, <2>2, <2>3, FreshStep
<1>3. CASE DisconnectWritten
  <2>1. Return("SUCCESS") /\ UNCHANGED <<packet, msg, txbuf>>
    BY <1>3 DEF DisconnectWritten
  <2> QED
    BY <2>1, ReturnIds, QuietStep DEF IInv, Shapes
<1>4. CASE PublishWritten
  BY <1>4, PublishGoesOnStep DEF PublishWritten
<1>5. CASE AnswerWritten
  <2>1. Check /\ UNCHANGED txbuf
    BY <1>5 DEF AnswerWritten
  <2>2. txbuf'.pkt.id \in Nat
    BY <2>1 DEF IInv, Shapes
  <2> QED
    BY <2>1, <2>2, CheckEnds, FreshStep
<1> QED
  BY <1>1, <1>2, <1>3, <1>4, <1>5 DEF Written

LEMMA NetWriteStep == ASSUME IInv, NEW n \in 1 .. Largest, NetWrite(n) PROVE IInv'
<1>1. read' \in Nat /\ seen' = seen
  BY DEF NetWrite, IInv, Shapes
<1>2. inq' \in Seq(Incoming)
  <2>1. CASE UNCHANGED inq
    BY <2>1 DEF IInv, Shapes
  <2>2. ASSUME Arrives(txbuf.pkt) PROVE inq' \in Seq(Incoming)
    <3>1. PICK ans \in {<<>>, ServerAnswer(txbuf.pkt)} : inq' = inq \o ans
      BY <2>2 DEF Arrives
    <3>2. ans \in Seq(Incoming)
      BY <3>1, Answers, EmptySeq DEF IInv, Shapes
    <3> QED
      BY <3>1, <3>2, ConcatProperties DEF IInv, Shapes
  <2> QED
    BY <2>1, <2>2 DEF NetWrite
<1>3. CASE Written
  BY <1>1, <1>2, <1>3, WrittenStep DEF NetWrite
<1>4. CASE UNCHANGED <<pc, call_vars, struct_vars, packet, msg, txbuf, cut>>
  BY <1>1, <1>2, <1>4, QuietStep DEF IInv, Shapes, call_vars, NetWrite
<1> QED
  BY <1>3, <1>4 DEF NetWrite

\* The header of a packet: its first bytes of payload, if it is a message.
LEMMA PacketReadStep ==
  ASSUME IInv, PacketRead, inq # <<>>, read' = 0, inq' \in Seq(Incoming),
         call'.id \in Nat, txbuf'.pkt.id \in Nat
  PROVE  IInv'
<1> DEFINE p == Head(inq)
           len == AtMost(p.pay, RX_BUF_LEN - (p.head + p.var))
<1>1. p \in Incoming
  BY HeadTailProperties DEF IInv, Shapes
<1>2. p.pay \in Nat /\ RX_BUF_LEN - (p.head + p.var) \in Nat
  <2>1. CASE p \in ServerSends
    BY <2>1, Messages, Lengths
  <2>2. CASE p \in AnswerPackets
    BY <2>2, Lengths DEF AnswerPackets
  <2> QED
    BY <1>1, <2>1, <2>2 DEF Incoming
<1>3. len \in Nat /\ len <= p.pay
  BY <1>2, AtMostIs
<1>4. p.type = "PUBLISH" => p \in ServerSends
  BY <1>1, PublishIsMessage
<1>5. /\ msg' = [stat |-> "READ", pkt |-> p, new |-> TRUE, pos |-> 0, len |-> len]
      /\ packet' = [stat |-> "BEGIN", header_len |-> 2, remain_len |-> 0]
      /\ pc' = "handle"
  BY DEF PacketRead
<1> HIDE DEF p, len
<1>6. Shapes'
  BY <1>1, <1>3, <1>5 DEF Shapes, PacketType, MsgStat
<1>7. InStep'
  BY <1>5 DEF InStep
<1>8. GivenBytes'
  <2>1. 0 + len <= p.pay
    BY <1>2, <1>3
  <2> QED
    BY <1>4, <1>5, <2>1 DEF GivenBytes
<1> QED
  BY <1>6, <1>7, <1>8 DEF IInv

LEMMA NetReadStep == ASSUME IInv, NEW n \in 1 .. Largest, NetRead(n) PROVE IInv'
<1>1. /\ call'.id \in Nat /\ txbuf'.pkt.id \in Nat /\ seen' = seen
      /\ inq # <<>> /\ pc \in {"read", "payload"} /\ read \in Nat /\ n \in Nat
  BY Lengths DEF NetRead, IInv, Shapes, call_vars, writer
<1>2. inq' \in Seq(Incoming)
  <2>1. inq \in Seq(Incoming) /\ (inq' = inq \/ inq' = Tail(inq))
    BY DEF NetRead, IInv, Shapes
  <2> QED
    BY <1>1, <2>1, HeadTailProperties
<1>3. CASE read' = read + n /\ UNCHANGED <<pc, packet, msg, answered>>
  BY <1>1, <1>2, <1>3, QuietStep DEF IInv, Shapes
<1>4. ASSUME read' = 0, PacketRead PROVE IInv'
  BY <1>1, <1>2, <1>4, PacketReadStep
<1>5. ASSUME read' = 0, NEW h \in Int, pc = "read", HeaderRead(h) PROVE IInv'
  <2>1. ASSUME UNCHANGED <<pc, msg, answered>>, packet' \in PacketType PROVE IInv'
    BY <1>1, <1>2, <1>5, <2>1, QuietStep
  <2>2. CASE packet' = [stat |-> "READ_HEAD", header_len |-> h, remain_len |-> 0]
             /\ UNCHANGED <<pc, msg, answered>>
    BY <1>5, <2>1, <2>2 DEF PacketType
  <2>3. ASSUME NEW rest \in Int, packet' = [stat |-> "READ", header_len |-> h, remain_len |-> rest],
               UNCHANGED <<pc, msg, answered>>
        PROVE  IInv'
    BY <1>5, <2>1, <2>3 DEF PacketType
  <2>4. Head(inq).var + Head(inq).pay \in Int /\ RX_BUF_LEN - Head(inq).head \in Int
    <3>1. Head(inq) \in Incoming
      BY <1>1, HeadTailProperties DEF IInv, Shapes
    <3>2. CASE Head(inq) \in ServerSends
      BY <3>2, Messages, Lengths
    <3>3. CASE Head(inq) \in AnswerPackets
      BY <3>3, Lengths DEF AnswerPackets
    <3> QED
      BY <3>1, <3>2, <3>3 DEF Incoming
  <2>5. AtMost(Head(inq).var + Head(inq).pay, RX_BUF_LEN - Head(inq).head) \in Int
    BY <2>4 DEF AtMost
  <2> QED
    BY <1>4, <1>5, <2>2, <2>3, <2>5 DEF HeaderRead
<1>6. ASSUME read' = 0, pc = "payload", pc' = "handle", UNCHANGED packet,
             msg' = [msg EXCEPT !.stat = "READ", !.len = ReadLen]
      PROVE  IInv'
  <2>1. /\ msg.stat = "READ_PAYLOAD" /\ msg.pkt \in ServerSends /\ seen = msg.pos
        /\ msg.pos < msg.pkt.pay
    BY <1>6 DEF IInv, InStep, GivenBytes
  <2>2. /\ msg \in [stat : MsgStat, pkt : Incoming \cup {NoPacket}, new : BOOLEAN, pos : Nat, len : Nat]
        /\ packet \in PacketType
    BY DEF IInv, Shapes
  <2>3. ReadLen \in Nat /\ msg.pos + ReadLen <= msg.pkt.pay
    <3>1. msg.pos \in Nat /\ msg.pkt.pay \in Nat /\ msg.pkt.pay - msg.pos \in Nat
      BY <2>1, <2>2, Messages
    <3>2. ReadLen = AtMost(msg.pkt.pay - msg.pos, RX_BUF_LEN)
      BY <1>6 DEF ReadLen
    <3>3. ReadLen \in Nat /\ ReadLen <= msg.pkt.pay - msg.pos
      BY <3>1, <3>2, AtMostIs, Lengths
    <3> QED
      BY <3>1, <3>3
  <2>4. /\ msg'.stat = "READ" /\ msg'.pkt = msg.pkt /\ msg'.pos = msg.pos /\ msg'.new = msg.new
        /\ msg'.len = ReadLen
        /\ msg' \in [stat : MsgStat, pkt : Incoming \cup {NoPacket}, new : BOOLEAN, pos : Nat, len : Nat]
    BY <1>6, <2>2, <2>3 DEF MsgStat
  <2>5. ~msg.new
    BY <2>1 DEF IInv, GivenBytes
  <2> QED
    BY <1>1, <1>2, <1>6, <2>1, <2>2, <2>3, <2>4, <2>5 DEF IInv, Shapes, InStep, GivenBytes
<1>7. CASE read' = 0 /\ ReadFull
  <2>1. packet.header_len + 1 \in Int
    BY DEF IInv, Shapes, PacketType
  <2> QED
    BY <1>4, <1>5, <1>6, <1>7, <2>1 DEF ReadFull
<1> QED
  BY <1>3, <1>7 DEF NetRead

-------------------------------------------------------------------------------
(* Handling *)

LEMMA HandlePublishStep == ASSUME IInv, HandlePublish PROVE IInv'
<1> DEFINE n == msg.pos + msg.len
<1>1. /\ msg \in [stat : MsgStat, pkt : Incoming \cup {NoPacket}, new : BOOLEAN, pos : Nat, len : Nat]
      /\ packet \in PacketType /\ read \in Nat /\ inq \in Seq(Incoming)
      /\ call.id \in Nat /\ txbuf.pkt.id \in Nat
      /\ pc = "handle" /\ msg.pkt.type = "PUBLISH" /\ msg.stat \in {"READ", "READ_PAYLOAD"}
      /\ n \in Nat
  BY DEF IInv, Shapes, InStep, HandlePublish
<1>2. msg.pkt \in ServerSends /\ n <= msg.pkt.pay /\ msg.pkt.pay \in Nat
  <2>1. CASE msg.stat = "READ"
    BY <1>1, <2>1, Messages DEF IInv, GivenBytes
  <2>2. CASE msg.stat = "READ_PAYLOAD"
    <3>1. msg.pkt \in ServerSends /\ msg.pos < msg.pkt.pay /\ msg.len = 0
      BY <2>2 DEF IInv, GivenBytes
    <3>2. msg.pkt.pay \in Nat /\ msg.pos \in Nat
      BY <1>1, <3>1, Messages
    <3> QED
      BY <3>1, <3>2
  <2> QED
    BY <1>1, <2>1, <2>2
<1>3. seen' = n
  <2>1. CASE msg.stat = "READ"
    <3>1. IF msg.new THEN msg.pos = 0 ELSE seen = msg.pos
      BY <1>1, <2>1 DEF IInv, GivenBytes
    <3>2. seen' = (IF msg.new THEN 0 ELSE seen) + msg.len
      BY <2>1 DEF HandlePublish
    <3> QED
      BY <3>1, <3>2
  <2>2. CASE msg.stat = "READ_PAYLOAD"
    <3>1. seen = msg.pos /\ msg.len = 0 /\ seen' = seen
      BY <2>2 DEF IInv, GivenBytes, HandlePublish
    <3> QED
      BY <1>1, <3>1
  <2> QED
    BY <1>1, <2>1, <2>2
<1>4. read' \in Nat /\ inq' \in Seq(Incoming)
  BY <1>1 DEF HandlePublish, net
<1> HIDE DEF n
<1>5. CASE /\ n < msg.pkt.pay
           /\ msg' = [msg EXCEPT !.stat = "READ_PAYLOAD", !.new = FALSE, !.pos = n, !.len = 0]
           /\ pc' = "payload"
           /\ UNCHANGED <<call_vars, packet, txbuf, cut>>
  <2>1. /\ msg' \in [stat : MsgStat, pkt : Incoming \cup {NoPacket}, new : BOOLEAN, pos : Nat, len : Nat]
        /\ msg'.stat = "READ_PAYLOAD" /\ msg'.pkt = msg.pkt /\ msg'.pos = n /\ msg'.len = 0
        /\ msg'.new = FALSE
    BY <1>1, <1>5 DEF MsgStat
  <2>2. Shapes'
    BY <1>1, <1>4, <1>5, <2>1 DEF Shapes, call_vars
  <2>3. InStep' /\ GivenBytes'
    BY <1>2, <1>3, <1>5, <2>1 DEF InStep, GivenBytes
  <2> QED
    BY <2>2, <2>3 DEF IInv
<1>6. CASE /\ n >= msg.pkt.pay /\ msg.pkt.qos > 0
           /\ Encode(ClientAnswer(msg.pkt))
           /\ msg' = [msg EXCEPT !.stat = "BEGIN", !.new = FALSE]
           /\ pc' = "ack"
           /\ UNCHANGED <<call_vars, packet>>
  <2>1. /\ msg' \in [stat : MsgStat, pkt : Incoming \cup {NoPacket}, new : BOOLEAN, pos : Nat, len : Nat]
        /\ msg'.stat = "BEGIN" /\ msg'.pkt = msg.pkt
    BY <1>1, <1>6 DEF MsgStat
  <2>2. txbuf'.pkt.id \in Nat
    BY <1>1, <1>6, Answers, IncomingIds DEF Encode
  <2>3. n = msg.pkt.pay
    BY <1>1, <1>2, <1>6
  <2>4. Shapes'
    BY <1>1, <1>4, <1>6, <2>1, <2>2 DEF Shapes, call_vars
  <2>5. InStep' /\ GivenBytes'
    BY <1>3, <1>6, <2>1, <2>3 DEF InStep, GivenBytes
  <2> QED
    BY <2>4, <2>5 DEF IInv
<1>7. CASE Check /\ UNCHANGED txbuf
  <2>1. txbuf'.pkt.id \in Nat
    BY <1>1, <1>7
  <2> QED
    BY <1>4, <1>7, <2>1, CheckEnds, FreshStep
<1> QED
  BY <1>5, <1>6, <1>7 DEF HandlePublish, n

LEMMA HandleOtherStep == ASSUME IInv, HandleOther PROVE IInv'
<1>1. /\ msg \in [stat : MsgStat, pkt : Incoming \cup {NoPacket}, new : BOOLEAN, pos : Nat, len : Nat]
      /\ packet \in PacketType /\ txbuf.pkt.id \in Nat /\ call.id \in Nat
      /\ msg.pkt.type # "PUBLISH"
  BY DEF IInv, Shapes, HandleOther
<1>2. read' \in Nat /\ inq' \in Seq(Incoming)
  BY DEF IInv, Shapes, HandleOther, net
<1>3. CASE /\ Encode(ClientAnswer(msg.pkt))
           /\ msg' = [msg EXCEPT !.stat = "BEGIN"]
           /\ pc' = "ack"
           /\ UNCHANGED <<call_vars, packet>>
  <2>1. /\ msg' \in [stat : MsgStat, pkt : Incoming \cup {NoPacket}, new : BOOLEAN, pos : Nat, len : Nat]
        /\ msg'.stat = "BEGIN" /\ msg'.pkt = msg.pkt
    BY <1>1, <1>3 DEF MsgStat
  <2>2. txbuf'.pkt.id \in Nat
    BY <1>1, <1>3, Answers, IncomingIds DEF Encode
  <2>3. Shapes'
    BY <1>1, <1>2, <1>3, <2>1, <2>2 DEF Shapes, call_vars
  <2>4. InStep' /\ GivenBytes'
    BY <1>1, <1>3, <2>1 DEF InStep, GivenBytes
  <2> QED
    BY <2>3, <2>4 DEF IInv
<1>4. CASE Check /\ UNCHANGED txbuf
  <2>1. txbuf'.pkt.id \in Nat
    BY <1>1, <1>4
  <2> QED
    BY <1>2, <1>4, <2>1, CheckEnds, FreshStep
<1> QED
  BY <1>3, <1>4 DEF HandleOther

\* The steps that end the call, or the model, and leave the rest as it is.
LEMMA EndStep ==
  ASSUME IInv, WriteAstray \/ ReadAstray \/ NetFails \/ OutOfBuffer \/ ReadsNothing
  PROVE  IInv'
<1>1. pc # "handle" /\ UNCHANGED <<packet, read, msg, inq, txbuf, seen>>
  BY DEF WriteAstray, ReadAstray, NetFails, OutOfBuffer, ReadsNothing, InPosition, reader, writer,
         net, history
<1>2. pc' \in {"idle", "astray"} /\ call'.id \in Nat
  BY ReturnIds DEF WriteAstray, ReadAstray, NetFails, OutOfBuffer, ReadsNothing, call_vars, IInv, Shapes
<1> QED
  BY <1>1, <1>2, QuietStep DEF IInv, Shapes

LEMMA WritesNothingStep == ASSUME IInv, WritesNothing PROVE IInv'
<1>1. read' \in Nat /\ seen' = seen /\ inq' \in Seq(Incoming) /\ pc \in {"write", "ack"}
  BY DEF WritesNothing, IInv, Shapes, net
<1>2. CASE ReturnsNothing
  BY <1>1, <1>2, ReturnIds, QuietStep DEF ReturnsNothing, writer, IInv, Shapes
<1>3. CASE pc = "write" /\ PublishGoesOn(write.pos, TRUE)
  BY <1>1, <1>3, PublishGoesOnStep
<1>4. CASE Check /\ UNCHANGED writer
  <2>1. txbuf'.pkt.id \in Nat
    BY <1>4 DEF writer, IInv, Shapes
  <2> QED
    BY <1>1, <1>4, <2>1, CheckEnds, FreshStep
<1> QED
  BY <1>2, <1>3, <1>4 DEF WritesNothing

-------------------------------------------------------------------------------
(* Every step *)

LEMMA InitIInv == Init => IInv
<1> SUFFICES ASSUME Init PROVE IInv
  OBVIOUS
<1>1. /\ call.id \in Nat /\ txbuf.pkt.id \in Nat /\ packet \in PacketType
      /\ inq \in Seq(Incoming) /\ read \in Nat
  BY EmptySeq DEF Init, Blank, NoCall, NoPacket, Short, PacketType
<1>2. /\ msg \in [stat : MsgStat, pkt : Incoming \cup {NoPacket}, new : BOOLEAN, pos : Nat, len : Nat]
      /\ msg.stat = "BEGIN" /\ pc = "idle"
  BY FreshIsMessage DEF Init, MsgStat
<1> QED
  BY <1>1, <1>2 DEF IInv, Shapes, InStep, GivenBytes

LEMMA NextIInv == IInv /\ [Next]_vars => IInv'
<1> SUFFICES ASSUME IInv, [Next]_vars PROVE IInv'
  OBVIOUS
<1>1. CASE Application
  BY <1>1, InitStep, CallSteps, OtherCalls DEF Application
<1>2. CASE Client
  BY <1>2, NetWriteStep, NetReadStep, HandlePublishStep, HandleOtherStep, EndStep, WritesNothingStep
     DEF Client
<1>3. ASSUME NEW p \in ServerSends, ServerPublishes(p) PROVE IInv'
  BY <1>3, OtherCalls
<1>4. CASE UNCHANGED vars
  BY <1>4 DEF vars, call_vars, reader, writer, net, history, IInv, Shapes, InStep, GivenBytes
<1> QED
  BY <1>1, <1>2, <1>3, <1>4 DEF Next

-------------------------------------------------------------------------------
(* The deaf client *)

\* No packet is being handled, and no payload read.
LEMMA DeafWaits ==
  ASSUME IInv, Deaf
  PROVE  /\ pc \notin {"handle", "payload"} /\ msg.stat \in {"BEGIN", "WAIT"}
         /\ packet \in PacketType /\ packet.stat = "BEGIN" /\ read \in Nat /\ read >= 2
BY DEF Deaf, IInv, Shapes, InStep, MsgStat

\* It is enough that read.pos stays, and the packet's and the message's state are of this kind.
LEMMA StaysDeaf ==
  ASSUME IInv, Deaf, read' = read, packet'.stat = "BEGIN",
         msg' = msg \/ msg' = Fresh("BEGIN") \/ msg' = Fresh("WAIT")
  PROVE  Deaf'
<1>1. msg'.stat # "READ_PAYLOAD"
  BY DeafWaits DEF Fresh
<1> QED
  BY <1>1, DeafWaits DEF Deaf

LEMMA DeafEnters ==
  ASSUME IInv, Deaf, NEW s \in MsgStat, EnterWait(s)
  PROVE  packet'.stat = "BEGIN"
BY DeafWaits, EnterWaitKeeps DEF IInv

LEMMA DeafChecks ==
  ASSUME IInv, Deaf, Check
  PROVE  msg' = Fresh("BEGIN") /\ packet'.stat = "BEGIN"
<1>1. CASE UNCHANGED packet /\ msg' = Fresh("BEGIN")
  BY <1>1, DeafWaits
<1>2. CASE EnterWait("BEGIN") /\ msg' = Fresh("BEGIN")
  BY <1>2, DeafEnters DEF MsgStat
<1> QED
  BY <1>1, <1>2 DEF Check

LEMMA DeafPublishes ==
  ASSUME IInv, Deaf, NEW pos, NEW nothing, PublishGoesOn(pos, nothing), read' = read
  PROVE  Deaf'
<1>1. msg.stat \in MsgStat
  BY DeafWaits DEF MsgStat
<1>2. msg' = msg /\ (UNCHANGED packet \/ EnterWait(msg.stat))
  BY DEF PublishGoesOn
<1> QED
  BY <1>1, <1>2, DeafWaits, DeafEnters, StaysDeaf

LEMMA DeafWrites ==
  ASSUME IInv, Deaf, Written, read' = read
  PROVE  Deaf'
<1>1. msg.stat \in MsgStat
  BY DeafWaits DEF MsgStat
<1>2. CASE RequestWritten
  BY <1>1, <1>2, DeafEnters, StaysDeaf DEF RequestWritten
<1>3. CASE PingWritten
  BY <1>3, DeafEnters, StaysDeaf DEF PingWritten, MsgStat
<1>4. CASE DisconnectWritten
  BY <1>4, DeafWaits, StaysDeaf DEF DisconnectWritten
<1>5. CASE PublishWritten
  BY <1>5, DeafPublishes DEF PublishWritten
<1>6. CASE AnswerWritten
  BY <1>6, DeafChecks, StaysDeaf DEF AnswerWritten
<1> QED
  BY <1>2, <1>3, <1>4, <1>5, <1>6 DEF Written

LEMMA DeafClient == ASSUME IInv, Deaf, Client PROVE Deaf'
<1>1. ASSUME NEW n \in 1 .. Largest, NetWrite(n) PROVE Deaf'
  <2>1. CASE Written
    BY <1>1, <2>1, DeafWrites DEF NetWrite
  <2>2. CASE UNCHANGED <<packet, msg>>
    BY <1>1, <2>2, DeafWaits, StaysDeaf DEF NetWrite
  <2> QED
    BY <1>1, <2>1, <2>2 DEF NetWrite
<1>2. ASSUME NEW n \in 1 .. Largest, NetRead(n) PROVE FALSE
  <2>1. pc = "read" /\ n \in 1 .. ReadLen - read
    BY <1>2, DeafWaits DEF NetRead
  <2>2. ReadLen = 2
    BY <2>1, DeafWaits DEF ReadLen
  <2> QED
    BY <2>1, <2>2, DeafWaits
<1>3. ASSUME HandlePublish \/ HandleOther PROVE FALSE
  BY <1>3, DeafWaits DEF HandlePublish, HandleOther
<1>4. ASSUME WriteAstray \/ ReadAstray \/ NetFails \/ OutOfBuffer \/ ReadsNothing PROVE Deaf'
  BY <1>4, DeafWaits, StaysDeaf
     DEF WriteAstray, ReadAstray, NetFails, OutOfBuffer, ReadsNothing, reader
<1>5. ASSUME WritesNothing PROVE Deaf'
  <2>1. read' = read
    BY <1>5 DEF WritesNothing
  <2>2. CASE ReturnsNothing
    BY <2>1, <2>2, DeafWaits, StaysDeaf DEF ReturnsNothing
  <2>3. CASE Check
    BY <2>1, <2>3, DeafChecks, StaysDeaf
  <2> QED
    BY <1>5, <2>1, <2>2, <2>3, DeafPublishes DEF WritesNothing
<1> QED
  BY <1>1, <1>2, <1>3, <1>4, <1>5 DEF Client

LEMMA DeafApplication ==
  ASSUME IInv, Deaf, Application \/ \E p \in ServerSends : ServerPublishes(p)
  PROVE  Deaf' \/ MqttClient_Init
<1>1. msg.stat \in MsgStat
  BY DeafWaits DEF MsgStat
<1>2. ASSUME read' = read, msg' = msg, UNCHANGED packet \/ EnterWait(msg.stat) PROVE Deaf'
  BY <1>1, <1>2, DeafWaits, DeafEnters, StaysDeaf
<1>3. ASSUME \/ \E r \in Requests : CallRequest(r) \/ MqttClient_Publish(r) \/ Renew(r)
             \/ MqttClient_Ping \/ MqttClient_Disconnect \/ MqttClient_WaitMessage
      PROVE  Deaf'
  BY <1>2, <1>3
     DEF CallRequest, MqttClient_Publish, Renew, MqttClient_Ping, MqttClient_Disconnect,
         MqttClient_WaitMessage, reader
<1>4. ASSUME \/ MqttClient_NetConnect \/ MqttClient_NetDisconnect
             \/ \E p \in ServerSends : ServerPublishes(p)
      PROVE  Deaf'
  BY <1>2, <1>4 DEF MqttClient_NetConnect, MqttClient_NetDisconnect, ServerPublishes, reader
<1> QED
  BY <1>3, <1>4 DEF Application

-------------------------------------------------------------------------------
(* Which call is where *)

Own == Requests \cup {PingReq, Disconnect, WaitMessage}
Requesting == {"CONNECT", "SUBSCRIBE", "UNSUBSCRIBE", "PUBLISH"}

\* Which call is where in its work: a PUBLISH is being written in state WRITE, the others in
\* BEGIN, and whoever waits has written its request.
Running ==
  /\ pc \in {"idle", "write", "ack", "read", "payload", "handle", "astray"}
  /\ call \in Own \cup {NoCall}
  /\ IF pc = "idle" THEN call = NoCall ELSE ret = NoRet
  /\ ret.rc \in RC
  /\ calls \in 0 .. MAX_CALLS
  /\ stat \in [Requests -> {"BEGIN", "WRITE", "WAIT"}]
  /\ \A r \in Requests : stat[r] = "WRITE" => r.type = "PUBLISH"
  /\ pc = "write" =>
       \/ call \in Requests /\ stat[call] = IF call.type = "PUBLISH" THEN "WRITE" ELSE "BEGIN"
       \/ call = PingReq /\ msg.stat = "BEGIN"
       \/ call = Disconnect
  /\ pc = "ack" => msg.stat = "BEGIN" /\ txbuf = [pkt |-> ClientAnswer(msg.pkt), at |-> 0]
  /\ pc = "read" => msg.stat \in {"BEGIN", "WAIT"}
  /\ pc \in {"ack", "read", "payload", "handle"} /\ call \in Requests => stat[call] = "WAIT"
  /\ msg.stat \in {"READ", "READ_PAYLOAD"} => packet.stat = "BEGIN"

LEMMA OwnTypes ==
  /\ \A r \in Requests : r.type \in Requesting
  /\ PingReq.type = "PINGREQ" /\ Disconnect.type = "DISCONNECT" /\ WaitMessage.type = "MAX"
  /\ NoCall.type = "NONE"
BY RequestsAssumption DEF PingReq, Disconnect, WaitMessage, NoCall, NoPacket, Short, Requesting

LEMMA RunningStart ==
  ASSUME IInv, Running, calls < MAX_CALLS,
         \/ \E r \in Requests : CallRequest(r) \/ MqttClient_Publish(r)
         \/ MqttClient_Ping \/ MqttClient_Disconnect \/ MqttClient_WaitMessage
  PROVE  Running'
<1>1. /\ msg.stat \in MsgStat /\ packet \in PacketType
      /\ pc = "idle" => msg.stat # "READ"
      /\ calls + 1 \in 0 .. MAX_CALLS
  <2>1. MAX_CALLS \in Nat /\ calls \in 0 .. MAX_CALLS
    BY BuffersAssumption DEF Running
  <2> QED
    BY <2>1 DEF IInv, Shapes, InStep
<1>2. ASSUME NEW c \in Own, Start(c), msg' = msg,
             \/ pc' = "write" /\ UNCHANGED packet
                /\ \/ c \in Requests /\ stat'[c] = IF c.type = "PUBLISH" THEN "WRITE" ELSE "BEGIN"
                   \/ c = PingReq /\ msg.stat = "BEGIN"
                   \/ c = Disconnect
             \/ EnterWait(msg.stat) /\ stat' = stat /\ (c \in Requests => stat[c] = "WAIT"),
             stat' \in [Requests -> {"BEGIN", "WRITE", "WAIT"}],
             \A r \in Requests : stat'[r] = "WRITE" => r.type = "PUBLISH"
      PROVE  Running'
  <2>1. pc = "idle" /\ calls' = calls + 1 /\ call' = c /\ ret' = NoRet /\ ret'.rc \in RC
    BY <1>2 DEF Start, NoRet, RC
  <2>2. CASE pc' = "write" /\ UNCHANGED packet
    <3>1. \/ c \in Requests /\ stat'[c] = IF c.type = "PUBLISH" THEN "WRITE" ELSE "BEGIN"
          \/ c = PingReq /\ msg.stat = "BEGIN"
          \/ c = Disconnect
      BY <1>2, <2>2 DEF EnterWait
    <3> QED
      BY <1>1, <1>2, <2>1, <2>2, <3>1 DEF Running
  <2>3. CASE EnterWait(msg.stat)
    BY <1>1, <1>2, <2>1, <2>3 DEF Running, EnterWait, PacketType, MsgStat
  <2> QED
    BY <1>2, <2>2, <2>3
<1>3. ASSUME NEW r \in Requests, CallRequest(r) PROVE Running'
  BY <1>2, <1>3 DEF CallRequest, Running, Own, struct_vars
<1>4. ASSUME NEW r \in Requests, MqttClient_Publish(r) PROVE Running'
  BY <1>2, <1>4 DEF MqttClient_Publish, Running, Own, struct_vars
<1>5. CASE MqttClient_Ping
  BY <1>2, <1>5, OwnTypes DEF MqttClient_Ping, Running, Own, struct_vars, Requesting
<1>6. CASE MqttClient_Disconnect
  BY <1>2, <1>6 DEF MqttClient_Disconnect, Running, Own, struct_vars, reader
<1>7. CASE MqttClient_WaitMessage
  BY <1>2, <1>7, OwnTypes DEF MqttClient_WaitMessage, Running, Own, struct_vars, Requesting
<1> QED
  BY <1>3, <1>4, <1>5, <1>6, <1>7

LEMMA RunningOther ==
  ASSUME IInv, Running,
         \/ \E r \in Requests : Renew(r)
         \/ MqttClient_NetConnect \/ MqttClient_NetDisconnect \/ MqttClient_Init
         \/ \E p \in ServerSends : ServerPublishes(p)
         \/ UNCHANGED vars
  PROVE  Running'
<1>1. ASSUME NEW r \in Requests, Renew(r) PROVE Running'
  BY <1>1 DEF Renew, Running, call_vars, reader, writer
<1>2. CASE \/ MqttClient_NetConnect \/ MqttClient_NetDisconnect
           \/ \E p \in ServerSends : ServerPublishes(p)
  BY <1>2 DEF MqttClient_NetConnect, MqttClient_NetDisconnect, ServerPublishes, Running, call_vars,
       struct_vars, reader, writer
<1>3. CASE MqttClient_Init
  BY <1>3 DEF MqttClient_Init, Running, Fresh, NoRet, RC, struct_vars
<1>4. CASE UNCHANGED vars
  BY <1>4 DEF vars, call_vars, struct_vars, reader, writer, Running
<1> QED
  BY <1>1, <1>2, <1>3, <1>4

LEMMA RunningReturns ==
  ASSUME Running, NEW rc \in RC, Return(rc), stat' \in [Requests -> {"BEGIN", "WRITE", "WAIT"}],
         \A r \in Requests : stat'[r] = "WRITE" => r.type = "PUBLISH",
         msg'.stat \in {"READ", "READ_PAYLOAD"} => packet'.stat = "BEGIN"
  PROVE  Running'
BY DEF Running, Return

\* The call begins or goes on to wait for a packet.
LEMMA RunningWaits ==
  ASSUME IInv, Running, pc # "idle", NEW s \in MsgStat, s # "READ", EnterWait(s), msg'.stat = s,
         s \in {"READ", "READ_PAYLOAD"} => packet.stat = "BEGIN",
         UNCHANGED call_vars, stat' \in [Requests -> {"BEGIN", "WRITE", "WAIT"}],
         \A r \in Requests : stat'[r] = "WRITE" => r.type = "PUBLISH",
         call \in Requests => stat'[call] = "WAIT"
  PROVE  Running'
BY DEF IInv, Shapes, PacketType, EnterWait, Running, call_vars, MsgStat

LEMMA RunningChecks ==
  ASSUME IInv, Running, pc \in {"ack", "handle"}, Check, stat' = stat
  PROVE  Running'
<1>1. CASE Return("SUCCESS") /\ msg' = Fresh("BEGIN")
  BY <1>1, RunningReturns DEF Fresh, Running, RC
<1>2. CASE msg' = Fresh("BEGIN") /\ EnterWait("BEGIN") /\ UNCHANGED call_vars
  BY <1>2, RunningWaits DEF Fresh, Running, MsgStat
<1> QED
  BY <1>1, <1>2 DEF Check

LEMMA RunningPublishes ==
  ASSUME IInv, Running, pc = "write", call.type = "PUBLISH", NEW pos, NEW nothing,
         PublishGoesOn(pos, nothing)
  PROVE  Running'
<1>1. msg.stat \in MsgStat /\ msg.stat # "READ" /\ call \in Requests
  BY OwnTypes DEF IInv, Shapes, InStep, Running, Own
<1>2. CASE UNCHANGED <<pc, call_vars, stat, packet, msg>>
  BY <1>2 DEF Running, call_vars
<1>3. CASE Return("SUCCESS") /\ UNCHANGED <<packet, msg>> /\ stat' = [stat EXCEPT ![call] = "BEGIN"]
  BY <1>1, <1>3, RunningReturns DEF Running, RC
<1>4. CASE EnterWait(msg.stat) /\ UNCHANGED <<call_vars, msg>> /\ stat' = [stat EXCEPT ![call] = "WAIT"]
  BY <1>1, <1>4, RunningWaits DEF Running
<1> QED
  BY <1>2, <1>3, <1>4 DEF PublishGoesOn

LEMMA RunningWritten ==
  ASSUME IInv, Running, pc \in {"write", "ack"}, Written
  PROVE  Running'
<1>1. msg.stat \in MsgStat /\ msg.stat # "READ"
  BY DEF IInv, Shapes, InStep
<1>2. CASE RequestWritten
  <2>1. call \in Requests /\ stat' = [stat EXCEPT ![call] = "WAIT"]
    BY <1>2, OwnTypes DEF RequestWritten, Running, Own
  <2> QED
    BY <1>1, <1>2, <2>1, RunningWaits DEF RequestWritten, Running
<1>3. CASE PingWritten
  <2>1. call \notin Requests /\ stat' = stat /\ msg'.stat = "WAIT"
    BY <1>3, OwnTypes DEF PingWritten, Requesting, struct_vars, Fresh
  <2> QED
    BY <1>1, <1>3, <2>1, RunningWaits DEF PingWritten, Running, MsgStat
<1>4. CASE DisconnectWritten
  BY <1>4, RunningReturns DEF DisconnectWritten, Running, struct_vars, RC
<1>5. CASE PublishWritten
  BY <1>5, RunningPublishes DEF PublishWritten
<1>6. CASE AnswerWritten
  BY <1>6, RunningChecks DEF AnswerWritten, struct_vars
<1> QED
  BY <1>2, <1>3, <1>4, <1>5, <1>6 DEF Written

LEMMA RunningClient == ASSUME IInv, Running, Client PROVE Running'
<1>1. ASSUME NEW n \in 1 .. Largest, NetWrite(n) PROVE Running'
  <2>1. CASE Written
    BY <1>1, <2>1, RunningWritten DEF NetWrite
  <2>2. CASE UNCHANGED <<pc, call_vars, struct_vars, packet, msg, txbuf>>
    BY <2>2 DEF Running, call_vars, struct_vars
  <2> QED
    BY <1>1, <2>1, <2>2 DEF NetWrite
<1>2. ASSUME NEW n \in 1 .. Largest, NetRead(n) PROVE Running'
  <2>1. UNCHANGED <<call, ret, calls, stat, txbuf>> /\ pc \in {"read", "payload"}
    BY <1>2 DEF NetRead, call_vars, struct_vars, writer
  <2>2. CASE UNCHANGED <<pc, packet, msg>>
    BY <2>1, <2>2 DEF Running
  <2>3. CASE PacketRead
    BY <2>1, <2>3 DEF Running, PacketRead
  <2>4. ASSUME NEW h, HeaderRead(h), pc = "read" PROVE Running'
    <3>1. CASE UNCHANGED <<pc, msg>>
      BY <2>1, <2>4, <3>1, OwnTypes DEF Running
    <3> QED
      BY <2>3, <2>4, <3>1 DEF HeaderRead
  <2>5. CASE /\ pc = "payload"
             /\ msg' = [msg EXCEPT !.stat = "READ", !.len = ReadLen]
             /\ pc' = "handle"
             /\ UNCHANGED packet
    <3>1. msg'.stat = "READ" /\ packet.stat = "BEGIN"
      BY <2>5 DEF IInv, Shapes, InStep, Running
    <3> QED
      BY <2>1, <2>5, <3>1 DEF Running
  <2> QED
    BY <1>2, <2>2, <2>3, <2>4, <2>5 DEF NetRead, ReadFull
<1>3. CASE HandlePublish \/ HandleOther
  <2>1. pc = "handle" /\ stat' = stat
    BY <1>3 DEF HandlePublish, HandleOther, struct_vars
  <2>2. CASE Check
    BY <2>1, <2>2, RunningChecks
  <2>3. CASE /\ msg' = [msg EXCEPT !.stat = "READ_PAYLOAD", !.new = FALSE, !.pos = msg.pos + msg.len, !.len = 0]
             /\ pc' = "payload"
             /\ UNCHANGED <<call_vars, packet, txbuf, cut>>
    <3>1. msg'.stat = "READ_PAYLOAD" /\ packet.stat = "BEGIN"
      BY <2>1, <2>3 DEF IInv, Shapes, InStep, Running
    <3> QED
      BY <2>1, <2>3, <3>1 DEF Running, call_vars
  <2>4. CASE /\ Encode(ClientAnswer(msg.pkt))
             /\ \/ msg' = [msg EXCEPT !.stat = "BEGIN", !.new = FALSE]
                \/ msg' = [msg EXCEPT !.stat = "BEGIN"]
             /\ pc' = "ack"
             /\ UNCHANGED <<call_vars, packet>>
    <3>1. msg'.stat = "BEGIN" /\ msg'.pkt = msg.pkt
      BY <2>4 DEF IInv, Shapes
    <3> QED
      BY <2>1, <2>4, <3>1 DEF Running, call_vars, Encode
  <2> QED
    BY <1>3, <2>2, <2>3, <2>4 DEF HandlePublish, HandleOther
<1>4. CASE NetFails \/ OutOfBuffer \/ ReadsNothing
  BY <1>4, RunningReturns DEF NetFails, OutOfBuffer, ReadsNothing, Running, RC, struct_vars, reader
<1>5. CASE WriteAstray \/ ReadAstray
  BY <1>5 DEF WriteAstray, ReadAstray, Running, call_vars, struct_vars, reader, writer
<1>6. CASE WritesNothing
  <2>1. CASE ReturnsNothing
    BY <2>1, RunningReturns DEF ReturnsNothing, Running, RC, struct_vars
  <2>2. CASE pc = "ack" /\ Check /\ UNCHANGED struct_vars
    BY <2>2, RunningChecks DEF struct_vars
  <2> QED
    BY <1>6, <2>1, <2>2, RunningPublishes DEF WritesNothing
<1> QED
  BY <1>1, <1>2, <1>3, <1>4, <1>5, <1>6 DEF Client

LEMMA NextRunning == IInv /\ Running /\ [Next]_vars => Running'
BY RunningStart, RunningOther, RunningClient DEF Next, Application

-------------------------------------------------------------------------------
(* Where the reader is *)

\* How much of a packet beyond its header bytes the reader takes into rx_buf.
Rest(p) == AtMost(p.var + p.pay, RX_BUF_LEN - p.head)

\* Of a packet begun, the bytes read are those the reader's states say.
InPlace ==
  LET p == Head(inq)
  IN  /\ inq # <<>> /\ off < Size(p)
      /\ msg.stat = "READ_PAYLOAD" => p = msg.pkt /\ off = p.head + p.var + msg.pos + read
      /\ msg.stat = "READ" => p = msg.pkt /\ off = p.head + p.var + msg.pos + msg.len
      /\ packet.stat = "READ_HEAD" => off = packet.header_len /\ off < p.head
      /\ packet.stat = "READ" =>
           off = p.head + read /\ packet.header_len = p.head /\ packet.remain_len = Rest(p)

Reading ==
  /\ off \in Nat /\ read \in 0 .. RX_BUF_LEN - 1
  /\ packet.stat = "READ_HEAD" => read = 0 /\ packet.header_len > 0
  /\ packet.stat = "READ" =>
       packet.header_len > 0 /\ packet.remain_len <= RX_BUF_LEN /\ read < packet.remain_len
  /\ msg.stat = "READ_PAYLOAD" => read < AtMost(msg.pkt.pay - msg.pos, RX_BUF_LEN)
  /\ off # 0 => InPlace

\* What holds besides as long as no packet was left half read: the reader is in the middle of
\* a packet exactly when its states say so.
ReadsOn ==
  /\ msg.stat = "READ_PAYLOAD" => off # 0
  /\ msg.stat = "READ" =>
       IF msg.pkt.type = "PUBLISH" THEN off = 0 <=> msg.pos + msg.len = msg.pkt.pay ELSE off = 0
  /\ msg.stat \in {"BEGIN", "WAIT"} =>
       IF packet.stat = "BEGIN" THEN off = read /\ read < 2 ELSE off # 0

LEMMA IncomingShapes ==
  ASSUME NEW p \in Incoming
  PROVE  /\ p.head \in 2 .. 4 /\ p.var \in Nat /\ p.pay \in Nat
         /\ p.head + p.var <= RX_BUF_LEN
         /\ p.type # "PUBLISH" => p.var <= 2 /\ p.pay = 0 /\ p.head = 2
<1>1. CASE p \in ServerSends
  BY <1>1, ServerAssumption DEF PacketShape
<1>2. CASE p \in AnswerPackets
  BY <1>2, BuffersAssumption DEF AnswerPackets
<1> QED
  BY <1>1, <1>2 DEF Incoming

\* rx_buf takes the variable header whole, and as much of the payload as fits.
LEMMA RestIs ==
  ASSUME NEW p \in Incoming
  PROVE  LET len == AtMost(p.pay, RX_BUF_LEN - (p.head + p.var))
         IN  /\ Rest(p) \in Nat /\ Rest(p) = p.var + len /\ len \in Nat /\ len <= p.pay
             /\ p.head + Rest(p) <= RX_BUF_LEN /\ p.head + Rest(p) <= Size(p)
             /\ p.type # "PUBLISH" => len = 0 /\ p.pay = 0
             /\ p.head \in Nat \ {0} /\ p.var \in Nat /\ p.pay \in Nat
             /\ Size(p) = p.head + p.var + p.pay /\ Size(p) \in Nat /\ Size(p) >= 2
<1>1. /\ p.head \in 2 .. 4 /\ p.var \in Nat /\ p.pay \in Nat /\ p.head + p.var <= RX_BUF_LEN
      /\ p.type # "PUBLISH" => p.pay = 0
      /\ RX_BUF_LEN \in Nat
  BY IncomingShapes, Lengths
<1> QED
  BY <1>1 DEF Rest, AtMost, Size

\* A step that leaves the packet being read alone, or what is known of it.
LEMMA KeepsReading ==
  ASSUME Reading, read' = read, packet' = packet \/ packet'.stat = "BEGIN",
         msg' = msg \/ msg'.stat \in {"BEGIN", "WAIT"},
         off' = 0 \/ (off' = off /\ inq' # <<>> /\ Head(inq') = Head(inq))
  PROVE  Reading'
<1>1. ASSUME off' # 0 PROVE InPlace'
  BY <1>1 DEF Reading, InPlace, Rest, Size
<1> QED
  BY <1>1 DEF Reading

LEMMA KeepsReadsOn ==
  ASSUME Reading, ReadsOn, off' = off, read' = read,
         msg' = msg \/ (msg'.stat \in {"BEGIN", "WAIT"} /\ msg.stat \in {"BEGIN", "WAIT"}),
         \/ packet' = packet
         \/ packet'.stat = "BEGIN" /\ (packet.stat = "BEGIN" \/ (off = 0 /\ msg'.stat = "BEGIN"))
  PROVE  ReadsOn'
BY DEF ReadsOn

\* The packet read next, and how far.
LEMMA NetReadPlace ==
  ASSUME IInv, Running, Reading, NEW n \in 1 .. Largest, NetRead(n)
  PROVE  LET p == Head(inq)
         IN  /\ p \in Incoming /\ n \in Nat \ {0}
             /\ read \in Nat /\ off \in Nat
             /\ IF off + n = Size(p) THEN off' = 0 ELSE off' = off + n /\ inq' = inq
             /\ pc \in {"read", "payload"} /\ off = ReadAt /\ n <= ReadLen - read
             /\ pc = "payload" => /\ msg.stat = "READ_PAYLOAD"
                                  /\ ReadLen = AtMost(p.pay - msg.pos, RX_BUF_LEN)
                                  /\ msg.pkt = p
                                  /\ off = p.head + p.var + msg.pos + read
                                  /\ msg.pos < p.pay /\ msg.pos \in Nat
             /\ pc = "read" => msg.stat \in {"BEGIN", "WAIT"}
             /\ pc = "read" /\ packet.stat = "BEGIN" => ReadLen = 2 /\ off = read
             /\ pc = "read" /\ packet.stat = "READ_HEAD" =>
                  ReadLen = 1 /\ read = 0 /\ off = packet.header_len /\ off < p.head
             /\ pc = "read" /\ packet.stat = "READ" =>
                  ReadLen = Rest(p) /\ off = p.head + read /\ packet.header_len = p.head
<1> DEFINE p == Head(inq)
<1>1. /\ p \in Incoming /\ inq # <<>> /\ pc \in {"read", "payload"} /\ off = ReadAt
      /\ n \in 1 .. ReadLen - read
      /\ IF off + n = Size(p) THEN off' = 0 ELSE off' = off + n /\ inq' = inq
      /\ packet \in PacketType /\ off \in Nat /\ read \in Nat
  BY HeadTailProperties, Lengths DEF NetRead, IInv, Shapes, Reading
<1>2. CASE pc = "payload"
  <2>1. msg.stat = "READ_PAYLOAD" /\ msg.pkt \in ServerSends /\ msg.pos < msg.pkt.pay /\ msg.pos \in Nat
    BY <1>2 DEF IInv, InStep, GivenBytes, Shapes
  <2>2. ReadAt = msg.pkt.head + msg.pkt.var + msg.pos + read
    BY <1>2 DEF ReadAt
  <2>3. msg.pkt.head \in 2 .. 4 /\ msg.pkt.var \in Nat
    BY <2>1, IncomingShapes DEF Incoming
  <2>4. InPlace
    <3>1. off = msg.pkt.head + msg.pkt.var + msg.pos + read /\ read \in Nat
      BY <1>1, <2>2
    <3>2. off # 0
      BY <2>1, <2>3, <3>1
    <3> QED
      BY <3>2 DEF Reading
  <2>5. msg.pkt = p
    BY <2>1, <2>4 DEF InPlace
  <2>6. ReadLen = AtMost(p.pay - msg.pos, RX_BUF_LEN)
    BY <1>2, <2>5 DEF ReadLen
  <2> QED
    BY <1>1, <1>2, <2>1, <2>2, <2>5, <2>6
<1>3. CASE pc = "read"
  <2>1. msg.stat \in {"BEGIN", "WAIT"} /\ pc # "payload"
    BY <1>3 DEF Running
  <2>2. CASE packet.stat = "BEGIN"
    <3>1. ReadLen = 2 /\ ReadAt = read
      BY <2>1, <2>2 DEF ReadLen, ReadAt
    <3> QED
      BY <1>1, <1>3, <2>1, <2>2, <3>1
  <2>3. CASE packet.stat = "READ_HEAD"
    <3>1. ReadLen = 1 /\ ReadAt = packet.header_len + read /\ read = 0 /\ packet.header_len > 0
      BY <2>1, <2>3 DEF ReadLen, ReadAt, Reading
    <3>2. off # 0
      BY <1>1, <3>1 DEF PacketType
    <3>3. off = packet.header_len /\ off < p.head
      BY <2>3, <3>2 DEF Reading, InPlace
    <3> QED
      BY <1>1, <1>3, <2>1, <2>3, <3>1, <3>3
  <2>4. CASE packet.stat = "READ"
    <3>1. /\ ReadLen = packet.remain_len /\ ReadAt = packet.header_len + read
          /\ packet.header_len > 0
      BY <2>1, <2>4 DEF ReadLen, ReadAt, Reading
    <3>2. off # 0
      BY <1>1, <3>1 DEF PacketType
    <3>3. off = p.head + read /\ packet.header_len = p.head /\ packet.remain_len = Rest(p)
      BY <2>4, <3>2 DEF Reading, InPlace
    <3> QED
      BY <1>1, <1>3, <2>1, <2>4, <3>1, <3>3
  <2> QED
    BY <1>1, <2>2, <2>3, <2>4 DEF PacketType
<1> QED
  BY <1>1, <1>2, <1>3

LEMMA PacketReadPlace ==
  ASSUME NEW p \in Incoming, p = Head(inq), PacketRead, read' = 0, NEW m, m = p.head + Rest(p),
         IF m = Size(p) THEN off' = 0 ELSE off' = m /\ inq' = inq /\ inq # <<>>
  PROVE  Reading' /\ ReadsOn'
<1> DEFINE len == AtMost(p.pay, RX_BUF_LEN - (p.head + p.var))
<1>1. /\ Rest(p) = p.var + len /\ len \in Nat /\ len <= p.pay
      /\ p.head + Rest(p) <= Size(p)
      /\ p.type # "PUBLISH" => len = 0 /\ p.pay = 0
      /\ p.head \in Nat \ {0} /\ p.var \in Nat /\ p.pay \in Nat
      /\ Size(p) = p.head + p.var + p.pay
  BY RestIs
<1>2. /\ msg' = [stat |-> "READ", pkt |-> p, new |-> TRUE, pos |-> 0, len |-> len]
      /\ packet' = [stat |-> "BEGIN", header_len |-> 2, remain_len |-> 0]
  BY DEF PacketRead
<1> HIDE DEF len
<1>3. /\ off' \in Nat /\ (off' = 0 <=> len = p.pay)
      /\ off' # 0 => off' = p.head + p.var + 0 + len /\ off' < Size(p)
  <2>1. /\ m = p.head + p.var + 0 + len /\ m \in Nat /\ m # 0
        /\ m <= Size(p) /\ Size(p) \in Nat /\ (m = Size(p) <=> len = p.pay)
    <3>1. /\ m = p.head + (p.var + len) /\ Size(p) = p.head + (p.var + p.pay)
          /\ p.head \in Nat /\ p.head # 0 /\ p.var + len \in Nat /\ p.var + p.pay \in Nat
          /\ p.var + len <= p.var + p.pay /\ (p.var + len = p.var + p.pay <=> len = p.pay)
          /\ p.head + (p.var + len) = p.head + p.var + 0 + len
      BY <1>1, SMTT(30)
    <3> DEFINE h == p.head  v == p.var + len  w == p.var + p.pay
    <3> HIDE DEF h, v, w
    <3>2. m = h + v /\ Size(p) = h + w /\ h \in Nat /\ h # 0 /\ v \in Nat /\ w \in Nat /\ v <= w
      BY <3>1 DEF h, v, w
    <3>3. m \in Nat /\ m # 0 /\ m <= Size(p) /\ Size(p) \in Nat /\ (m = Size(p) <=> v = w)
      BY <3>2
    <3> QED
      BY <3>1, <3>3 DEF v, w
  <2>2. off' = IF m = Size(p) THEN 0 ELSE m
    OBVIOUS
  <2> QED
    BY <2>1, <2>2
<1>4. /\ msg'.stat = "READ" /\ msg'.pkt = p /\ msg'.pos = 0 /\ msg'.len = len
      /\ packet'.stat = "BEGIN"
  BY <1>2
<1>5. ReadsOn'
  BY <1>1, <1>3, <1>4 DEF ReadsOn
<1>6. ASSUME off' # 0 PROVE InPlace'
  <2>1. inq' = inq /\ inq # <<>> /\ Head(inq') = p
    BY <1>6
  <2>2. off' < Size(p) /\ off' = p.head + p.var + msg'.pos + msg'.len
    BY <1>3, <1>4, <1>6
  <2> QED
    BY <1>4, <2>1, <2>2 DEF InPlace, Size
<1> QED
  BY <1>3, <1>4, <1>5, <1>6, Lengths DEF Reading

LEMMA HeaderReadPlace ==
  ASSUME NEW p \in Incoming, p = Head(inq), read' = 0, NEW h \in Nat \ {0}, h <= p.head, HeaderRead(h),
         IF h = Size(p) THEN off' = 0 ELSE off' = h /\ inq' = inq /\ inq # <<>>,
         pc = "read", msg.stat \in {"BEGIN", "WAIT"}
  PROVE  Reading' /\ ReadsOn'
<1>1. /\ Rest(p) \in Nat /\ p.head + Rest(p) <= Size(p) /\ p.head \in Nat
      /\ p.head + Rest(p) <= RX_BUF_LEN /\ Size(p) \in Nat
      /\ RX_BUF_LEN \in Nat \ {0}
  BY RestIs, Lengths
<1>2. CASE /\ h < p.head
           /\ packet' = [stat |-> "READ_HEAD", header_len |-> h, remain_len |-> 0]
           /\ UNCHANGED <<pc, msg, answered>>
  <2>1. off' = h /\ inq' = inq /\ inq # <<>> /\ h < Size(p)
    BY <1>1, <1>2
  <2>2. packet'.stat = "READ_HEAD" /\ packet'.header_len = h
    BY <1>2
  <2> QED
    BY <1>1, <1>2, <2>1, <2>2 DEF Reading, InPlace, ReadsOn, Size
<1>3. CASE /\ h = p.head /\ Rest(p) > 0
           /\ packet' = [stat |-> "READ", header_len |-> h, remain_len |-> Rest(p)]
           /\ UNCHANGED <<pc, msg, answered>>
  <2>1. off' = h /\ inq' = inq /\ inq # <<>> /\ h < Size(p) /\ Rest(p) <= RX_BUF_LEN
    BY <1>1, <1>3
  <2>2. packet'.stat = "READ" /\ packet'.header_len = h /\ packet'.remain_len = Rest(p)
    BY <1>3
  <2>3. h = p.head + 0
    BY <1>3, <1>1
  <2>4. InPlace'
    BY <1>3, <2>1, <2>2, <2>3 DEF InPlace, Size, Rest
  <2>5. Reading'
    BY <1>1, <1>3, <2>1, <2>2, <2>4 DEF Reading
  <2> QED
    BY <1>3, <2>1, <2>2, <2>5 DEF ReadsOn
<1>4. CASE h = p.head /\ Rest(p) = 0 /\ PacketRead
  <2>1. h = p.head + Rest(p)
    BY <1>1, <1>4
  <2> QED
    BY <1>4, <2>1, PacketReadPlace
<1> QED
  BY <1>2, <1>3, <1>4 DEF HeaderRead, Rest

\* After a read the reader is where its states say, however it came to read.
\* The bytes of one net->read, from r of the len asked for, at place a of a packet with rest
\* bytes from there on.
LEMMA BytesRead ==
  ASSUME NEW a \in Nat, NEW r \in Nat, NEW n \in Nat \ {0}, NEW len \in Nat, NEW rest \in Nat,
         n <= len - r, len <= rest, NEW o, o = a + r, NEW size, size = a + rest
  PROVE  /\ o + n \in Nat \ {0} /\ o + n <= size
         /\ r + n = len => o + n = a + len /\ (o + n = size <=> len = rest)
         /\ r + n # len => o + n = a + (r + n) /\ o + n < size /\ r + n < len
OBVIOUS

LEMMA NetReadReads ==
  ASSUME IInv, Running, Reading, NEW n \in 1 .. Largest, NetRead(n)
  PROVE  Reading' /\ ReadsOn'
<1> DEFINE p == Head(inq)
<1>1. /\ p \in Incoming /\ n \in Nat \ {0} /\ read \in Nat /\ off \in Nat
      /\ IF off + n = Size(p) THEN off' = 0 ELSE off' = off + n /\ inq' = inq
      /\ inq # <<>>
      /\ pc \in {"read", "payload"} /\ n <= ReadLen - read
      /\ IF read + n = ReadLen
         THEN read' = 0 /\ ReadFull
         ELSE read' = read + n /\ UNCHANGED <<pc, packet, msg, answered>>
      /\ packet \in PacketType
  BY NetReadPlace DEF NetRead, IInv, Shapes
<1> HIDE DEF p
<1>2. /\ Rest(p) \in Nat /\ p.head + Rest(p) <= Size(p) /\ p.head \in Nat \ {0}
      /\ p.head + Rest(p) <= RX_BUF_LEN /\ Size(p) \in Nat /\ Size(p) >= 2
      /\ Size(p) = p.head + p.var + p.pay
      /\ p.var \in Nat /\ p.pay \in Nat
  BY <1>1, RestIs
<1>3. p.head >= 2 /\ RX_BUF_LEN \in Nat /\ RX_BUF_LEN >= 4
  BY <1>1, IncomingShapes, Lengths
<1>4. CASE pc = "payload"
  <2>1. /\ msg.stat = "READ_PAYLOAD" /\ ReadLen = AtMost(p.pay - msg.pos, RX_BUF_LEN)
        /\ msg.pkt = p /\ off = p.head + p.var + msg.pos + read
        /\ msg.pos < p.pay /\ msg.pos \in Nat
        /\ packet.stat = "BEGIN"
    BY <1>4, NetReadPlace DEF p, Running
  <2>2. ReadLen \in Nat /\ ReadLen <= p.pay - msg.pos /\ ReadLen <= RX_BUF_LEN
    BY <1>2, <1>3, <2>1 DEF AtMost
  <2> DEFINE a == p.head + p.var + msg.pos
  <2>3. /\ a \in Nat /\ p.pay - msg.pos \in Nat /\ off = a + read
        /\ Size(p) = a + (p.pay - msg.pos)
        /\ ReadLen = p.pay - msg.pos <=> msg.pos + ReadLen = p.pay
    BY <1>2, <2>1, <2>2
  <2> HIDE DEF a
  <2>4. /\ off + n \in Nat \ {0} /\ off + n <= Size(p)
        /\ read + n = ReadLen => off + n = a + ReadLen /\ (off + n = Size(p) <=> ReadLen = p.pay - msg.pos)
        /\ read + n # ReadLen => off + n = a + (read + n) /\ off + n < Size(p) /\ read + n < ReadLen
    BY <1>1, <2>2, <2>3, BytesRead
  <2>5. CASE read + n = ReadLen
    <3>1. /\ read' = 0 /\ msg' = [msg EXCEPT !.stat = "READ", !.len = ReadLen] /\ UNCHANGED packet
      BY <1>1, <1>4, <2>5 DEF ReadFull
    <3>2. /\ msg'.stat = "READ" /\ msg'.pkt = p /\ msg'.pos = msg.pos /\ msg'.len = ReadLen
          /\ packet'.stat = "BEGIN"
      BY <2>1, <3>1 DEF IInv, Shapes
    <3>3. /\ off' \in Nat /\ (off' = 0 <=> msg'.pos + msg'.len = p.pay)
          /\ off' # 0 => /\ off' = p.head + p.var + msg'.pos + msg'.len /\ off' < Size(p)
                         /\ inq' = inq
      <4>1. off' = 0 \/ (off' = off + n /\ inq' = inq)
        BY <1>1
      <4>2. off' = 0 <=> off + n = Size(p)
        BY <1>1, <2>4
      <4>3. a + ReadLen = p.head + p.var + msg.pos + ReadLen
        BY DEF a
      <4>4. off + n <= Size(p) /\ Size(p) \in Nat
        BY <1>2, <2>4
      <4> QED
        BY <2>5, <2>3, <2>4, <3>2, <4>1, <4>2, <4>3, <4>4
    <3>4. p.type = "PUBLISH"
      BY <2>1, Messages DEF IInv, GivenBytes
    <3>5. ReadsOn'
      BY <3>2, <3>3, <3>4 DEF ReadsOn
    <3>6. off' # 0 => InPlace'
      BY <1>1, <3>2, <3>3 DEF p, InPlace, Size
    <3> QED
      BY <1>2, <1>3, <3>1, <3>2, <3>3, <3>5, <3>6 DEF Reading
  <2>6. CASE read + n # ReadLen
    <3>1. read' = read + n /\ UNCHANGED <<packet, msg>> /\ read + n < ReadLen
      BY <1>1, <2>2, <2>6
    <3>2. /\ off' = p.head + p.var + msg.pos + read' /\ off' < Size(p) /\ inq' = inq /\ off' \in Nat \ {0}
      <4>1. off + n # Size(p)
        BY <1>2, <2>6, <2>4
      <4>2. off' = off + n /\ inq' = inq
        BY <1>1, <4>1
      <4> QED
        BY <2>6, <2>4, <3>1, <4>2 DEF a
    <3>3. InPlace'
      BY <1>1, <2>1, <3>1, <3>2 DEF p, InPlace, Size
    <3>4. read' \in 0 .. RX_BUF_LEN - 1 /\ read' < AtMost(msg.pkt.pay - msg.pos, RX_BUF_LEN)
      BY <1>1, <1>2, <1>3, <2>1, <2>2, <3>1
    <3>5. Reading'
      BY <2>1, <3>1, <3>2, <3>3, <3>4 DEF Reading, AtMost
    <3> QED
      BY <2>1, <3>1, <3>2, <3>5 DEF ReadsOn
  <2> QED
    BY <2>5, <2>6
<1>5. CASE pc = "read" /\ packet.stat = "BEGIN"
  <2>1. ReadLen = 2 /\ off = read /\ msg.stat \in {"BEGIN", "WAIT"}
    BY <1>5, NetReadPlace DEF p
  <2>2. CASE read + n = 2
    <3>1. read' = 0 /\ HeaderRead(2)
      BY <1>1, <1>5, <2>1, <2>2 DEF ReadFull
    <3>2. IF 2 = Size(p) THEN off' = 0 ELSE off' = 2 /\ inq' = inq /\ inq # <<>>
      BY <1>1, <2>1, <2>2
    <3> QED
      BY <1>1, <1>2, <1>3, <1>5, <2>1, <3>1, <3>2, HeaderReadPlace DEF p
  <2>3. CASE read + n # 2
    <3>1. read' = 1 /\ UNCHANGED <<packet, msg>> /\ off' = 1 /\ inq' = inq
      BY <1>1, <1>2, <1>3, <2>1, <2>3
    <3>2. InPlace'
      BY <1>1, <1>2, <1>3, <1>5, <2>1, <3>1 DEF p, InPlace, Size
    <3> QED
      BY <1>2, <1>3, <1>5, <2>1, <3>1, <3>2 DEF Reading, ReadsOn
  <2> QED
    BY <2>2, <2>3
<1>6. CASE pc = "read" /\ packet.stat = "READ_HEAD"
  <2>1. /\ ReadLen = 1 /\ read = 0 /\ off = packet.header_len /\ off < p.head
        /\ msg.stat \in {"BEGIN", "WAIT"}
    BY <1>6, NetReadPlace DEF p
  <2>2. n = 1 /\ read' = 0 /\ HeaderRead(off + 1)
    BY <1>1, <1>6, <2>1 DEF ReadFull
  <2>3. IF off + 1 = Size(p) THEN off' = 0 ELSE off' = off + 1 /\ inq' = inq /\ inq # <<>>
    BY <1>1, <2>2
  <2>4. off + 1 \in Nat \ {0} /\ off + 1 <= p.head
    BY <1>1, <1>2, <1>3, <2>1
  <2> QED
    BY <1>1, <1>6, <2>1, <2>2, <2>3, <2>4, HeaderReadPlace DEF p
<1>7. CASE pc = "read" /\ packet.stat = "READ"
  <2>1. /\ ReadLen = Rest(p) /\ off = p.head + read /\ packet.header_len = p.head
        /\ msg.stat \in {"BEGIN", "WAIT"} /\ packet.remain_len = Rest(p)
    BY <1>1, <1>7, NetReadPlace DEF p, ReadLen
  <2>2. /\ off + n \in Nat \ {0} /\ off + n <= Size(p)
        /\ read + n = Rest(p) => off + n = p.head + Rest(p)
        /\ read + n # Rest(p) => off + n = p.head + (read + n) /\ off + n < Size(p) /\ read + n < Rest(p)
    <3>1. p.var + p.pay \in Nat /\ Size(p) = p.head + (p.var + p.pay) /\ Rest(p) <= p.var + p.pay
      BY <1>2
    <3>2. /\ n <= Rest(p) - read /\ p.head \in Nat /\ read \in Nat /\ n \in Nat \ {0}
          /\ Rest(p) \in Nat /\ off = p.head + read
      BY <1>1, <1>2, <2>1
    <3> QED
      BY <3>1, <3>2, BytesRead
  <2>3. CASE read + n = Rest(p)
    <3>1. read' = 0 /\ PacketRead
      BY <1>1, <1>7, <2>1, <2>3 DEF ReadFull
    <3>2. IF p.head + Rest(p) = Size(p) THEN off' = 0
          ELSE off' = p.head + Rest(p) /\ inq' = inq /\ inq # <<>>
      <4>1. off + n = p.head + Rest(p)
        BY <2>2, <2>3
      <4> QED
        BY <1>1, <4>1
    <3> QED
      BY <1>1, <3>1, <3>2, PacketReadPlace DEF p
  <2>4. CASE read + n # Rest(p)
    <3>1. read' = read + n /\ UNCHANGED <<packet, msg>> /\ read + n < Rest(p)
      BY <1>1, <2>1, <2>4, <2>2
    <3>2. off' = p.head + read' /\ off' < Size(p) /\ inq' = inq /\ off' \in Nat \ {0}
      <4>1. off + n # Size(p)
        BY <1>2, <2>4, <2>2
      <4> QED
        BY <1>1, <2>4, <2>2, <3>1, <4>1
    <3>3. InPlace'
      BY <1>1, <1>7, <2>1, <3>1, <3>2 DEF p, InPlace, Size, Rest
    <3>4. read' \in 0 .. RX_BUF_LEN - 1 /\ Rest(p) <= RX_BUF_LEN
      BY <1>1, <1>2, <1>3, <3>1
    <3>5. Reading'
      BY <1>2, <1>3, <1>7, <2>1, <3>1, <3>2, <3>3, <3>4 DEF Reading
    <3> QED
      BY <1>7, <2>1, <3>1, <3>2, <3>5 DEF ReadsOn
  <2> QED
    BY <2>3, <2>4
<1> QED
  BY <1>1, <1>4, <1>5, <1>6, <1>7 DEF PacketType

ReadsStep == Reading' /\ (ReadsOn /\ ~cut' => ReadsOn')

LEMMA EnterWaitReads ==
  ASSUME IInv, NEW s \in MsgStat, EnterWait(s), msg'.stat = s
  PROVE  /\ packet' = packet \/ packet'.stat = "BEGIN"
         /\ ~cut' => \/ packet' = packet
                     \/ packet'.stat = "BEGIN" /\ (packet.stat = "BEGIN" \/ (off = 0 /\ msg'.stat = "BEGIN"))
BY DEF EnterWait, IInv, Shapes, PacketType

\* A step that reads nothing.
LEMMA ReadsNone ==
  ASSUME Reading, read' = read, off' = off,
         inq # <<>> => inq' # <<>> /\ Head(inq') = Head(inq),
         msg' = msg \/ (msg'.stat \in {"BEGIN", "WAIT"} /\ msg.stat \in {"BEGIN", "WAIT"}),
         packet' = packet \/ packet'.stat = "BEGIN",
         ~cut' => \/ packet' = packet
                  \/ packet'.stat = "BEGIN" /\ (packet.stat = "BEGIN" \/ (off = 0 /\ msg'.stat = "BEGIN"))
  PROVE  ReadsStep
<1>1. off' = 0 \/ (off' = off /\ inq' # <<>> /\ Head(inq') = Head(inq))
  BY DEF Reading, InPlace
<1>2. Reading'
  BY <1>1, KeepsReading
<1>3. ASSUME ReadsOn, ~cut' PROVE ReadsOn'
  BY <1>3, KeepsReadsOn
<1> QED
  BY <1>2, <1>3 DEF ReadsStep

LEMMA InqGrows ==
  ASSUME IInv, NEW ans \in Seq(Incoming), inq' = inq \o ans
  PROVE  inq # <<>> => inq' # <<>> /\ Head(inq') = Head(inq)
<1> SUFFICES ASSUME inq # <<>> PROVE inq' # <<>> /\ Head(inq') = Head(inq)
  OBVIOUS
<1>1. inq \in Seq(Incoming) /\ inq[1] = Head(inq) /\ Len(inq) \in Nat \ {0}
  BY EmptySeq, HeadTailProperties, LenProperties DEF IInv, Shapes
<1>2. inq' \in Seq(Incoming) /\ Len(inq') = Len(inq) + Len(ans) /\ Len(ans) \in Nat /\ inq'[1] = inq[1]
  BY <1>1, ConcatProperties, LenProperties
<1>3. inq' # <<>>
  BY <1>1, <1>2, EmptySeq
<1> QED
  BY <1>1, <1>2, <1>3, HeadTailProperties

LEMMA StartReads ==
  ASSUME IInv, Running, Reading,
         \/ \E r \in Requests : CallRequest(r) \/ MqttClient_Publish(r)
         \/ MqttClient_Ping \/ MqttClient_Disconnect \/ MqttClient_WaitMessage
  PROVE  ReadsStep
<1>1. /\ UNCHANGED <<read, msg, inq, off>>
      /\ UNCHANGED packet \/ EnterWait(msg.stat)
  BY DEF CallRequest, MqttClient_Publish, MqttClient_Ping, MqttClient_Disconnect,
         MqttClient_WaitMessage, reader, net
<1>2. msg.stat \in MsgStat
  BY DEF IInv, Shapes
<1> QED
  BY <1>1, <1>2, EnterWaitReads, ReadsNone

LEMMA OtherReads ==
  ASSUME IInv, Running, Reading,
         \/ \E r \in Requests : Renew(r)
         \/ MqttClient_NetConnect \/ MqttClient_NetDisconnect
         \/ \E p \in ServerSends : ServerPublishes(p)
         \/ NetFails \/ OutOfBuffer \/ ReadsNothing \/ WriteAstray \/ ReadAstray
         \/ UNCHANGED vars
  PROVE  ReadsStep
<1>1. CASE \/ \E r \in Requests : Renew(r)
           \/ MqttClient_NetConnect
           \/ NetFails \/ OutOfBuffer \/ ReadsNothing \/ WriteAstray \/ ReadAstray
           \/ UNCHANGED vars
  <2>1. UNCHANGED <<read, msg, inq, off, packet>>
    BY <1>1 DEF Renew, MqttClient_NetConnect, NetFails, OutOfBuffer, ReadsNothing, WriteAstray,
         ReadAstray, reader, net, vars
  <2> QED
    BY <2>1, ReadsNone
<1>2. CASE MqttClient_NetDisconnect
  <2>1. UNCHANGED <<read, msg, packet>> /\ off' = 0 /\ pc = "idle"
    BY <1>2 DEF MqttClient_NetDisconnect, reader
  <2>2. Reading'
    BY <2>1, KeepsReading
  <2>3. ASSUME ~cut' PROVE ReadsOn'
    <3>1. NothingHalfDone
      BY <1>2, <2>3 DEF MqttClient_NetDisconnect
    <3> QED
      BY <2>1, <3>1 DEF NothingHalfDone, ReadsOn, IInv, InStep
  <2> QED
    BY <2>2, <2>3 DEF ReadsStep
<1>3. ASSUME NEW p \in ServerSends, ServerPublishes(p) PROVE ReadsStep
  <2>1. UNCHANGED <<read, msg, packet, off>> /\ inq' = Append(inq, p)
    BY <1>3 DEF ServerPublishes, reader
  <2>2. inq \in Seq(Incoming) /\ p \in Incoming
    BY DEF IInv, Shapes, Incoming
  <2>3. Append(inq, p) = inq \o <<p>> /\ <<p>> \in Seq(Incoming)
    BY <2>2, AppendIsConcat
  <2> QED
    BY <2>1, <2>3, InqGrows, ReadsNone
<1> QED
  BY <1>1, <1>2, <1>3

LEMMA InitReads == ASSUME MqttClient_Init PROVE Reading' /\ ReadsOn'
<1>1. read' = 0 /\ off' = 0 /\ packet'.stat = "BEGIN" /\ msg'.stat = "BEGIN"
  BY DEF MqttClient_Init, Blank, Fresh
<1> QED
  BY <1>1, Lengths DEF Reading, ReadsOn

\* What of the packet and of the message a call that writes leaves as it is.
KeepsItsPlace ==
  /\ msg' = msg \/ (msg'.stat \in {"BEGIN", "WAIT"} /\ msg.stat \in {"BEGIN", "WAIT"})
  /\ packet' = packet \/ packet'.stat = "BEGIN"
  /\ ~cut' => \/ packet' = packet
              \/ packet'.stat = "BEGIN" /\ (packet.stat = "BEGIN" \/ (off = 0 /\ msg'.stat = "BEGIN"))

LEMMA PublishReads ==
  ASSUME IInv, NEW pos, NEW nothing, PublishGoesOn(pos, nothing)
  PROVE  KeepsItsPlace
<1>1. msg.stat \in MsgStat
  BY DEF IInv, Shapes
<1>2. UNCHANGED <<msg, packet>> \/ (UNCHANGED msg /\ EnterWait(msg.stat))
  BY DEF PublishGoesOn
<1> QED
  BY <1>1, <1>2, EnterWaitReads DEF KeepsItsPlace

LEMMA AnswerReads ==
  ASSUME IInv, Running, pc = "ack", Check
  PROVE  KeepsItsPlace
<1>1. msg.stat = "BEGIN" /\ msg'.stat = "BEGIN" /\ (UNCHANGED packet \/ EnterWait("BEGIN"))
  BY DEF Check, Running, Fresh
<1> QED
  BY <1>1, EnterWaitReads DEF MsgStat, KeepsItsPlace

LEMMA WrittenReads ==
  ASSUME IInv, Running, Written, pc \in {"write", "ack"}
  PROVE  KeepsItsPlace
<1>1. msg.stat \in MsgStat
  BY DEF IInv, Shapes
<1>2. CASE \/ UNCHANGED <<msg, packet>>
           \/ UNCHANGED msg /\ EnterWait(msg.stat)
  BY <1>1, <1>2, EnterWaitReads DEF KeepsItsPlace
<1>3. CASE PingWritten
  <2>1. msg.stat = "BEGIN" /\ msg'.stat = "WAIT" /\ EnterWait("WAIT")
    BY <1>3, OwnTypes DEF PingWritten, Running, Fresh, Requesting
  <2> QED
    BY <2>1, EnterWaitReads DEF MsgStat, KeepsItsPlace
<1>4. RequestWritten \/ DisconnectWritten
        => UNCHANGED <<msg, packet>> \/ (UNCHANGED msg /\ EnterWait(msg.stat))
  BY DEF RequestWritten, DisconnectWritten
<1> QED
  BY <1>2, <1>3, <1>4, PublishReads, AnswerReads DEF Written, PublishWritten, AnswerWritten

LEMMA NetWriteReads ==
  ASSUME IInv, Running, Reading, NEW n \in 1 .. Largest, NetWrite(n)
  PROVE  ReadsStep
<1>1. UNCHANGED <<read, off>> /\ pc \in {"write", "ack"}
  BY DEF NetWrite
<1>2. inq # <<>> => inq' # <<>> /\ Head(inq') = Head(inq)
  <2>1. ASSUME Arrives(txbuf.pkt) PROVE inq # <<>> => inq' # <<>> /\ Head(inq') = Head(inq)
    <3>1. PICK ans \in {<<>>, ServerAnswer(txbuf.pkt)} : inq' = inq \o ans
      BY <2>1 DEF Arrives
    <3>2. ans \in Seq(Incoming)
      BY <3>1, Answers, EmptySeq DEF IInv, Shapes
    <3> QED
      BY <3>1, <3>2, InqGrows
  <2> QED
    BY <2>1 DEF NetWrite
<1>3. CASE Written
  BY <1>1, <1>2, <1>3, WrittenReads, ReadsNone DEF KeepsItsPlace
<1>4. CASE UNCHANGED <<packet, msg>>
  BY <1>1, <1>2, <1>4, ReadsNone
<1> QED
  BY <1>3, <1>4 DEF NetWrite

LEMMA WritesNothingReads ==
  ASSUME IInv, Running, Reading, WritesNothing
  PROVE  ReadsStep
<1>1. UNCHANGED <<read, off, inq>>
  BY DEF WritesNothing, net
<1>2. ReturnsNothing => KeepsItsPlace
  BY DEF ReturnsNothing, KeepsItsPlace
<1>3. KeepsItsPlace
  BY <1>2, PublishReads, AnswerReads DEF WritesNothing
<1> QED
  BY <1>1, <1>3, ReadsNone DEF KeepsItsPlace

\* A message handled to its end is read to its end, and the reader begins anew.
LEMMA HandledReads ==
  ASSUME IInv, Running, Reading, pc = "handle", UNCHANGED <<read, inq, off>>,
         msg.pkt.type = "PUBLISH" => msg.pos + msg.len >= msg.pkt.pay,
         msg'.stat = "BEGIN", packet' = packet \/ packet'.stat = "BEGIN"
  PROVE  ReadsStep
<1>1. msg.stat = "READ" /\ packet.stat = "BEGIN" /\ read = 0
  <2>1. msg.stat \in {"READ", "READ_PAYLOAD"} /\ msg \in [stat : MsgStat, pkt : Incoming \cup {NoPacket}, new : BOOLEAN, pos : Nat, len : Nat]
    BY DEF IInv, InStep, Shapes
  <2>2. ASSUME msg.stat = "READ_PAYLOAD" PROVE FALSE
    <3>1. msg.pkt \in ServerSends /\ msg.pos < msg.pkt.pay /\ msg.len = 0
      BY <2>2 DEF IInv, GivenBytes
    <3>2. msg.pkt.type = "PUBLISH" /\ msg.pkt.pay \in Nat
      BY <3>1, Messages
    <3> QED
      BY <2>1, <3>1, <3>2
  <2> QED
    BY <2>1, <2>2 DEF Running, IInv, InStep
<1>2. Reading'
  <2>1. off' = 0 \/ (off' = off /\ inq' # <<>> /\ Head(inq') = Head(inq))
    BY DEF Reading, InPlace
  <2> QED
    BY <2>1, KeepsReading
<1>3. ASSUME ReadsOn PROVE ReadsOn'
  <2>1. off = 0
    <3>1. CASE msg.pkt.type = "PUBLISH"
      <4>1. msg.pos + msg.len <= msg.pkt.pay /\ msg.pkt \in ServerSends
        BY <1>1, <3>1 DEF IInv, GivenBytes
      <4>2. msg.pos + msg.len = msg.pkt.pay
        <5>1. msg.pos \in Nat /\ msg.len \in Nat /\ msg.pkt.pay \in Nat
          BY <4>1, Messages DEF IInv, Shapes
        <5> QED
          BY <3>1, <4>1, <5>1
      <4> QED
        BY <1>1, <1>3, <3>1, <4>2 DEF ReadsOn
    <3>2. CASE msg.pkt.type # "PUBLISH"
      BY <1>1, <1>3, <3>2 DEF ReadsOn
    <3> QED
      BY <3>1, <3>2
  <2> QED
    BY <1>1, <2>1 DEF ReadsOn
<1> QED
  BY <1>2, <1>3 DEF ReadsStep

LEMMA HandleReads == ASSUME IInv, Running, Reading, HandlePublish \/ HandleOther PROVE ReadsStep
<1>1. /\ pc = "handle" /\ UNCHANGED <<read, inq, off>>
      /\ msg \in [stat : MsgStat, pkt : Incoming \cup {NoPacket}, new : BOOLEAN, pos : Nat, len : Nat]
  BY DEF HandlePublish, HandleOther, net, IInv, Shapes
<1>2. CASE /\ msg.pos + msg.len < msg.pkt.pay /\ msg.pkt.type = "PUBLISH"
           /\ msg' = [msg EXCEPT !.stat = "READ_PAYLOAD", !.new = FALSE, !.pos = msg.pos + msg.len, !.len = 0]
           /\ UNCHANGED packet
  <2>1. /\ msg'.stat = "READ_PAYLOAD" /\ msg'.pkt = msg.pkt /\ msg'.pos = msg.pos + msg.len
        /\ msg.pos \in Nat /\ msg.len \in Nat /\ msg'.pos \in Nat
    BY <1>1, <1>2
  <2>2. msg.stat \in {"READ", "READ_PAYLOAD"} /\ packet.stat = "BEGIN"
    BY <1>1 DEF IInv, InStep, Running
  <2>3. /\ msg.stat = "READ_PAYLOAD" => msg'.pos = msg.pos
        /\ msg.stat = "READ" => read = 0
    <3>1. msg.stat = "READ_PAYLOAD" => msg.len = 0
      BY DEF IInv, GivenBytes
    <3> QED
      BY <2>1, <3>1 DEF IInv, InStep
  <2>4. msg.pkt.pay \in Nat /\ msg.pkt.head \in Nat /\ msg.pkt.var \in Nat
    BY <1>1, <1>2, PublishIsMessage, Messages
  <2>5. read < AtMost(msg.pkt.pay - msg'.pos, RX_BUF_LEN)
    <3>1. CASE msg.stat = "READ"
      <4>1. msg.pkt.pay - msg'.pos > 0 /\ RX_BUF_LEN > 0
        BY <1>2, <2>1, <2>4, Lengths
      <4> QED
        BY <2>3, <3>1, <4>1 DEF AtMost
    <3>2. CASE msg.stat = "READ_PAYLOAD"
      BY <2>3, <3>2 DEF Reading
    <3> QED
      BY <2>2, <3>1, <3>2
  <2>6. ASSUME off' # 0 PROVE InPlace'
    <3>1. InPlace
      BY <1>1, <2>6 DEF Reading
    <3>2. Head(inq) = msg.pkt /\ off = msg.pkt.head + msg.pkt.var + msg'.pos + read
      <4>1. CASE msg.stat = "READ"
        <5>1. Head(inq) = msg.pkt /\ off = msg.pkt.head + msg.pkt.var + msg.pos + msg.len
          BY <3>1, <4>1 DEF InPlace
        <5> QED
          BY <2>1, <2>3, <2>4, <4>1, <5>1
      <4>2. CASE msg.stat = "READ_PAYLOAD"
        BY <2>3, <3>1, <4>2 DEF InPlace
      <4> QED
        BY <2>2, <4>1, <4>2
    <3> QED
      BY <1>1, <1>2, <2>1, <2>2, <3>1, <3>2 DEF InPlace, Size
  <2>7. Reading'
    BY <1>1, <1>2, <2>1, <2>2, <2>5, <2>6 DEF Reading, AtMost
  <2>8. ASSUME ReadsOn PROVE ReadsOn'
    <3>1. off # 0
      <4>1. msg.pos + msg.len # msg.pkt.pay
        BY <1>2, <2>1, <2>4
      <4> QED
        BY <1>2, <2>2, <2>8, <4>1 DEF ReadsOn
    <3> QED
      BY <1>1, <2>1, <3>1 DEF ReadsOn
  <2> QED
    BY <2>7, <2>8 DEF ReadsStep
<1>3. CASE /\ msg.pkt.type = "PUBLISH" => msg.pos + msg.len >= msg.pkt.pay
           /\ \/ msg' = [msg EXCEPT !.stat = "BEGIN", !.new = FALSE] /\ UNCHANGED packet
              \/ msg' = [msg EXCEPT !.stat = "BEGIN"] /\ UNCHANGED packet
              \/ Check
  <2>1. msg'.stat = "BEGIN"
    <3>1. ASSUME Check PROVE msg'.stat = "BEGIN"
      BY <3>1 DEF Check, Fresh
    <3>2. ASSUME \/ msg' = [msg EXCEPT !.stat = "BEGIN", !.new = FALSE]
                 \/ msg' = [msg EXCEPT !.stat = "BEGIN"]
          PROVE  msg'.stat = "BEGIN"
      BY <1>1, <3>2
    <3> QED
      BY <1>3, <3>1, <3>2
  <2>2. packet' = packet \/ packet'.stat = "BEGIN"
    BY <1>3 DEF Check, EnterWait, IInv, Shapes, PacketType
  <2> QED
    BY <1>1, <1>3, <2>1, <2>2, HandledReads
<1> QED
  BY <1>1, <1>2, <1>3 DEF HandlePublish, HandleOther

LEMMA NextReads == ASSUME IInv, Running, Reading, [Next]_vars PROVE ReadsStep
<1>1. ASSUME NEW n \in 1 .. Largest, NetRead(n) PROVE ReadsStep
  BY <1>1, NetReadReads DEF ReadsStep
<1>2. CASE MqttClient_Init
  BY <1>2, InitReads DEF ReadsStep
<1> QED
  BY <1>1, <1>2, StartReads, OtherReads, NetWriteReads, WritesNothingReads, HandleReads
     DEF Next, Application, Client

-------------------------------------------------------------------------------
(* Where the writer is *)

\* What the client writes: requests, and answers of its own.
OwnAnswers ==
  [type : {"PUBACK", "PUBREC", "PUBREL", "PUBCOMP", "NONE"}, id : Nat, qos : {0}, head : {2},
   var : {0, 2}, pay : {0}]
ToWrite == Requests \cup {PingReq, Disconnect} \cup OwnAnswers

\* The parts of a payload do not go beyond it.
PartsFit == \A r \in Requests : stat[r] = "WRITE" => part[r].pos + part[r].len <= r.pay

\* What of a PUBLISH is in tx_buf is the part its structure says; everything else is there whole.
Writing ==
  /\ write \in [pos : 0 .. TX_BUF_LEN - 1, len : 0 .. TX_BUF_LEN]
  /\ txbuf \in [pkt : ToWrite, at : Nat]
  /\ wire \in [pkt : ToWrite, n : Nat] /\ wire.n <= Size(wire.pkt)
  /\ part \in [Requests -> [pos : Nat, len : Nat]]
  /\ txbuf.pkt.type # "PUBLISH" => txbuf.at = 0
  /\ pc = "write" /\ call.type # "PUBLISH" => txbuf.pkt = call
  /\ \A r \in Requests : r.type = "PUBLISH" /\ txbuf.pkt = r =>
       /\ txbuf.at = 0 => write.len = r.head + r.var + FirstPart(r)
       /\ stat[r] = "WRITE" =>
            /\ txbuf.at + write.len = r.head + r.var + part[r].pos + part[r].len
            /\ write.len > 0
  /\ PartsFit

\* What holds besides as long as nothing half written was written over: tx_buf goes on where
\* the wire stopped.
Chunk == IF txbuf.pkt.type = "PUBLISH" THEN write.len ELSE Size(txbuf.pkt)
HalfOpen ==
  /\ wire.pkt = txbuf.pkt /\ wire.n = WriteAt
  /\ WriteAt < Size(txbuf.pkt) /\ write.pos < Chunk
WritesOn ==
  /\ (write.pos = 0 /\ WireWhole) \/ HalfOpen
  /\ \A r \in Requests : stat[r] = "WRITE" => txbuf.pkt = r /\ (txbuf.at = 0 \/ HalfOpen)
  /\ pc = "write" => txbuf.pkt = call

WritesStep == Writing' /\ (WritesOn /\ ~cut' => WritesOn')

LEMMA WrittenShapes ==
  ASSUME NEW p \in ToWrite
  PROVE  /\ p.head \in Nat /\ p.head >= 2 /\ p.var \in Nat /\ p.pay \in Nat
         /\ p.head + p.var <= TX_BUF_LEN
         /\ p.type # "PUBLISH" => p.pay = 0
         /\ p.type = "PUBLISH" => p \in Requests
         /\ TX_BUF_LEN \in Nat /\ TX_BUF_LEN >= 4
<1>1. TX_BUF_LEN \in Nat /\ TX_BUF_LEN >= 4
  BY BuffersAssumption
<1>2. CASE p \in Requests
  BY <1>1, <1>2, RequestsAssumption DEF PacketShape
<1>3. CASE p \in {PingReq, Disconnect}
  BY <1>1, <1>3 DEF PingReq, Disconnect, Short
<1>4. CASE p \in OwnAnswers
  BY <1>1, <1>4 DEF OwnAnswers
<1> QED
  BY <1>2, <1>3, <1>4 DEF ToWrite

LEMMA WrittenSizes ==
  ASSUME NEW p \in ToWrite
  PROVE  /\ Size(p) \in Nat /\ Size(p) >= 2 /\ Size(p) = p.head + p.var + p.pay
         /\ p.type # "PUBLISH" => Size(p) = p.head + p.var /\ Size(p) <= TX_BUF_LEN
         /\ p.type = "PUBLISH" => p \in Requests
<1>1. /\ p.head \in Nat /\ p.head >= 2 /\ p.var \in Nat /\ p.pay \in Nat
      /\ p.head + p.var <= TX_BUF_LEN
      /\ p.type # "PUBLISH" => p.pay = 0
      /\ p.type = "PUBLISH" => p \in Requests
  BY WrittenShapes
<1> QED
  BY <1>1 DEF Size

LEMMA FirstPartIs ==
  ASSUME NEW r \in Requests
  PROVE  /\ FirstPart(r) \in Nat /\ FirstPart(r) <= r.pay
         /\ r.head + r.var + FirstPart(r) \in 1 .. TX_BUF_LEN
<1>1. /\ r.head \in Nat /\ r.head >= 2 /\ r.var \in Nat /\ r.pay \in Nat
      /\ r.head + r.var <= TX_BUF_LEN /\ TX_BUF_LEN \in Nat
  BY WrittenShapes DEF ToWrite
<1> QED
  BY <1>1 DEF FirstPart, AtMost

LEMMA ClientAnswers ==
  ASSUME NEW p, p.id \in Nat
  PROVE  ClientAnswer(p) \in ToWrite /\ ClientAnswer(p).type # "PUBLISH" /\ ClientAnswer(p) \notin Requests
<1>1. ClientAnswer(p) \in OwnAnswers
  BY DEF ClientAnswer, OwnAnswers, Resp, Short, NoPacket
<1>2. ClientAnswer(p).type \notin Requesting
  BY <1>1 DEF OwnAnswers, Requesting
<1> QED
  BY <1>1, <1>2, OwnTypes DEF ToWrite, Requesting

LEMMA FixedToWrite ==
  /\ NoPacket \in ToWrite /\ NoPacket.type # "PUBLISH" /\ NoPacket \notin Requests
  /\ PingReq \in ToWrite /\ PingReq.type # "PUBLISH" /\ PingReq \notin Requests
  /\ Disconnect \in ToWrite /\ Disconnect.type # "PUBLISH" /\ Disconnect \notin Requests
<1>1. NoPacket \in OwnAnswers /\ NoPacket.type = "NONE"
  BY DEF OwnAnswers, NoPacket, Short
<1> QED
  BY <1>1, OwnTypes DEF ToWrite, Requesting

\* A step that writes nothing.
LEMMA WritesNone ==
  ASSUME Running, Writing, UNCHANGED <<writer, wire>>,
         part' \in [Requests -> [pos : Nat, len : Nat]],
         pc' = "write" => pc = "write" /\ call' = call,
         \A r \in Requests : stat'[r] = "WRITE" => stat[r] = "WRITE" /\ part'[r] = part[r]
  PROVE  WritesStep
<1>1. write' = write /\ txbuf' = txbuf /\ wire' = wire
  BY DEF writer
<1>2. Writing'
  BY <1>1 DEF Writing, PartsFit, FirstPart, Size
<1>3. ASSUME WritesOn PROVE WritesOn'
  BY <1>1, <1>3 DEF WritesOn, HalfOpen, Chunk, WriteAt, WireWhole
<1> QED
  BY <1>2, <1>3 DEF WritesStep

\* A packet is encoded into tx_buf, to be written from its first byte; if one was half written
\* there, it is the same one, and the wire has write.pos bytes of it.
LEMMA EncodeWrites ==
  ASSUME Running, Writing, NEW p \in ToWrite, Encode(p), wire' = wire, write'.pos = write.pos,
         pc' = "write" => call' = p,
         IF p.type = "PUBLISH"
         THEN /\ part' = [part EXCEPT ![p] = [pos |-> 0, len |-> FirstPart(p)]]
              /\ write' = [write EXCEPT !.len = p.head + p.var + FirstPart(p)]
              /\ stat' = [stat EXCEPT ![p] = "WRITE"]
              /\ stat[p] = "BEGIN"
         ELSE UNCHANGED <<part, write, stat>>
  PROVE  WritesStep
<1>1. /\ txbuf'.pkt = p /\ txbuf'.at = 0 /\ txbuf' \in [pkt : ToWrite, at : Nat]
      /\ p.head \in Nat /\ p.var \in Nat /\ p.pay \in Nat
      /\ p.type = "PUBLISH" => p \in Requests
      /\ Size(p) \in Nat /\ Size(p) >= 2
  BY WrittenShapes, WrittenSizes DEF Encode
<1>2. p.type = "PUBLISH" =>
        /\ FirstPart(p) \in Nat /\ FirstPart(p) <= p.pay
        /\ p.head + p.var + FirstPart(p) \in 1 .. TX_BUF_LEN
  BY <1>1, FirstPartIs
<1>3. /\ write \in [pos : 0 .. TX_BUF_LEN - 1, len : 0 .. TX_BUF_LEN]
      /\ part \in [Requests -> [pos : Nat, len : Nat]]
      /\ stat \in [Requests -> {"BEGIN", "WRITE", "WAIT"}]
  BY DEF Writing, Running
<1>4. /\ write' \in [pos : 0 .. TX_BUF_LEN - 1, len : 0 .. TX_BUF_LEN]
      /\ part' \in [Requests -> [pos : Nat, len : Nat]]
      /\ p.type = "PUBLISH" => /\ write'.len = p.head + p.var + FirstPart(p)
                               /\ part'[p].pos = 0 /\ part'[p].len = FirstPart(p)
  <2>1. CASE p.type = "PUBLISH"
    BY <1>1, <1>2, <1>3, <2>1
  <2>2. CASE p.type # "PUBLISH"
    BY <1>3, <2>2
  <2> QED
    BY <2>1, <2>2
<1>5. Writing'
  <2>1. ASSUME NEW r \in Requests, r.type = "PUBLISH", r = p
        PROVE  /\ write'.len = r.head + r.var + FirstPart(r)
               /\ txbuf'.at + write'.len = r.head + r.var + part'[r].pos + part'[r].len
               /\ part'[r].pos + part'[r].len <= r.pay
               /\ write'.len > 0
    BY <1>1, <1>2, <1>4, <2>1
  <2>2. wire' \in [pkt : ToWrite, n : Nat] /\ wire'.n <= Size(wire'.pkt)
    BY DEF Writing, Size
  <2>3. ASSUME NEW r \in Requests, r # p, stat'[r] = "WRITE"
        PROVE  part'[r].pos + part'[r].len <= r.pay
    <3>1. stat[r] = "WRITE" /\ part'[r] = part[r]
      BY <1>1, <1>3, <2>3
    <3> QED
      BY <3>1 DEF Writing, PartsFit
  <2>4. ASSUME NEW r \in Requests, stat'[r] = "WRITE", p.type # "PUBLISH" PROVE r # p
    <3>1. stat[r] = "WRITE"
      BY <2>4
    <3> QED
      BY <2>4, <3>1 DEF Running
  <2>5. PartsFit'
    BY <2>1, <2>3, <2>4 DEF PartsFit
  <2> QED
    BY <1>1, <1>4, <2>1, <2>2, <2>5 DEF Writing
<1>6. ASSUME WritesOn, ~cut' PROVE WritesOn'
  <2>1. ~HalfWritten \/ (txbuf.pkt = p /\ wire = [pkt |-> p, n |-> write.pos])
    BY <1>6 DEF Encode
  <2>2. ASSUME NEW r \in Requests, stat'[r] = "WRITE" PROVE r = p
    <3>1. CASE stat[r] = "WRITE"
      <4>1. txbuf.pkt = p
        BY <2>1, <3>1 DEF HalfWritten
      <4> QED
        BY <1>6, <3>1, <4>1 DEF WritesOn
    <3>2. CASE stat[r] # "WRITE"
      BY <1>1, <1>3, <2>2, <3>2
    <3> QED
      BY <3>1, <3>2
  <2>3. (write'.pos = 0 /\ WireWhole') \/ HalfOpen'
    <3>1. CASE ~HalfWritten
      BY <3>1 DEF HalfWritten, WireWhole, Size
    <3>2. CASE txbuf.pkt = p /\ wire = [pkt |-> p, n |-> write.pos]
      <4>1. wire.pkt = p /\ wire.n = write.pos /\ write.pos \in Nat /\ txbuf.at \in Nat
        BY <3>2, <1>3, Lengths DEF Writing
      <4>2. CASE write.pos = 0 /\ WireWhole
        BY <1>1, <4>1, <4>2 DEF WireWhole
      <4>3. CASE HalfOpen
        <5>1. txbuf.at = 0 /\ write.pos < Size(p) /\ write.pos < Chunk
          BY <3>2, <4>1, <4>3 DEF HalfOpen, WriteAt
        <5>2. Chunk' = Chunk
          <6>1. CASE p.type = "PUBLISH"
            <7>1. write.len = p.head + p.var + FirstPart(p)
              BY <1>1, <3>2, <5>1, <6>1 DEF Writing
            <7> QED
              BY <1>1, <1>4, <3>2, <6>1, <7>1 DEF Chunk
          <6>2. CASE p.type # "PUBLISH"
            BY <1>1, <3>2, <6>2 DEF Chunk, Size
          <6> QED
            BY <6>1, <6>2
        <5>3. WriteAt' = write.pos
          BY <1>1, <4>1 DEF WriteAt
        <5> QED
          BY <1>1, <4>1, <5>1, <5>2, <5>3 DEF HalfOpen, Size
      <4> QED
        BY <1>6, <4>2, <4>3 DEF WritesOn
    <3> QED
      BY <2>1, <3>1, <3>2
  <2> QED
    BY <1>1, <2>2, <2>3 DEF WritesOn
<1> QED
  BY <1>5, <1>6 DEF WritesStep

\* What the running MqttSocket_Write is to write, when it writes in its place: the rest of the
\* packet, or for a PUBLISH the part of it that is in tx_buf.
LEMMA PartWritten ==
  ASSUME IInv, Running, Writing, pc \in {"write", "ack"}, WritesInPlace
  PROVE  LET p == txbuf.pkt
         IN  /\ p \in ToWrite /\ Size(p) \in Nat /\ txbuf.at \in Nat
             /\ WriteLen = Chunk /\ WriteLen \in Nat /\ WriteLen <= TX_BUF_LEN
             /\ txbuf.at + WriteLen <= Size(p)
             /\ p.type # "PUBLISH" => txbuf.at = 0 /\ WriteLen = Size(p)
             /\ pc = "write" => call = p
             /\ pc = "write" /\ p.type = "PUBLISH" =>
                  /\ p \in Requests /\ stat[p] = "WRITE"
                  /\ txbuf.at + WriteLen = p.head + p.var + part[p].pos + part[p].len
                  /\ part[p].pos + part[p].len <= p.pay
             /\ pc = "ack" => p.type # "PUBLISH" /\ p \notin Requests
<1> DEFINE p == txbuf.pkt
<1>1. /\ p \in ToWrite /\ txbuf.at \in Nat
      /\ write \in [pos : 0 .. TX_BUF_LEN - 1, len : 0 .. TX_BUF_LEN]
      /\ part \in [Requests -> [pos : Nat, len : Nat]]
  BY DEF Writing
<1>2. /\ Size(p) \in Nat /\ Size(p) = p.head + p.var + p.pay
      /\ p.type # "PUBLISH" => Size(p) <= TX_BUF_LEN
      /\ p.type = "PUBLISH" => p \in Requests
      /\ p.head \in Nat /\ p.var \in Nat /\ p.pay \in Nat /\ TX_BUF_LEN \in Nat
  BY <1>1, WrittenSizes, WrittenShapes
<1>3. CASE pc = "ack"
  <2>1. p = ClientAnswer(msg.pkt) /\ txbuf.at = 0
    BY <1>3 DEF Running
  <2>2. p.type # "PUBLISH" /\ p \notin Requests
    BY <2>1, ClientAnswers, IncomingIds DEF IInv, Shapes
  <2>3. WriteLen = Size(p) /\ Chunk = Size(p)
    BY <1>3, <2>2 DEF WriteLen, Chunk
  <2> QED
    BY <1>1, <1>2, <1>3, <2>1, <2>2, <2>3
<1>4. CASE pc = "write"
  <2>1. call = p
    BY <1>4 DEF WritesInPlace
  <2>2. CASE p.type # "PUBLISH"
    <3>1. WriteLen = Size(p) /\ Chunk = Size(p) /\ txbuf.at = 0
      BY <2>1, <2>2 DEF WriteLen, Chunk, Writing
    <3> QED
      BY <1>1, <1>2, <1>4, <2>1, <2>2, <3>1
  <2>3. CASE p.type = "PUBLISH"
    <3>1. p \in Requests /\ stat[p] = "WRITE"
      BY <1>2, <1>4, <2>1, <2>3, OwnTypes DEF Running
    <3>2. /\ txbuf.at + write.len = p.head + p.var + part[p].pos + part[p].len
          /\ part[p].pos + part[p].len <= p.pay
      BY <2>3, <3>1 DEF Writing, PartsFit
    <3>3. WriteLen = write.len /\ Chunk = write.len
      BY <1>4, <2>1, <2>3 DEF WriteLen, Chunk
    <3>4. part[p].pos \in Nat /\ part[p].len \in Nat
      BY <1>1, <3>1
    <3>5. txbuf.at + WriteLen <= Size(p)
      <4>1. \A x \in Nat, y \in Nat : x + y <= p.pay => p.head + p.var + x + y <= Size(p)
        BY <1>2
      <4> QED
        BY <3>2, <3>3, <3>4, <4>1
    <3>6. write.len \in Nat /\ write.len <= TX_BUF_LEN
      BY <1>1, <1>2
    <3> QED
      BY <1>1, <1>2, <1>4, <2>1, <2>3, <3>1, <3>2, <3>3, <3>5, <3>6
  <2> QED
    BY <2>2, <2>3
<1> QED
  BY <1>3, <1>4

\* A packet has gone out whole.
LEMMA WholeWrites ==
  ASSUME Running, Writing, txbuf.pkt \in ToWrite,
         wire' = [pkt |-> txbuf.pkt, n |-> Size(txbuf.pkt)],
         txbuf' = txbuf, write' = [write EXCEPT !.pos = 0], pc' # "write",
         part' \in [Requests -> [pos : Nat, len : Nat]],
         \A r \in Requests :
           stat'[r] = "WRITE" => stat[r] = "WRITE" /\ r # txbuf.pkt /\ part'[r] = part[r]
  PROVE  WritesStep
<1>1. /\ write \in [pos : 0 .. TX_BUF_LEN - 1, len : 0 .. TX_BUF_LEN] /\ TX_BUF_LEN \in Nat
      /\ TX_BUF_LEN >= 4 /\ Size(txbuf.pkt) \in Nat
  BY BuffersAssumption, WrittenSizes DEF Writing
<1>2. /\ write' \in [pos : 0 .. TX_BUF_LEN - 1, len : 0 .. TX_BUF_LEN]
      /\ write'.pos = 0 /\ write'.len = write.len
  BY <1>1
<1>3. wire' \in [pkt : ToWrite, n : Nat] /\ wire'.n = Size(wire'.pkt)
  BY <1>1
<1>4. wire'.n <= Size(wire'.pkt)
  BY <1>1, <1>3
<1>5. Writing'
  BY <1>2, <1>3, <1>4 DEF Writing, PartsFit, Size, FirstPart
<1>6. ASSUME WritesOn PROVE WritesOn'
  BY <1>2, <1>3, <1>6 DEF WritesOn, WireWhole, Size
<1> QED
  BY <1>5, <1>6 DEF WritesStep

LEMMA NetWriteWrites ==
  ASSUME IInv, Running, Writing, NEW n \in 1 .. Largest, NetWrite(n)
  PROVE  WritesStep
<1> DEFINE p == txbuf.pkt
<1>1. /\ pc \in {"write", "ack"} /\ n \in 1 .. WriteLen - write.pos /\ WritesInPlace
      /\ wire' = [pkt |-> p, n |-> WriteAt + n]
      /\ p \in ToWrite /\ Size(p) \in Nat /\ txbuf.at \in Nat
      /\ WriteLen = Chunk /\ WriteLen \in Nat /\ WriteLen <= TX_BUF_LEN
      /\ txbuf.at + WriteLen <= Size(p)
      /\ p.type # "PUBLISH" => txbuf.at = 0 /\ WriteLen = Size(p)
      /\ pc = "write" => call = p
      /\ pc = "ack" => p.type # "PUBLISH" /\ p \notin Requests
      /\ write \in [pos : 0 .. TX_BUF_LEN - 1, len : 0 .. TX_BUF_LEN]
      /\ TX_BUF_LEN \in Nat
      /\ part \in [Requests -> [pos : Nat, len : Nat]]
      /\ stat \in [Requests -> {"BEGIN", "WRITE", "WAIT"}]
  BY PartWritten, BuffersAssumption DEF NetWrite, Writing, Running
<1> HIDE DEF p
<1>2. /\ n \in Nat \ {0} /\ write.pos \in Nat /\ write.pos + n <= WriteLen
      /\ WriteLen \in Nat /\ WriteLen <= TX_BUF_LEN /\ TX_BUF_LEN \in Nat
  BY <1>1
<1>3. CASE write.pos + n # WriteLen
  <2>1. /\ write' = [write EXCEPT !.pos = @ + n]
        /\ UNCHANGED <<pc, call_vars, struct_vars, packet, msg, txbuf, cut>>
    BY <1>3 DEF NetWrite
  <2>2. write.pos + n < WriteLen /\ write.pos + n \in 0 .. TX_BUF_LEN - 1
    BY <1>2, <1>3
  <2>3. /\ write' \in [pos : 0 .. TX_BUF_LEN - 1, len : 0 .. TX_BUF_LEN]
        /\ write'.pos = write.pos + n /\ write'.len = write.len
    BY <1>1, <2>1, <2>2
  <2>4. /\ txbuf.at + write.pos + n = txbuf.at + (write.pos + n)
        /\ txbuf.at + (write.pos + n) < Size(p) /\ txbuf.at + (write.pos + n) \in Nat
    BY <1>1, <1>2, <2>2
  <2>5. /\ WriteAt' = txbuf.at + (write.pos + n) /\ wire'.n = txbuf.at + (write.pos + n)
        /\ wire'.pkt = p /\ wire' \in [pkt : ToWrite, n : Nat] /\ wire'.n <= Size(wire'.pkt)
        /\ txbuf' = txbuf /\ pc' = pc /\ call' = call /\ stat' = stat /\ part' = part
    BY <1>1, <2>1, <2>3, <2>4 DEF WriteAt, call_vars, struct_vars
  <2>6. Writing'
    BY <2>3, <2>5 DEF Writing, PartsFit, FirstPart, Size
  <2>7. HalfOpen'
    BY <1>1, <2>2, <2>3, <2>4, <2>5 DEF HalfOpen, Chunk, Size, p
  <2>8. WritesOn => WritesOn'
    BY <2>5, <2>7 DEF WritesOn
  <2> QED
    BY <2>6, <2>8 DEF WritesStep
<1>4. CASE write.pos + n = WriteLen
  <2>1. Written
    BY <1>4 DEF NetWrite
  <2>2. wire'.pkt = p /\ wire'.n = txbuf.at + WriteLen /\ WriteAt + n = txbuf.at + WriteLen
    BY <1>1, <1>2, <1>4 DEF WriteAt
  <2>3. CASE p.type # "PUBLISH"
    <3>1. wire' = [pkt |-> p, n |-> Size(p)]
      BY <1>1, <2>2, <2>3
    <3>2. /\ txbuf' = txbuf /\ write' = [write EXCEPT !.pos = 0] /\ part' = part
      BY <1>1, <2>1, <2>3
         DEF Written, RequestWritten, PingWritten, DisconnectWritten, PublishWritten, AnswerWritten, struct_vars
    <3>3. pc' # "write"
      BY <1>1, <2>1, <2>3
         DEF Written, RequestWritten, PingWritten, DisconnectWritten, PublishWritten, AnswerWritten, Check,
             EnterWait, Return
    <3>4. ASSUME NEW r \in Requests, stat'[r] = "WRITE" PROVE stat[r] = "WRITE" /\ r # p
      <4>1. stat' = stat \/ (call = p /\ p \in Requests /\ stat' = [stat EXCEPT ![p] = "WAIT"])
        BY <1>1, <2>1, <2>3, OwnTypes
           DEF Written, RequestWritten, PingWritten, DisconnectWritten, PublishWritten, AnswerWritten,
               struct_vars, Running, Own
      <4>2. stat[r] = "WRITE"
        BY <1>1, <3>4, <4>1
      <4> QED
        BY <2>3, <4>2 DEF Running
    <3> QED
      BY <1>1, <3>1, <3>2, <3>3, <3>4, WholeWrites DEF p
  <2>4. CASE p.type = "PUBLISH"
    <3>1. /\ pc = "write" /\ call = p /\ p \in Requests /\ stat[p] = "WRITE" /\ WriteLen = write.len
          /\ txbuf.at + WriteLen = p.head + p.var + part[p].pos + part[p].len
          /\ part[p].pos + part[p].len <= p.pay
      BY <1>1, <2>4, PartWritten DEF p, Chunk
    <3>2. PublishWritten
      BY <2>1, <2>4, <3>1, OwnTypes
         DEF Written, RequestWritten, PingWritten, DisconnectWritten, PublishWritten, AnswerWritten
    <3> DEFINE done == part[p].pos + part[p].len
               rest == AtMost(p.pay - done, TX_BUF_LEN)
    <3>3. /\ part[p].pos \in Nat /\ part[p].len \in Nat /\ done \in Nat
          /\ p.head \in Nat /\ p.var \in Nat /\ p.pay \in Nat /\ Size(p) = p.head + p.var + p.pay
      BY <1>1, <3>1, WrittenShapes, WrittenSizes
    <3>4. wire'.n = p.head + p.var + done /\ done <= p.pay
      BY <2>2, <3>1, <3>3
    <3> HIDE DEF done
    <3>5. CASE done < p.pay
      <4>1. /\ part' = [part EXCEPT ![p] = [pos |-> done, len |-> rest]]
            /\ write' = [pos |-> 0, len |-> rest]
            /\ txbuf' = [pkt |-> p, at |-> p.head + p.var + done]
            /\ UNCHANGED <<pc, call_vars, stat, packet, msg>>
        BY <3>1, <3>2, <3>3, <3>5 DEF PublishWritten, PublishGoesOn, done
      <4>2. rest \in 1 .. TX_BUF_LEN /\ done + rest <= p.pay /\ TX_BUF_LEN >= 4
        BY <1>1, <3>3, <3>5, BuffersAssumption DEF AtMost
      <4> HIDE DEF rest
      <4>3. /\ part' \in [Requests -> [pos : Nat, len : Nat]] /\ part'[p].pos = done /\ part'[p].len = rest
            /\ \A r \in Requests : r # p => part'[r] = part[r]
            /\ write' \in [pos : 0 .. TX_BUF_LEN - 1, len : 0 .. TX_BUF_LEN]
            /\ write'.pos = 0 /\ write'.len = rest
        BY <1>1, <3>1, <3>3, <4>1, <4>2
      <4>4. /\ txbuf' \in [pkt : ToWrite, at : Nat] /\ txbuf'.pkt = p
            /\ txbuf'.at = p.head + p.var + done /\ txbuf'.at # 0
        <5>1. p.head + p.var + done \in Nat /\ p.head + p.var + done # 0
          BY <1>1, <3>3, WrittenShapes
        <5> QED
          BY <1>1, <4>1, <5>1
      <4>5. wire' \in [pkt : ToWrite, n : Nat] /\ wire'.n < Size(p) /\ wire'.pkt = p
        BY <1>1, <2>2, <3>3, <3>4, <3>5
      <4>6. Writing'
        <5>1. ASSUME NEW r \in Requests, r = p
              PROVE  /\ txbuf'.at + write'.len = r.head + r.var + part'[r].pos + part'[r].len
                     /\ part'[r].pos + part'[r].len <= r.pay /\ write'.len > 0
          BY <4>2, <4>3, <4>4, <5>1
        <5>2. wire'.n <= Size(wire'.pkt)
          BY <1>1, <4>5
        <5>3. PartsFit'
          BY <4>1, <4>3, <5>1 DEF Writing, PartsFit
        <5> QED
          BY <2>4, <3>1, <4>1, <4>3, <4>4, <4>5, <5>1, <5>2, <5>3 DEF Writing, call_vars, Size
      <4>7. HalfOpen'
        <5>1. WriteAt' = wire'.n
          BY <3>3, <3>4, <4>3, <4>4 DEF WriteAt
        <5>2. write'.pos < Chunk'
          BY <2>4, <4>2, <4>3, <4>4 DEF Chunk
        <5> QED
          BY <4>4, <4>5, <5>1, <5>2 DEF HalfOpen, Size
      <4>8. WritesOn => WritesOn'
        BY <3>1, <4>1, <4>4, <4>7 DEF WritesOn, p, call_vars
      <4> QED
        BY <4>6, <4>8 DEF WritesStep
    <3>6. CASE done >= p.pay
      <4>1. /\ part' = [part EXCEPT ![p] = [pos |-> done, len |-> 0]]
            /\ write' = [write EXCEPT !.pos = 0]
            /\ stat' = [stat EXCEPT ![p] = IF p.qos = 0 THEN "BEGIN" ELSE "WAIT"]
            /\ txbuf' = txbuf /\ pc' # "write"
        BY <3>1, <3>2, <3>3, <3>6 DEF PublishWritten, PublishGoesOn, done, Return, EnterWait
      <4>2. wire' = [pkt |-> p, n |-> Size(p)]
        BY <1>1, <2>2, <3>3, <3>4, <3>6
      <4>3. part' \in [Requests -> [pos : Nat, len : Nat]]
        BY <1>1, <3>3, <4>1
      <4>4. ASSUME NEW r \in Requests, stat'[r] = "WRITE"
            PROVE  stat[r] = "WRITE" /\ r # p /\ part'[r] = part[r]
        BY <1>1, <3>1, <4>1, <4>4
      <4> QED
        BY <1>1, <4>1, <4>2, <4>3, <4>4, WholeWrites DEF p
    <3> QED
      BY <3>3, <3>5, <3>6
  <2> QED
    BY <2>3, <2>4
<1> QED
  BY <1>3, <1>4

LEMMA StartWrites ==
  ASSUME IInv, Running, Writing,
         \/ \E r \in Requests : CallRequest(r) \/ MqttClient_Publish(r)
         \/ MqttClient_Ping \/ MqttClient_Disconnect \/ MqttClient_WaitMessage
  PROVE  WritesStep
<1>1. ASSUME NEW s, EnterWait(s), UNCHANGED <<writer, wire, struct_vars>> PROVE WritesStep
  BY <1>1, WritesNone DEF EnterWait, struct_vars, Writing
<1>2. ASSUME NEW r \in Requests, CallRequest(r) PROVE WritesStep
  <2>1. CASE stat[r] = "BEGIN"
    BY <1>2, <2>1, EncodeWrites DEF CallRequest, Start, struct_vars, net, ToWrite
  <2>2. CASE stat[r] # "BEGIN"
    BY <1>1, <1>2, <2>2 DEF CallRequest, net, writer
  <2> QED
    BY <2>1, <2>2
<1>3. ASSUME NEW r \in Requests, MqttClient_Publish(r) PROVE WritesStep
  <2>1. CASE stat[r] = "BEGIN"
    <3>1. /\ r.type = "PUBLISH" /\ Encode(r) /\ wire' = wire /\ call' = r
          /\ part' = [part EXCEPT ![r] = [pos |-> 0, len |-> FirstPart(r)]]
          /\ write' = [write EXCEPT !.len = r.head + r.var + FirstPart(r)]
          /\ stat' = [stat EXCEPT ![r] = "WRITE"]
      BY <1>3, <2>1 DEF MqttClient_Publish, Start, net
    <3>2. write'.pos = write.pos
      BY <3>1 DEF Writing
    <3> QED
      BY <2>1, <3>1, <3>2, EncodeWrites DEF ToWrite
  <2>2. CASE stat[r] = "WRITE"
    <3>1. /\ UNCHANGED <<struct_vars, writer, wire>> /\ r.type = "PUBLISH" /\ call' = r
      BY <1>3, <2>2 DEF MqttClient_Publish, Start, net
    <3>2. Writing'
      BY <3>1 DEF Writing, PartsFit, writer, struct_vars, FirstPart, Size
    <3>3. ASSUME WritesOn PROVE WritesOn'
      <4>1. txbuf.pkt = r
        BY <2>2, <3>3 DEF WritesOn
      <4> QED
        BY <3>1, <3>3, <4>1 DEF WritesOn, HalfOpen, Chunk, WriteAt, WireWhole, Size, writer, struct_vars
    <3> QED
      BY <3>2, <3>3 DEF WritesStep
  <2>3. CASE stat[r] = "WAIT"
    BY <1>1, <1>3, <2>3 DEF MqttClient_Publish, net
  <2> QED
    BY <2>1, <2>2, <2>3 DEF Running
<1>4. CASE MqttClient_Ping
  <2>1. CASE msg.stat = "BEGIN"
    BY <1>4, <2>1, EncodeWrites, FixedToWrite DEF MqttClient_Ping, Start, struct_vars, net
  <2>2. CASE msg.stat # "BEGIN"
    BY <1>1, <1>4, <2>2 DEF MqttClient_Ping, net, writer
  <2> QED
    BY <2>1, <2>2
<1>5. CASE MqttClient_Disconnect
  BY <1>5, EncodeWrites, FixedToWrite DEF MqttClient_Disconnect, Start, struct_vars, net
<1>6. CASE MqttClient_WaitMessage
  BY <1>1, <1>6 DEF MqttClient_WaitMessage, net
<1> QED
  BY <1>2, <1>3, <1>4, <1>5, <1>6

LEMMA BlankWire ==
  ASSUME wire' = Blank.wire
  PROVE  wire' \in [pkt : ToWrite, n : Nat] /\ wire'.n <= Size(wire'.pkt) /\ WireWhole'
<1>1. wire' = [pkt |-> NoPacket, n |-> Size(NoPacket)]
  BY DEF Blank
<1>2. NoPacket \in ToWrite /\ Size(NoPacket) \in Nat
  BY FixedToWrite, WrittenSizes
<1> QED
  BY <1>1, <1>2 DEF WireWhole, Size

LEMMA OtherWrites ==
  ASSUME IInv, Running, Writing,
         \/ \E r \in Requests : Renew(r)
         \/ MqttClient_NetConnect \/ MqttClient_NetDisconnect
         \/ \E p \in ServerSends : ServerPublishes(p)
         \/ NetFails \/ OutOfBuffer \/ ReadsNothing \/ WriteAstray \/ ReadAstray
         \/ UNCHANGED vars
  PROVE  WritesStep
<1>1. ASSUME NEW r \in Requests, Renew(r) PROVE WritesStep
  <2>1. /\ UNCHANGED <<writer, wire>> /\ pc = "idle" /\ pc' = "idle"
        /\ stat' = [stat EXCEPT ![r] = "BEGIN"] /\ part' = [part EXCEPT ![r] = [pos |-> 0, len |-> 0]]
    BY <1>1 DEF Renew, net
  <2>2. /\ part' \in [Requests -> [pos : Nat, len : Nat]]
        /\ stat'[r] # "WRITE"
        /\ \A q \in Requests : q # r => stat'[q] = stat[q] /\ part'[q] = part[q]
    <3>1. part \in [Requests -> [pos : Nat, len : Nat]] /\ stat \in [Requests -> {"BEGIN", "WRITE", "WAIT"}]
      BY DEF Running, Writing
    <3> QED
      BY <2>1, <3>1
  <2>3. Writing'
    BY <2>1, <2>2 DEF Writing, PartsFit, writer, FirstPart, Size
  <2>4. WritesOn => WritesOn'
    BY <2>1, <2>2 DEF WritesOn, HalfOpen, Chunk, WriteAt, WireWhole, Size, writer
  <2> QED
    BY <2>3, <2>4 DEF WritesStep
<1>2. CASE \/ MqttClient_NetConnect
           \/ \E p \in ServerSends : ServerPublishes(p)
           \/ NetFails \/ OutOfBuffer \/ ReadsNothing \/ WriteAstray \/ ReadAstray
           \/ UNCHANGED vars
  BY <1>2, WritesNone
     DEF MqttClient_NetConnect, ServerPublishes, NetFails, OutOfBuffer, ReadsNothing, WriteAstray,
         ReadAstray, Return, struct_vars, call_vars, net, vars, Writing
<1>3. CASE MqttClient_NetDisconnect
  <2>1. /\ UNCHANGED <<write, txbuf, part, stat>> /\ pc' = "idle"
        /\ wire' \in [pkt : ToWrite, n : Nat] /\ wire'.n <= Size(wire'.pkt) /\ WireWhole'
    BY <1>3, BlankWire DEF MqttClient_NetDisconnect, struct_vars, writer
  <2>2. Writing'
    BY <2>1 DEF Writing, PartsFit, FirstPart, Size
  <2>3. ASSUME ~cut' PROVE WritesOn'
    <3>1. NothingHalfDone
      BY <1>3, <2>3 DEF MqttClient_NetDisconnect
    <3> QED
      BY <2>1, <3>1 DEF NothingHalfDone, WritesOn
  <2> QED
    BY <2>2, <2>3 DEF WritesStep
<1> QED
  BY <1>1, <1>2, <1>3

LEMMA InitWrites ==
  ASSUME Running, Writing, MqttClient_Init
  PROVE  Writing' /\ (~cut' => WritesOn')
<1>1. /\ UNCHANGED <<part, stat>> /\ pc' = "idle"
      /\ wire' \in [pkt : ToWrite, n : Nat] /\ wire'.n <= Size(wire'.pkt) /\ WireWhole'
  BY BlankWire DEF MqttClient_Init, struct_vars
<1>2. write' = [pos |-> 0, len |-> 0] /\ txbuf' = [pkt |-> NoPacket, at |-> 0]
  BY DEF MqttClient_Init, Blank
<1>3. /\ write' \in [pos : 0 .. TX_BUF_LEN - 1, len : 0 .. TX_BUF_LEN] /\ write'.pos = 0
      /\ txbuf' \in [pkt : ToWrite, at : Nat] /\ txbuf'.pkt = NoPacket /\ txbuf'.at = 0
  BY <1>2, FixedToWrite, BuffersAssumption
<1>4. Writing'
  BY <1>1, <1>3, FixedToWrite DEF Writing, PartsFit
<1>5. ASSUME ~cut' PROVE WritesOn'
  <2>1. \A r \in Requests : stat[r] # "WRITE"
    BY <1>5 DEF MqttClient_Init
  <2> QED
    BY <1>1, <1>3, <2>1 DEF WritesOn
<1> QED
  BY <1>4, <1>5

LEMMA ReaderWrites ==
  ASSUME IInv, Running, Writing,
         (\E n \in 1 .. Largest : NetRead(n)) \/ HandlePublish \/ HandleOther
  PROVE  WritesStep
<1>1. ASSUME NEW n \in 1 .. Largest, NetRead(n) PROVE WritesStep
  <2>1. UNCHANGED <<writer, wire, stat, part, call>> /\ pc \in {"read", "payload"}
    BY <1>1 DEF NetRead, struct_vars, call_vars
  <2>2. pc' # "write"
    BY <1>1, <2>1 DEF NetRead, ReadFull, HeaderRead, PacketRead
  <2> QED
    BY <2>1, <2>2, WritesNone DEF Writing
<1>2. CASE HandlePublish \/ HandleOther
  <2>1. pc = "handle" /\ UNCHANGED <<write, wire, stat, part>>
    BY <1>2 DEF HandlePublish, HandleOther, net, struct_vars
  <2>2. CASE Encode(ClientAnswer(msg.pkt)) /\ pc' = "ack"
    <3>1. ClientAnswer(msg.pkt) \in ToWrite /\ ClientAnswer(msg.pkt).type # "PUBLISH"
      BY ClientAnswers, IncomingIds DEF IInv, Shapes
    <3> QED
      BY <2>1, <2>2, <3>1, EncodeWrites
  <2>3. CASE UNCHANGED txbuf /\ pc' # "write"
    BY <2>1, <2>3, WritesNone DEF writer, Writing
  <2> QED
    BY <1>2, <2>2, <2>3 DEF HandlePublish, HandleOther, Check, Return, EnterWait
<1> QED
  BY <1>1, <1>2

\* A PUBLISH of which nothing was written goes on with its next part, or to wait.
LEMMA PublishSkips ==
  ASSUME IInv, Running, Writing, pc = "write", call.type = "PUBLISH",
         PublishGoesOn(write.pos, TRUE), wire' = wire
  PROVE  WritesStep
<1> DEFINE done == part[call].pos + part[call].len
           rest == AtMost(call.pay - done, TX_BUF_LEN)
<1>1. /\ call \in Requests /\ stat[call] = "WRITE"
      /\ stat \in [Requests -> {"BEGIN", "WRITE", "WAIT"}]
      /\ part \in [Requests -> [pos : Nat, len : Nat]]
      /\ write \in [pos : 0 .. TX_BUF_LEN - 1, len : 0 .. TX_BUF_LEN]
  BY OwnTypes DEF Running, Writing, Own
<1>2. /\ call.head \in Nat /\ call.head >= 2 /\ call.var \in Nat /\ call.pay \in Nat
      /\ TX_BUF_LEN \in Nat /\ TX_BUF_LEN >= 4 /\ done \in Nat
  BY <1>1, WrittenShapes DEF ToWrite
<1>3. CASE done < call.pay
  <2>1. /\ part' = [part EXCEPT ![call] = [pos |-> done, len |-> rest]]
        /\ write' = [pos |-> write.pos, len |-> rest]
        /\ txbuf' = [pkt |-> call, at |-> call.head + call.var + done]
        /\ UNCHANGED <<pc, call_vars, stat, packet, msg>>
    BY <1>2, <1>3 DEF PublishGoesOn
  <2>0. cut'
    <3>1. ~ done >= call.pay
      BY <1>2, <1>3
    <3> HIDE DEF done
    <3>2. cut' = (cut \/ TRUE)
      BY <3>1, Zenon DEF PublishGoesOn, done
    <3> QED
      BY <3>2
  <2>2. rest \in 1 .. TX_BUF_LEN /\ done + rest <= call.pay
    BY <1>2, <1>3 DEF AtMost
  <2> HIDE DEF rest, done
  <2>3. /\ part' \in [Requests -> [pos : Nat, len : Nat]]
        /\ part'[call].pos = done /\ part'[call].len = rest
        /\ \A r \in Requests : r # call => part'[r] = part[r]
        /\ write' \in [pos : 0 .. TX_BUF_LEN - 1, len : 0 .. TX_BUF_LEN] /\ write'.len = rest
    BY <1>1, <1>2, <2>1, <2>2
  <2>4. /\ txbuf' \in [pkt : ToWrite, at : Nat] /\ txbuf'.pkt = call
        /\ txbuf'.at = call.head + call.var + done /\ txbuf'.at # 0
    <3>1. call.head + call.var + done \in Nat /\ call.head + call.var + done # 0
      BY <1>2
    <3> QED
      BY <1>1, <2>1, <3>1 DEF ToWrite
  <2>5. /\ txbuf'.at + write'.len = call.head + call.var + part'[call].pos + part'[call].len
        /\ part'[call].pos + part'[call].len <= call.pay /\ write'.len > 0
    BY <2>2, <2>3, <2>4
  <2>6. PartsFit'
    BY <2>1, <2>3, <2>5 DEF Writing, PartsFit
  <2>7. Writing'
    BY <2>1, <2>3, <2>4, <2>5, <2>6 DEF Writing, call_vars, Size
  <2> QED
    BY <2>0, <2>1, <2>7 DEF WritesStep
<1>4. CASE done >= call.pay
  <2>1. /\ part' = [part EXCEPT ![call] = [pos |-> done, len |-> 0]]
        /\ write' = [write EXCEPT !.pos = write.pos] /\ UNCHANGED txbuf
        /\ stat' = [stat EXCEPT ![call] = IF call.qos = 0 THEN "BEGIN" ELSE "WAIT"]
        /\ pc' # "write"
    BY <1>2, <1>4 DEF PublishGoesOn, Return, EnterWait
  <2>2. write' = write
    BY <1>1, <2>1
  <2>3. ASSUME NEW r \in Requests, stat'[r] = "WRITE" PROVE stat[r] = "WRITE" /\ part'[r] = part[r]
    BY <1>1, <2>1, <2>3
  <2>4. part' \in [Requests -> [pos : Nat, len : Nat]]
    BY <1>1, <1>2, <2>1
  <2> QED
    BY <2>1, <2>2, <2>3, <2>4, WritesNone DEF writer
<1> QED
  BY <1>2, <1>3, <1>4

LEMMA WritesNothingWrites == ASSUME IInv, Running, Writing, WritesNothing PROVE WritesStep
<1>1. wire' = wire
  BY DEF WritesNothing, net
<1>2. CASE ReturnsNothing
  BY <1>1, <1>2, WritesNone DEF ReturnsNothing, Return, struct_vars, Writing
<1>3. CASE Check /\ UNCHANGED <<struct_vars, writer>>
  <2>1. pc' # "write"
    BY <1>3 DEF Check, Return, EnterWait
  <2> QED
    BY <1>1, <1>3, <2>1, WritesNone DEF struct_vars, Writing
<1> QED
  BY <1>1, <1>2, <1>3, PublishSkips DEF WritesNothing

LEMMA NextWrites == ASSUME IInv, Running, Writing, [Next]_vars PROVE WritesStep
BY StartWrites, OtherWrites, InitWrites, NetWriteWrites, WritesNothingWrites, ReaderWrites
   DEF WritesStep, Next, Application, Client

-------------------------------------------------------------------------------
(* Trouble *)

Kept == ~cut => ReadsOn /\ WritesOn

\* Each byte is written and read at its place, within the part that is asked for.
LEMMA WritesOnInPlace ==
  ASSUME IInv, Running, Writing, WritesOn, pc \in {"write", "ack"}
  PROVE  WritesInPlace /\ write.pos < WriteLen
<1>1. /\ write \in [pos : 0 .. TX_BUF_LEN - 1, len : 0 .. TX_BUF_LEN] /\ txbuf.at \in Nat
      /\ txbuf.pkt \in ToWrite /\ wire \in [pkt : ToWrite, n : Nat] /\ TX_BUF_LEN \in Nat
  BY BuffersAssumption DEF Writing
<1>2. pc = "write" => txbuf.pkt = call
  BY DEF WritesOn
<1>3. txbuf.at = 0 \/ HalfOpen
  <2>1. CASE txbuf.pkt.type # "PUBLISH"
    BY <2>1 DEF Writing
  <2>2. CASE txbuf.pkt.type = "PUBLISH"
    <3>1. txbuf.pkt \in Requests
      BY <1>1, <2>2, WrittenSizes
    <3>2. pc = "write"
      BY <3>1, ClientAnswers, IncomingIds DEF Running, IInv, Shapes
    <3>3. stat[txbuf.pkt] = "WRITE"
      BY <1>2, <2>2, <3>1, <3>2, OwnTypes DEF Running
    <3> QED
      BY <3>1, <3>3 DEF WritesOn
  <2> QED
    BY <2>1, <2>2
<1>4. WritesInPlace
  <2>1. CASE HalfOpen
    BY <1>1, <1>2, <2>1 DEF HalfOpen, WritesInPlace
  <2>2. CASE ~HalfOpen
    BY <1>1, <1>2, <1>3, <2>2 DEF WritesOn, WritesInPlace, WriteAt
  <2> QED
    BY <2>1, <2>2
<1>5. /\ WriteLen = Chunk
      /\ txbuf.pkt.type # "PUBLISH" => WriteLen = Size(txbuf.pkt)
      /\ txbuf.pkt.type = "PUBLISH" => txbuf.pkt \in Requests /\ stat[txbuf.pkt] = "WRITE"
  <2>1. /\ WriteLen = Chunk
        /\ txbuf.pkt.type # "PUBLISH" => WriteLen = Size(txbuf.pkt)
        /\ pc = "write" /\ txbuf.pkt.type = "PUBLISH" => txbuf.pkt \in Requests /\ stat[txbuf.pkt] = "WRITE"
        /\ pc = "ack" => txbuf.pkt.type # "PUBLISH"
    BY <1>4, PartWritten
  <2> QED
    BY <2>1
<1>6. write.pos < WriteLen
  <2>1. CASE HalfOpen
    BY <1>5, <2>1 DEF HalfOpen
  <2>2. CASE write.pos = 0
    <3>1. CASE txbuf.pkt.type # "PUBLISH"
      BY <1>1, <1>5, <2>2, <3>1, WrittenSizes
    <3>2. CASE txbuf.pkt.type = "PUBLISH"
      BY <1>5, <2>2, <3>2 DEF Writing, Chunk
    <3> QED
      BY <3>1, <3>2
  <2> QED
    BY <2>1, <2>2 DEF WritesOn
<1> QED
  BY <1>4, <1>6

LEMMA ReadsOnInPlace ==
  ASSUME IInv, Running, Reading, ReadsOn, pc \in {"read", "payload"}
  PROVE  off = ReadAt /\ read < ReadLen
<1>1. packet \in PacketType /\ read \in Nat
  BY DEF IInv, Shapes
<1>2. CASE pc = "payload"
  <2>1. msg.stat = "READ_PAYLOAD"
    BY <1>2 DEF IInv, InStep
  <2>2. InPlace
    BY <2>1 DEF ReadsOn, Reading
  <2> QED
    BY <1>2, <2>1, <2>2 DEF InPlace, Reading, ReadAt, ReadLen
<1>3. CASE pc = "read"
  <2>1. msg.stat \in {"BEGIN", "WAIT"} /\ pc # "payload"
    BY <1>3 DEF Running
  <2>2. CASE packet.stat = "BEGIN"
    BY <2>1, <2>2 DEF ReadsOn, ReadAt, ReadLen
  <2>3. CASE packet.stat = "READ_HEAD"
    <3>1. InPlace
      BY <2>1, <2>3 DEF ReadsOn, Reading
    <3>2. off = packet.header_len /\ read = 0
      BY <2>3, <3>1 DEF InPlace, Reading
    <3> QED
      BY <1>1, <2>1, <2>3, <3>2 DEF ReadAt, ReadLen, PacketType
  <2>4. CASE packet.stat = "READ"
    <3>1. InPlace
      BY <2>1, <2>4 DEF ReadsOn, Reading
    <3> QED
      BY <2>1, <2>4, <3>1 DEF InPlace, Reading, ReadAt, ReadLen
  <2> QED
    BY <1>1, <2>2, <2>3, <2>4 DEF PacketType
<1> QED
  BY <1>2, <1>3

LEMMA CutStays == ASSUME [Next]_vars, ~MqttClient_Init, cut PROVE cut'
<1>1. CASE Application
  BY <1>1
     DEF Application, CallRequest, MqttClient_Publish, Renew, MqttClient_Ping, MqttClient_Disconnect,
         MqttClient_WaitMessage, MqttClient_NetConnect, MqttClient_NetDisconnect, Encode, EnterWait, history
<1>2. ASSUME Check PROVE cut'
  BY <1>2 DEF Check, EnterWait
<1>3. ASSUME NEW n \in 1 .. Largest, NetWrite(n) PROVE cut'
  BY <1>2, <1>3
     DEF NetWrite, Written, RequestWritten, PingWritten, DisconnectWritten, PublishWritten, PublishGoesOn,
         AnswerWritten, EnterWait
<1>4. CASE Client
  BY <1>2, <1>3, <1>4
     DEF Client, WritesNothing, ReturnsNothing, PublishGoesOn, EnterWait, NetRead, WriteAstray, ReadAstray, HandlePublish, HandleOther, NetFails, OutOfBuffer,
         ReadsNothing, Encode, history
<1>5. CASE (\E p \in ServerSends : ServerPublishes(p)) \/ UNCHANGED vars
  BY <1>5 DEF ServerPublishes, history, vars
<1> QED
  BY <1>1, <1>4, <1>5 DEF Next

LEMMA NextKept ==
  ASSUME IInv, Running, Reading, Writing, Kept, [Next]_vars
  PROVE  Kept'
<1>1. CASE MqttClient_Init
  BY <1>1, InitReads, InitWrites DEF Kept
<1>2. CASE ~MqttClient_Init
  BY <1>2, CutStays, NextReads, NextWrites DEF Kept, ReadsStep, WritesStep
<1> QED
  BY <1>1, <1>2

\* Where a call is lost, or a position beyond its buffer, something was left half done.
LEMMA NextTrouble ==
  ASSUME IInv, Running, Reading, Writing, Kept, TroubleOnlyAfterCut, [Next]_vars
  PROVE  TroubleOnlyAfterCut'
<1>1. CASE WriteAstray \/ ReadAstray \/ OutOfBuffer
  <2>1. cut
    BY <1>1, WritesOnInPlace, ReadsOnInPlace DEF Kept, WriteAstray, ReadAstray, OutOfBuffer, InPosition
  <2>2. cut' = cut
    BY <1>1 DEF WriteAstray, ReadAstray, OutOfBuffer, history
  <2> QED
    BY <2>1, <2>2 DEF TroubleOnlyAfterCut
<1>2. CASE MqttClient_Init
  BY <1>2 DEF MqttClient_Init, TroubleOnlyAfterCut, NoRet
<1>3. CASE ~(WriteAstray \/ ReadAstray \/ OutOfBuffer \/ MqttClient_Init)
  <2>1. /\ pc' = "astray" => pc = "astray"
        /\ ret'.rc = "OUT_OF_BUFFER" => ret.rc = "OUT_OF_BUFFER"
    <3>1. ASSUME Check PROVE pc' # "astray" /\ (ret'.rc = "OUT_OF_BUFFER" => ret.rc = "OUT_OF_BUFFER")
      BY <3>1 DEF Check, Return, EnterWait, call_vars
    <3>2. CASE Application
      BY <1>3, <3>2
         DEF Application, CallRequest, MqttClient_Publish, Renew, MqttClient_Ping, MqttClient_Disconnect,
             MqttClient_WaitMessage, MqttClient_NetConnect, MqttClient_NetDisconnect, Start, EnterWait,
             NoRet, call_vars
    <3>3. ASSUME NEW n \in 1 .. Largest, NetWrite(n)
          PROVE  pc' # "astray" /\ (ret'.rc = "OUT_OF_BUFFER" => ret.rc = "OUT_OF_BUFFER")
      BY <3>1, <3>3
         DEF NetWrite, Written, RequestWritten, PingWritten, DisconnectWritten, PublishWritten, PublishGoesOn,
             AnswerWritten, EnterWait, Return, call_vars
    <3>4. ASSUME NEW n \in 1 .. Largest, NetRead(n)
          PROVE  pc' # "astray" /\ (ret'.rc = "OUT_OF_BUFFER" => ret.rc = "OUT_OF_BUFFER")
      BY <3>4 DEF NetRead, ReadFull, HeaderRead, PacketRead, call_vars
    <3>5. CASE HandlePublish \/ HandleOther \/ NetFails \/ ReadsNothing
      BY <3>1, <3>5 DEF HandlePublish, HandleOther, NetFails, ReadsNothing, Return, call_vars
    <3>6. CASE WritesNothing
      BY <3>1, <3>6 DEF WritesNothing, ReturnsNothing, PublishGoesOn, Return, EnterWait, call_vars
    <3>7. CASE (\E p \in ServerSends : ServerPublishes(p)) \/ UNCHANGED vars
      BY <3>7 DEF ServerPublishes, vars, call_vars
    <3> QED
      BY <1>3, <3>2, <3>3, <3>4, <3>5, <3>6, <3>7 DEF Next, Client
  <2> QED
    BY <1>3, <2>1, CutStays DEF TroubleOnlyAfterCut
<1> QED
  BY <1>1, <1>2, <1>3

-------------------------------------------------------------------------------
(* What was sent and answered *)

\* A request with an answer to wait for was sent once in state WAIT, and not in the others, but
\* for a PUBLISH whose end was passed over.
SentOnce(r) ==
  IF stat[r] = "WAIT"
  THEN sends[r] = 1 \/ (sends[r] = 0 /\ r.type = "PUBLISH" /\ r \in skipped)
  ELSE sends[r] = 0

\* With it: a packet looked at is the running call's answer only if it was counted as one, or
\* the call passed something over.
Promised ==
  /\ Len(inq) <= MAX_QUEUE
  /\ sends \in [Requests -> 0..2] /\ answered \subseteq Requests
  /\ \A r \in Answerable : SentOnce(r)
  /\ \A r \in answered : sends[r] > 0
  /\ pc \in {"handle", "ack"} /\ call \in Answerable /\ IsAnswer(msg.pkt, call) =>
       call \in answered \cup skipped

LEMMA AnswerableIs ==
  ASSUME NEW r \in Answerable
  PROVE  r \in Requests /\ r.type \in Requesting /\ (r.type = "PUBLISH" => r.qos > 0 /\ r.qos # 0)
<1>1. r \in Requests /\ (r.type # "PUBLISH" \/ r.qos > 0) /\ r.qos \in 0 .. 2
  BY RequestsAssumption DEF Answerable, PacketShape
<1> QED
  BY <1>1, OwnTypes

LEMMA MessageIsNoAnswer ==
  ASSUME NEW p, p.type = "PUBLISH", NEW r
  PROVE  ~IsAnswer(p, r)
<1>1. WaitType(r) # "PUBLISH"
  BY DEF WaitType
<1> QED
  BY <1>1 DEF IsAnswer

\* A step that neither sends a request nor reads an answer.
LEMMA PromisedKept ==
  ASSUME Promised, UNCHANGED <<sends, answered>>, Len(inq') <= MAX_QUEUE,
         \A r \in Answerable :
           \/ stat'[r] = "WAIT" <=> stat[r] = "WAIT"
           \/ sends[r] = 0 /\ r.type = "PUBLISH" /\ r \in skipped',
         \A r \in Answerable : r \in skipped => r \in skipped' \/ (r.type # "PUBLISH" /\ pc = "idle"),
         \/ pc' \notin {"handle", "ack"}
         \/ msg'.pkt.type = "PUBLISH"
         \/ pc \in {"handle", "ack"} /\ msg'.pkt = msg.pkt /\ call' = call
  PROVE  Promised'
<1>1. ASSUME NEW r \in Answerable PROVE SentOnce(r)'
  <2>1. SentOnce(r) /\ sends'[r] = sends[r]
    BY DEF Promised
  <2> QED
    BY <2>1 DEF SentOnce
<1>2. pc' \in {"handle", "ack"} /\ call' \in Answerable /\ IsAnswer(msg'.pkt, call') =>
        call' \in answered' \cup skipped'
  <2>1. CASE msg'.pkt.type = "PUBLISH"
    BY <2>1, MessageIsNoAnswer
  <2>2. CASE pc \in {"handle", "ack"} /\ msg'.pkt = msg.pkt /\ call' = call
    BY <2>2 DEF Promised
  <2> QED
    BY <2>1, <2>2
<1> QED
  BY <1>1, <1>2 DEF Promised, IsAnswer

\* Entering the wait again goes to what is left of a message, never to an answer.
LEMMA EnterWaitIsNoAnswer ==
  ASSUME IInv, pc # "handle", EnterWait(msg.stat), msg' = msg
  PROVE  pc' \notin {"handle", "ack"} \/ msg'.pkt.type = "PUBLISH"
<1>1. pc' = "read" \/ (pc' = "handle" /\ msg.stat = "READ_PAYLOAD")
  BY EnterWaitQuiet
<1>2. msg.stat = "READ_PAYLOAD" => msg.pkt.type = "PUBLISH"
  BY Messages DEF IInv, GivenBytes
<1> QED
  BY <1>1, <1>2

LEMMA StartPromised ==
  ASSUME IInv, Running, Promised,
         \/ \E r \in Requests : CallRequest(r) \/ MqttClient_Publish(r)
         \/ MqttClient_Ping \/ MqttClient_Disconnect \/ MqttClient_WaitMessage
  PROVE  Promised'
<1>1. /\ UNCHANGED <<sends, answered, inq, msg>> /\ pc = "idle"
      /\ pc' = "write" \/ EnterWait(msg.stat)
  BY DEF CallRequest, MqttClient_Publish, MqttClient_Ping, MqttClient_Disconnect,
         MqttClient_WaitMessage, Start, reader, net, history
<1>2. \A r \in Answerable : stat'[r] = "WAIT" <=> stat[r] = "WAIT"
  <2>1. stat' = stat \/ \E r \in Requests : stat[r] = "BEGIN" /\ stat' = [stat EXCEPT ![r] = "WRITE"]
    BY DEF CallRequest, MqttClient_Publish, MqttClient_Ping, MqttClient_Disconnect,
         MqttClient_WaitMessage, struct_vars
  <2> QED
    BY <2>1, AnswerableIs DEF Running
<1>3. pc' \notin {"handle", "ack"} \/ msg'.pkt.type = "PUBLISH"
  BY <1>1, EnterWaitIsNoAnswer
<1>4. skipped' = skipped \/ \E r \in Requests : r.type # "PUBLISH" /\ skipped' = skipped \ {r}
  BY DEF CallRequest, MqttClient_Publish, MqttClient_Ping, MqttClient_Disconnect,
         MqttClient_WaitMessage
<1> QED
  BY <1>1, <1>2, <1>3, <1>4, PromisedKept DEF Promised

LEMMA OtherPromised ==
  ASSUME IInv, Running, Promised,
         \/ \E r \in Requests : Renew(r)
         \/ MqttClient_NetConnect \/ MqttClient_NetDisconnect \/ MqttClient_Init
         \/ \E p \in ServerSends : ServerPublishes(p)
         \/ NetFails \/ OutOfBuffer \/ ReadsNothing \/ WriteAstray \/ ReadAstray
         \/ UNCHANGED vars
  PROVE  Promised'
<1>1. ASSUME NEW r \in Requests, Renew(r) PROVE Promised'
  <2>1. /\ stat' = [stat EXCEPT ![r] = "BEGIN"] /\ sends' = [sends EXCEPT ![r] = 0]
        /\ answered' = answered \ {r} /\ skipped' = skipped \ {r} /\ pc' = "idle" /\ inq' = inq
    BY <1>1 DEF Renew, net
  <2>2. /\ sends \in [Requests -> 0..2] /\ stat \in [Requests -> {"BEGIN", "WRITE", "WAIT"}]
    BY DEF Promised, Running
  <2>3. sends' \in [Requests -> 0..2] /\ sends'[r] = 0 /\ stat'[r] = "BEGIN"
    BY <2>1, <2>2
  <2>4. \A q \in Requests : q # r => sends'[q] = sends[q] /\ stat'[q] = stat[q]
    BY <2>1, <2>2
  <2>5. ASSUME NEW q \in Answerable PROVE SentOnce(q)'
    <3>1. CASE q = r
      BY <2>3, <3>1 DEF SentOnce
    <3>2. CASE q # r
      BY <2>1, <2>4, <3>2, AnswerableIs DEF Promised, SentOnce
    <3> QED
      BY <3>1, <3>2
  <2>6. \A q \in answered' : sends'[q] > 0
    BY <2>1, <2>4 DEF Promised
  <2> QED
    BY <2>1, <2>3, <2>5, <2>6 DEF Promised
<1>2. CASE MqttClient_NetConnect \/ MqttClient_NetDisconnect \/ MqttClient_Init
  <2>1. /\ UNCHANGED <<sends, answered, skipped, stat>> /\ (inq' = inq \/ inq' = <<>>) /\ pc' = "idle"
    BY <1>2 DEF MqttClient_NetConnect, MqttClient_NetDisconnect, MqttClient_Init, struct_vars, history
  <2>2. Len(inq') <= MAX_QUEUE
    BY <2>1, EmptySeq, BuffersAssumption DEF Promised
  <2> QED
    BY <2>1, <2>2, PromisedKept
<1>3. ASSUME NEW p \in ServerSends, ServerPublishes(p) PROVE Promised'
  <2>1. /\ UNCHANGED <<sends, answered, skipped, stat, pc, msg, call>>
    BY <1>3 DEF ServerPublishes, struct_vars, history, reader, call_vars
  <2>2. Len(inq') <= MAX_QUEUE
    <3>1. inq \in Seq(Incoming) /\ p \in Incoming /\ Len(inq) < MAX_QUEUE /\ inq' = Append(inq, p)
      BY <1>3 DEF ServerPublishes, IInv, Shapes, Incoming
    <3>2. Len(inq') = Len(inq) + 1 /\ Len(inq) \in Nat /\ MAX_QUEUE \in Nat
      BY <3>1, AppendProperties, LenProperties, BuffersAssumption
    <3> QED
      BY <3>1, <3>2
  <2> QED
    BY <2>1, <2>2, PromisedKept
<1>4. CASE \/ NetFails \/ OutOfBuffer \/ ReadsNothing \/ WriteAstray \/ ReadAstray
           \/ UNCHANGED vars
  <2>1. /\ UNCHANGED <<sends, answered, stat, msg, inq>>
        /\ pc' \notin {"handle", "ack"} \/ (pc' = pc /\ call' = call)
        /\ skipped \subseteq skipped'
    BY <1>4 DEF NetFails, OutOfBuffer, ReadsNothing, WriteAstray, ReadAstray, Return, vars, struct_vars, history,
         reader, net, call_vars
  <2> QED
    BY <2>1, PromisedKept DEF Promised
<1> QED
  BY <1>1, <1>2, <1>3, <1>4

\* A request with an answer is sent whole exactly when its call goes on to wait for it.
Sends(r) ==
  /\ pc = "write" /\ call = r /\ r \in Answerable
  /\ stat[r] # "WAIT" /\ stat' = [stat EXCEPT ![r] = "WAIT"]
  /\ sends' = [q \in Requests |-> IF q = r THEN AtMost(sends[q] + 1, 2) ELSE sends[q]]
  /\ EnterWait(msg.stat) /\ UNCHANGED <<msg, call_vars, answered>>

LEMMA NetWriteSends ==
  ASSUME IInv, Running, Writing, Promised, NEW n \in 1 .. Largest, NetWrite(n)
  PROVE  \/ \E r \in Answerable : Sends(r)
         \/ /\ \A r \in Answerable : sends'[r] = sends[r] /\ (stat'[r] = "WAIT" <=> stat[r] = "WAIT")
            /\ answered' = answered
            /\ \/ UNCHANGED <<call, ret>> /\ (pc' = pc \/ EnterWait(msg.stat) \/ pc' = "read") /\ (msg' = msg \/ pc' = "read")
               \/ Return("SUCCESS") /\ call \notin Answerable
               \/ Return("SUCCESS") /\ pc = "ack" /\ IsAnswer(msg.pkt, call)
<1> DEFINE p == txbuf.pkt
<1>1. /\ pc \in {"write", "ack"} /\ n \in 1 .. WriteLen - write.pos /\ WritesInPlace
      /\ p \in ToWrite /\ Size(p) \in Nat /\ txbuf.at \in Nat /\ WriteLen \in Nat
      /\ txbuf.at + WriteLen <= Size(p)
      /\ p.type # "PUBLISH" => txbuf.at = 0 /\ WriteLen = Size(p)
      /\ pc = "write" => call = p
      /\ pc = "write" /\ p.type = "PUBLISH" =>
           /\ p \in Requests /\ stat[p] = "WRITE"
           /\ txbuf.at + WriteLen = p.head + p.var + part[p].pos + part[p].len
           /\ part[p].pos + part[p].len <= p.pay
      /\ pc = "ack" => p.type # "PUBLISH" /\ p \notin Requests
      /\ write.pos \in Nat
  BY PartWritten, Lengths DEF NetWrite, Writing
<1>2. /\ stat \in [Requests -> {"BEGIN", "WRITE", "WAIT"}]
      /\ part \in [Requests -> [pos : Nat, len : Nat]]
      /\ sends \in [Requests -> 0..2]
      /\ p.head \in Nat /\ p.var \in Nat /\ p.pay \in Nat /\ Size(p) = p.head + p.var + p.pay
  BY <1>1, WrittenSizes, WrittenShapes DEF Running, Writing, Promised
<1> HIDE DEF p
<1>3. n \in Nat \ {0} /\ write.pos + n <= WriteLen /\ WriteAt + n = txbuf.at + (write.pos + n)
  BY <1>1 DEF WriteAt
<1>4. /\ answered' = answered
      /\ \/ /\ WriteAt + n = Size(p)
            /\ sends' = [r \in Requests |-> IF r = p THEN AtMost(sends[r] + 1, 2) ELSE sends[r]]
         \/ WriteAt + n # Size(p) /\ sends' = sends
  BY DEF NetWrite, Arrives, p
<1>5. p \notin Requests \/ WriteAt + n # Size(p) => \A r \in Answerable : sends'[r] = sends[r]
  <2>1. \A r \in Answerable : r \in Requests
    BY AnswerableIs
  <2> QED
    BY <1>4, <2>1
<1>6. CASE write.pos + n # WriteLen
  <2>1. WriteAt + n # Size(p)
    <3>1. write.pos + n < WriteLen
      BY <1>1, <1>3, <1>6
    <3> QED
      BY <1>1, <1>3, <3>1
  <2>2. UNCHANGED <<pc, call, ret, stat, msg>>
    BY <1>6 DEF NetWrite, call_vars, struct_vars
  <2> QED
    BY <1>4, <1>5, <2>1, <2>2
<1>7. CASE write.pos + n = WriteLen
  <2>1. Written /\ WriteAt + n = txbuf.at + WriteLen
    BY <1>3, <1>7 DEF NetWrite
  <2>2. CASE RequestWritten
    <3>1. /\ pc = "write" /\ call = p /\ p.type \in {"CONNECT", "SUBSCRIBE", "UNSUBSCRIBE"}
          /\ p \in Requests /\ stat[p] = "BEGIN" /\ p \in Answerable
      BY <1>1, <2>2, OwnTypes DEF RequestWritten, Running, Answerable
    <3>2. WriteAt + n = Size(p)
      BY <1>1, <2>1, <3>1
    <3> QED
      BY <1>4, <2>2, <3>1, <3>2 DEF RequestWritten, Sends
  <2>3. CASE PingWritten
    <3>1. p \notin Requests /\ stat' = stat /\ pc' = "read" /\ UNCHANGED <<call, ret>>
      BY <1>1, <2>3, FixedToWrite DEF PingWritten, struct_vars, call_vars, EnterWait
    <3> QED
      BY <1>4, <1>5, <3>1
  <2>4. CASE DisconnectWritten
    <3>1. p \notin Requests /\ stat' = stat /\ Return("SUCCESS") /\ call \notin Answerable
      BY <1>1, <2>4, FixedToWrite, AnswerableIs DEF DisconnectWritten, struct_vars
    <3> QED
      BY <1>4, <1>5, <3>1
  <2>5. CASE AnswerWritten
    <3>1. p \notin Requests /\ stat' = stat /\ pc = "ack" /\ Check
      BY <1>1, <2>5 DEF AnswerWritten, struct_vars
    <3>2. CASE Return("SUCCESS") /\ (call = WaitMessage \/ IsAnswer(msg.pkt, call))
      <4>1. call = WaitMessage => call \notin Answerable
        BY OwnTypes, AnswerableIs DEF Requesting
      <4> QED
        BY <1>4, <1>5, <3>1, <3>2, <4>1
    <3>3. CASE EnterWait("BEGIN") /\ UNCHANGED call_vars
      BY <1>4, <1>5, <3>1, <3>3 DEF EnterWait, call_vars
    <3> QED
      BY <3>1, <3>2, <3>3 DEF Check
  <2>6. CASE PublishWritten
    <3> DEFINE done == part[p].pos + part[p].len
    <3>1. /\ pc = "write" /\ call = p /\ p.type = "PUBLISH" /\ p \in Requests /\ stat[p] = "WRITE"
      BY <1>1, <2>6 DEF PublishWritten
    <3>2. WriteAt + n = p.head + p.var + done /\ done \in Nat /\ done <= p.pay
      BY <1>1, <1>2, <2>1, <3>1
    <3>3. WriteAt + n = Size(p) <=> done >= p.pay
      BY <1>2, <3>2
    <3>4. CASE done < p.pay /\ UNCHANGED <<pc, call_vars, stat, packet, msg>>
      BY <1>2, <1>4, <1>5, <3>2, <3>3, <3>4 DEF call_vars
    <3>5. CASE /\ done >= p.pay /\ p.qos = 0 /\ stat' = [stat EXCEPT ![p] = "BEGIN"]
               /\ Return("SUCCESS")
      <4>1. p \notin Answerable
        BY <3>1, <3>5, AnswerableIs
      <4>2. \A r \in Answerable : sends'[r] = sends[r] /\ stat'[r] = stat[r]
        BY <1>2, <1>4, <3>5, <4>1, AnswerableIs
      <4> QED
        BY <1>4, <3>1, <3>5, <4>1, <4>2
    <3>6. CASE /\ done >= p.pay /\ p.qos # 0 /\ stat' = [stat EXCEPT ![p] = "WAIT"]
               /\ EnterWait(msg.stat) /\ UNCHANGED <<call_vars, msg>>
      <4>1. p \in Answerable
        BY <3>1, <3>6, RequestsAssumption DEF Answerable, PacketShape
      <4> QED
        BY <1>4, <3>1, <3>3, <3>6, <4>1 DEF Sends
    <3> QED
      BY <2>6, <3>1, <3>4, <3>5, <3>6 DEF PublishWritten, PublishGoesOn
  <2> QED
    BY <2>1, <2>2, <2>3, <2>4, <2>5, <2>6 DEF Written
<1> QED
  BY <1>6, <1>7
LEMMA NetWriteGrows ==
  ASSUME Promised, NEW n \in 1 .. Largest, NetWrite(n)
  PROVE  /\ sends' \in [Requests -> 0..2] /\ \A r \in Requests : sends[r] > 0 => sends'[r] > 0
         /\ Len(inq') <= MAX_QUEUE
<1>1. sends \in [Requests -> 0..2]
  BY DEF Promised
<1>2. CASE Arrives(txbuf.pkt)
  <2>1. sends' = [r \in Requests |-> IF r = txbuf.pkt THEN AtMost(sends[r] + 1, 2) ELSE sends[r]]
    BY <1>2 DEF Arrives
  <2>2. \A k \in 0..2 : AtMost(k + 1, 2) \in 1..2
    BY DEF AtMost
  <2>3. sends' \in [Requests -> 0..2] /\ \A r \in Requests : sends[r] > 0 => sends'[r] > 0
    BY <1>1, <2>1, <2>2
  <2>4. Len(inq') <= MAX_QUEUE
    BY <1>2 DEF Arrives
  <2> QED
    BY <2>3, <2>4
<1>3. CASE UNCHANGED <<inq, sends>>
  BY <1>3 DEF Promised
<1> QED
  BY <1>2, <1>3 DEF NetWrite

LEMMA NetWritePromised ==
  ASSUME IInv, Running, Writing, Promised, NEW n \in 1 .. Largest, NetWrite(n)
  PROVE  Promised'
<1>1. /\ sends' \in [Requests -> 0..2] /\ \A r \in Requests : sends[r] > 0 => sends'[r] > 0
      /\ Len(inq') <= MAX_QUEUE /\ pc \in {"write", "ack"} /\ skipped' = skipped
  BY NetWriteGrows DEF NetWrite
<1>2. answered' = answered => answered' \subseteq Requests /\ \A r \in answered' : sends'[r] > 0
  BY <1>1 DEF Promised
<1>3. ASSUME NEW r \in Answerable, Sends(r) PROVE Promised'
  <2>1. /\ sends[r] = 0 /\ sends'[r] = 1 /\ stat'[r] = "WAIT"
        /\ \A q \in Requests : q # r => sends'[q] = sends[q] /\ stat'[q] = stat[q]
    <3>1. r \in Requests /\ stat[r] # "WAIT" /\ sends[r] = 0 /\ AtMost(sends[r] + 1, 2) = 1
      BY <1>3, AnswerableIs DEF Sends, Promised, SentOnce, AtMost
    <3> QED
      BY <1>3, <3>1 DEF Sends, Running
  <2>2. \A q \in Answerable : SentOnce(q)'
    BY <1>1, <2>1, AnswerableIs DEF Promised, SentOnce
  <2>3. pc' \notin {"handle", "ack"} \/ msg'.pkt.type = "PUBLISH"
    BY <1>3, EnterWaitIsNoAnswer DEF Sends
  <2> QED
    BY <1>1, <1>2, <1>3, <2>2, <2>3, MessageIsNoAnswer DEF Promised, Sends
<1>4. ASSUME /\ \A r \in Answerable : sends'[r] = sends[r] /\ (stat'[r] = "WAIT" <=> stat[r] = "WAIT")
             /\ answered' = answered,
             \/ pc' \notin {"handle", "ack"}
             \/ msg'.pkt.type = "PUBLISH"
             \/ pc' = pc /\ msg' = msg /\ call' = call
      PROVE  Promised'
  <2>1. \A r \in Answerable : SentOnce(r)'
    BY <1>1, <1>4 DEF Promised, SentOnce
  <2>2. pc' \in {"handle", "ack"} /\ call' \in Answerable /\ IsAnswer(msg'.pkt, call') =>
          call' \in answered' \cup skipped'
    BY <1>1, <1>4, MessageIsNoAnswer DEF Promised
  <2> QED
    BY <1>1, <1>2, <1>4, <2>1, <2>2 DEF Promised, IsAnswer
<1>5. pc # "handle" /\ (EnterWait(msg.stat) /\ msg' = msg => pc' \notin {"handle", "ack"} \/ msg'.pkt.type = "PUBLISH")
  BY <1>1, EnterWaitIsNoAnswer
<1>6. \A rc : Return(rc) => pc' = "idle"
  BY DEF Return
<1> QED
  BY <1>3, <1>4, <1>5, <1>6, NetWriteSends

LEMMA ReaderPromised ==
  ASSUME IInv, Running, Promised,
         (\E n \in 1 .. Largest : NetRead(n)) \/ HandlePublish \/ HandleOther
  PROVE  Promised'
<1>1. ASSUME NEW n \in 1 .. Largest, NetRead(n) PROVE Promised'
  <2>1. /\ UNCHANGED <<stat, call, sends, skipped>> /\ pc \in {"read", "payload"} /\ inq # <<>>
        /\ inq' = inq \/ inq' = Tail(inq)
    BY <1>1 DEF NetRead, struct_vars, call_vars
  <2>2. Len(inq') <= MAX_QUEUE
    <3>1. Len(inq) \in Nat /\ Len(Tail(inq)) = Len(inq) - 1 /\ MAX_QUEUE \in Nat
      BY <2>1, HeadTailProperties, LenProperties, EmptySeq, BuffersAssumption DEF IInv, Shapes
    <3> QED
      BY <2>1, <3>1 DEF Promised
  <2>3. CASE PacketRead
    <3>1. /\ msg'.pkt = Head(inq)
          /\ answered' = answered \cup {r \in Requests : sends[r] > 0 /\ IsAnswer(Head(inq), r)}
      BY <2>3 DEF PacketRead
    <3>2. call \in Answerable => call \in Requests /\ (sends[call] = 1 \/ call \in skipped)
      BY <2>1, AnswerableIs DEF Running, Promised, SentOnce
    <3>3. call' \in Answerable /\ IsAnswer(msg'.pkt, call') => call' \in answered' \cup skipped'
      BY <2>1, <3>1, <3>2
    <3>4. \A r \in Answerable : SentOnce(r)'
      BY <2>1 DEF Promised, SentOnce
    <3> QED
      BY <2>1, <2>2, <3>1, <3>3, <3>4 DEF Promised
  <2>4. CASE UNCHANGED answered /\ pc' = pc
    BY <2>1, <2>2, <2>4, PromisedKept
  <2>5. CASE pc = "payload" /\ msg' = [msg EXCEPT !.stat = "READ", !.len = ReadLen] /\ UNCHANGED answered
    <3>1. msg'.pkt = msg.pkt /\ msg.pkt.type = "PUBLISH"
      BY <2>5, Messages DEF IInv, Shapes, InStep, GivenBytes
    <3> QED
      BY <2>1, <2>2, <2>5, <3>1, PromisedKept
  <2> QED
    BY <1>1, <2>3, <2>4, <2>5 DEF NetRead, ReadFull, HeaderRead
<1>2. CASE HandlePublish \/ HandleOther
  <2>1. pc = "handle" /\ UNCHANGED <<stat, inq, sends, answered, skipped>>
    BY <1>2 DEF HandlePublish, HandleOther, net, struct_vars
  <2>2. pc' \notin {"handle", "ack"} \/ (msg'.pkt = msg.pkt /\ call' = call)
    <3>1. msg \in [stat : MsgStat, pkt : Incoming \cup {NoPacket}, new : BOOLEAN, pos : Nat, len : Nat]
      BY DEF IInv, Shapes
    <3>2. Check => pc' \notin {"handle", "ack"}
      BY DEF Check, Return, EnterWait
    <3> QED
      BY <1>2, <3>1, <3>2 DEF HandlePublish, HandleOther, call_vars
  <2> QED
    BY <2>1, <2>2, PromisedKept DEF Promised
<1> QED
  BY <1>1, <1>2

LEMMA WritesNothingPromised ==
  ASSUME IInv, Running, Promised, WritesNothing
  PROVE  Promised'
<1>1. /\ UNCHANGED <<sends, answered, inq>> /\ Len(inq') <= MAX_QUEUE
      /\ skipped \subseteq skipped' /\ (pc = "write" /\ call \in Requests => call \in skipped')
  BY DEF WritesNothing, net, Promised
<1>2. CASE ReturnsNothing \/ (Check /\ UNCHANGED struct_vars)
  <2>1. UNCHANGED stat /\ pc' \notin {"handle", "ack"}
    BY <1>2 DEF ReturnsNothing, Check, Return, EnterWait, struct_vars
  <2> QED
    BY <1>1, <2>1, PromisedKept
<1>3. CASE pc = "write" /\ call.type = "PUBLISH" /\ PublishGoesOn(write.pos, TRUE)
  <2>1. call \in Requests /\ stat[call] = "WRITE" /\ call \in skipped'
    BY <1>1, <1>3, OwnTypes DEF Running, Own
  <2>2. stat' = stat \/ \E s \in {"BEGIN", "WAIT"} : stat' = [stat EXCEPT ![call] = s]
    BY <1>3 DEF PublishGoesOn
  <2>3. ASSUME NEW r \in Answerable
        PROVE  \/ stat'[r] = "WAIT" <=> stat[r] = "WAIT"
               \/ sends[r] = 0 /\ r.type = "PUBLISH" /\ r \in skipped'
    <3>1. CASE r = call
      BY <1>3, <2>1, <3>1 DEF Promised, SentOnce
    <3>2. CASE r # call
      <4>1. r \in Requests /\ stat \in [Requests -> {"BEGIN", "WRITE", "WAIT"}]
        BY AnswerableIs DEF Running
      <4> QED
        BY <2>1, <2>2, <3>2, <4>1
    <3> QED
      BY <3>1, <3>2
  <2>4. pc' \notin {"handle", "ack"} \/ msg'.pkt.type = "PUBLISH"
    <3>1. EnterWait(msg.stat) /\ UNCHANGED msg => pc' \notin {"handle", "ack"} \/ msg'.pkt.type = "PUBLISH"
      BY <1>3, EnterWaitIsNoAnswer
    <3> QED
      BY <1>3, <3>1 DEF PublishGoesOn, Return
  <2> QED
    BY <1>1, <2>3, <2>4, PromisedKept
<1> QED
  BY <1>2, <1>3 DEF WritesNothing

LEMMA NextPromised == ASSUME IInv, Running, Writing, Promised, [Next]_vars PROVE Promised'
BY StartPromised, OtherPromised, NetWritePromised, WritesNothingPromised, ReaderPromised
   DEF Next, Application, Client

-------------------------------------------------------------------------------
(* The promise is kept *)

\* The variables of MqttCall, as MqttClient has them.
Calling == IF call \in Answerable THEN call ELSE NoCall
Progress ==
  [r \in Answerable |->
    IF r \in answered THEN "answered" ELSE <<"new", "sent", "sent twice">>[sends[r] + 1]]
Skipped == skipped \cap Answerable
Success == IF ret.rc = "SUCCESS" /\ ret.call \in Answerable THEN ret.call ELSE NoCall

PromiseStep == Promise!Next \/ UNCHANGED <<Calling, Progress, Skipped, Success>>

ProgressTold ==
  Progress = [r \in Answerable |->
    IF r \in answered THEN "answered" ELSE IF sends[r] = 1 THEN "sent" ELSE "new"]

LEMMA PromisedProgress == Promised => ProgressTold
<1> SUFFICES ASSUME Promised PROVE ProgressTold
  OBVIOUS
<1>1. <<"new", "sent", "sent twice">>[0 + 1] = "new" /\ <<"new", "sent", "sent twice">>[1 + 1] = "sent"
  OBVIOUS
<1>2. ASSUME NEW r \in Answerable
      PROVE  <<"new", "sent", "sent twice">>[sends[r] + 1] = IF sends[r] = 1 THEN "sent" ELSE "new"
  <2>1. sends[r] \in {0, 1}
    BY DEF Promised, SentOnce
  <2> QED
    BY <1>1, <2>1
<1> QED
  BY <1>2 DEF ProgressTold, Progress

LEMMA Idle ==
  /\ NoCall \notin Answerable /\ PingReq \notin Answerable /\ Disconnect \notin Answerable
  /\ WaitMessage \notin Answerable
  /\ NoRet.rc = "NONE"
BY AnswerableIs, OwnTypes DEF Requesting, NoRet

\* While a call runs no call has succeeded since.
LEMMA RunningFails == ASSUME Running, pc # "idle" PROVE Success = NoCall
BY Idle DEF Running, Success

LEMMA QuietPromise ==
  ASSUME UNCHANGED <<call, ret, skipped>>, answered' = answered, \A r \in Answerable : sends'[r] = sends[r]
  PROVE  PromiseStep
BY DEF PromiseStep, Calling, Progress, Skipped, Success

LEMMA StartPromise ==
  ASSUME Running,
         \/ \E r \in Requests : CallRequest(r) \/ MqttClient_Publish(r)
         \/ MqttClient_Ping \/ MqttClient_Disconnect \/ MqttClient_WaitMessage
  PROVE  PromiseStep
<1>1. PICK c \in Own : /\ Start(c)
                       /\ skipped' = skipped \/ (c \in Answerable /\ skipped' = skipped \ {c})
  BY DEF CallRequest, MqttClient_Publish, MqttClient_Ping, MqttClient_Disconnect,
         MqttClient_WaitMessage, Own, Answerable
<1>2. UNCHANGED <<sends, answered>>
  BY DEF CallRequest, MqttClient_Publish, MqttClient_Ping, MqttClient_Disconnect,
         MqttClient_WaitMessage
<1>3. Calling = NoCall /\ Success' = NoCall /\ Progress' = Progress /\ call' = c
  <2>1. Calling = NoCall /\ call' = c /\ ret' = NoRet
    <3>1. pc = "idle" /\ call' = c /\ ret' = NoRet
      BY <1>1 DEF Start
    <3>2. call = NoCall
      BY <3>1 DEF Running
    <3> QED
      BY <3>1, <3>2, Idle DEF Calling
  <2>2. Success' = NoCall
    BY <2>1, Idle DEF Success
  <2>3. Progress' = Progress
    BY <1>2 DEF Progress
  <2> QED
    BY <2>1, <2>2, <2>3
<1>4. CASE c \in Answerable
  <2>1. Promise!Call(c)
    BY <1>1, <1>3, <1>4 DEF Promise!Call, Calling, Success, Progress, Skipped
  <2> QED
    BY <1>4, <2>1 DEF PromiseStep, Promise!Next
<1>5. CASE c \notin Answerable
  <2>1. Promise!CallOther
    BY <1>1, <1>3, <1>5 DEF Promise!CallOther, Calling, Success, Progress, Skipped
  <2> QED
    BY <2>1 DEF PromiseStep, Promise!Next
<1> QED
  BY <1>4, <1>5

\* A call that returns has failed, read its answer, or passed something over.
LEMMA ReturnPromise ==
  ASSUME Running, Promised, pc # "idle", NEW rc \in RC, Return(rc), answered' = answered,
         \A r \in Answerable : sends'[r] = sends[r],
         skipped' = skipped \/ (rc = "SUCCESS" /\ skipped' = skipped \cup ({call} \cap Requests)),
         rc = "SUCCESS" /\ call \in Answerable => call \in answered \cup skipped'
  PROVE  PromiseStep
<1>1. call' = NoCall /\ ret' = [call |-> call, rc |-> rc]
  BY DEF Return
<1>2. Success = NoCall /\ Calling' = NoCall /\ Progress' = Progress
  BY <1>1, RunningFails, Idle DEF Calling, Progress
<1>3. CASE call \notin Answerable
  BY <1>1, <1>2, <1>3 DEF PromiseStep, Calling, Skipped, Success
<1>4. CASE call \in Answerable /\ rc # "SUCCESS"
  <2>1. Calling = call /\ Success' = NoCall
    BY <1>1, <1>4 DEF Calling, Success
  <2>2. Promise!Fail(call)
    BY <1>2, <1>4, <2>1 DEF Promise!Fail, Calling, Success, Progress, Skipped
  <2> QED
    BY <1>4, <2>2 DEF PromiseStep, Promise!Next
<1>5. CASE call \in Answerable /\ rc = "SUCCESS"
  <2>1. /\ Calling = call /\ Success' = call
        /\ Progress[call] = "answered" \/ call \in Skipped'
        /\ Skipped' \in {Skipped, Skipped \cup {call}}
    BY <1>1, <1>5, AnswerableIs DEF Calling, Success, Progress, Skipped
  <2>2. Promise!Succeed(call)
    BY <1>2, <2>1 DEF Promise!Succeed, Calling, Success, Progress, Skipped
  <2> QED
    BY <1>5, <2>2 DEF PromiseStep, Promise!Next
<1> QED
  BY <1>3, <1>4, <1>5

LEMMA RenewPromise == ASSUME Running, Promised, NEW r \in Requests, Renew(r) PROVE PromiseStep
<1>1. /\ UNCHANGED <<call, ret>> /\ pc = "idle"
      /\ sends' = [sends EXCEPT ![r] = 0] /\ answered' = answered \ {r}
      /\ skipped' = skipped \ {r}
  BY DEF Renew, call_vars
<1>2. Calling = NoCall /\ Calling' = Calling /\ Success' = Success
  BY <1>1, Idle DEF Running, Calling, Success
<1>3. sends \in [Requests -> 0..2] /\ sends'[r] = 0 /\ \A q \in Requests : q # r => sends'[q] = sends[q]
  BY <1>1 DEF Promised
<1>4. CASE r \in Answerable
  <2>1. Progress' = [Progress EXCEPT ![r] = "new"]
    <3>1. <<"new", "sent", "sent twice">>[sends'[r] + 1] = "new" /\ r \notin answered'
      <4>1. <<"new", "sent", "sent twice">>[0 + 1] = "new"
        OBVIOUS
      <4>2. r \notin answered'
        BY <1>1
      <4> QED
        BY <1>3, <4>1, <4>2
    <3>2. \A q \in Answerable : q # r => sends'[q] = sends[q] /\ (q \in answered' <=> q \in answered)
      BY <1>1, <1>3, AnswerableIs
    <3> QED
      BY <3>1, <3>2 DEF Progress
  <2>2. Promise!Renew(r)
    BY <1>1, <1>2, <2>1 DEF Promise!Renew, Calling, Success, Progress, Skipped
  <2> QED
    BY <1>4, <2>2 DEF PromiseStep, Promise!Next
<1>5. CASE r \notin Answerable
  <2>1. \A q \in Answerable : sends'[q] = sends[q] /\ (q \in answered' <=> q \in answered)
    BY <1>1, <1>3, <1>5, AnswerableIs
  <2>2. Progress' = Progress
    BY <2>1 DEF Progress
  <2>3. Skipped' = Skipped
    BY <1>1, <1>5 DEF Skipped
  <2> QED
    BY <1>2, <2>2, <2>3 DEF PromiseStep
<1> QED
  BY <1>4, <1>5

LEMMA InitPromise == ASSUME Running, MqttClient_Init PROVE PromiseStep
<1>1. call' = NoCall /\ ret' = NoRet /\ UNCHANGED <<sends, answered, skipped>> /\ pc \in {"idle", "astray"}
  BY DEF MqttClient_Init
<1>2. Calling' = NoCall /\ Success' = NoCall /\ Progress' = Progress
  BY <1>1, Idle DEF Calling, Success, Progress, Skipped
<1>3. CASE call \in Answerable
  <2>1. Calling = call /\ Success = NoCall
    BY <1>1, <1>3, RunningFails, Idle DEF Calling, Running
  <2>2. Promise!Fail(call)
    BY <1>1, <1>2, <2>1 DEF Promise!Fail, Calling, Success, Progress, Skipped
  <2> QED
    BY <1>3, <2>2 DEF PromiseStep, Promise!Next
<1>4. CASE call \notin Answerable
  <2>1. Promise!CallOther
    BY <1>1, <1>2, <1>4 DEF Promise!CallOther, Calling, Success, Progress, Skipped
  <2> QED
    BY <2>1 DEF PromiseStep, Promise!Next
<1> QED
  BY <1>3, <1>4

LEMMA SendPromise ==
  ASSUME Running, Promised, Promised', NEW r \in Answerable, Sends(r), skipped' = skipped
  PROVE  PromiseStep
<1>1. /\ UNCHANGED <<call, ret, answered>> /\ call = r /\ r \in Requests
      /\ sends[r] = 0 /\ sends \in [Requests -> 0..2]
      /\ sends' = [q \in Requests |-> IF q = r THEN AtMost(sends[q] + 1, 2) ELSE sends[q]]
  BY AnswerableIs DEF Sends, call_vars, Promised, SentOnce
<1>2. r \notin answered /\ sends'[r] = 1 /\ \A q \in Requests : q # r => sends'[q] = sends[q]
  <2>1. AtMost(0 + 1, 2) = 1
    BY DEF AtMost
  <2> QED
    BY <1>1, <2>1 DEF Promised
<1>3. Progress[r] = "new" /\ Progress' = [Progress EXCEPT ![r] = "sent"]
  <2>1. ProgressTold /\ ProgressTold'
    BY PromisedProgress, PTL
  <2>2. Progress[r] = "new"
    BY <1>1, <1>2, <2>1 DEF ProgressTold
  <2>3. \A q \in Answerable : q # r => sends'[q] = sends[q] /\ (q \in answered' <=> q \in answered)
    BY <1>1, <1>2, AnswerableIs
  <2>4. r \notin answered' /\ sends'[r] = 1
    BY <1>1, <1>2
  <2> QED
    BY <2>1, <2>2, <2>3, <2>4 DEF ProgressTold
<1>4. Calling = r /\ Calling' = Calling /\ Success' = Success /\ Skipped' = Skipped
  BY <1>1 DEF Calling, Success, Skipped
<1>5. Promise!Send(r)
  BY <1>3, <1>4 DEF Promise!Send, Calling, Success, Progress, Skipped
<1> QED
  BY <1>5 DEF PromiseStep, Promise!Next

LEMMA AnswerStep ==
  ASSUME NEW S \in SUBSET Answerable, Promise!Answer(S) PROVE PromiseStep
BY DEF PromiseStep, Promise!Next

LEMMA ReadPromise ==
  ASSUME Running, Promised, Promised', UNCHANGED <<call, ret, sends, skipped>>, PacketRead
  PROVE  PromiseStep
<1>1. PICK S \in SUBSET Answerable : S = {r \in Answerable : r \in answered' /\ r \notin answered}
  OBVIOUS
<1>2. answered' = answered \cup {r \in Requests : sends[r] > 0 /\ IsAnswer(Head(inq), r)}
  BY DEF PacketRead
<1>3. \A r \in S : sends[r] = 1
  BY <1>1, <1>2 DEF Promised, SentOnce
<1>4. ProgressTold /\ ProgressTold'
  BY PromisedProgress, PTL
<1>5. \A r \in S : Progress[r] = "sent"
  BY <1>1, <1>3, <1>4 DEF ProgressTold
<1>6. Progress' = [r \in Answerable |-> IF r \in S THEN "answered" ELSE Progress[r]]
  BY <1>1, <1>2, <1>4 DEF ProgressTold
<1>7. Promise!Answer(S)
  BY <1>5, <1>6 DEF Promise!Answer, Calling, Success, Progress, Skipped
<1> QED
  BY <1>7, AnswerStep

LEMMA CheckPromise ==
  ASSUME Running, Promised, pc \in {"handle", "ack"}, Check, UNCHANGED <<sends, answered, skipped>>
  PROVE  PromiseStep
<1>1. CASE Return("SUCCESS") /\ (call = WaitMessage \/ IsAnswer(msg.pkt, call))
  <2>1. call \in Answerable => call \in answered \cup skipped
    BY <1>1, Idle DEF Promised
  <2> QED
    BY <1>1, <2>1, ReturnPromise DEF RC
<1>2. CASE UNCHANGED call_vars
  BY <1>2, QuietPromise DEF call_vars
<1> QED
  BY <1>1, <1>2 DEF Check

LEMMA SkipStep ==
  ASSUME Running, call \in Answerable, UNCHANGED <<call, ret, sends, answered>>,
         skipped' = skipped \cup ({call} \cap Requests)
  PROVE  PromiseStep
<1>1. Promise!Skip(call)
  BY AnswerableIs DEF Promise!Skip, Calling, Success, Progress, Skipped
<1> QED
  BY <1>1 DEF PromiseStep, Promise!Next

\* A call whose write took nothing returns, waits for an answer all the same, or goes on.
LEMMA WritesNothingPromise ==
  ASSUME Running, Promised, WritesNothing
  PROVE  PromiseStep
<1>1. /\ pc \in {"write", "ack"} /\ UNCHANGED <<sends, answered>>
      /\ skipped' = IF pc = "write" THEN skipped \cup ({call} \cap Requests) ELSE skipped
  BY DEF WritesNothing
<1>2. CASE pc = "write" /\ Return("SUCCESS")
  <2>1. call \in Answerable => call \in answered \cup skipped'
    BY <1>1, <1>2, AnswerableIs
  <2> QED
    BY <1>1, <1>2, <2>1, ReturnPromise DEF RC
<1>3. CASE pc = "write" /\ UNCHANGED call_vars
  <2>1. CASE call \in Answerable
    BY <1>1, <1>3, <2>1, SkipStep DEF call_vars
  <2>2. CASE call \notin Answerable
    <3>1. Skipped' = Skipped
      BY <1>1, <1>3, <2>2 DEF Skipped
    <3> QED
      BY <1>1, <1>3, <3>1 DEF PromiseStep, Calling, Success, Progress, call_vars
  <2> QED
    BY <2>1, <2>2
<1>4. CASE pc = "ack" /\ Check
  BY <1>1, <1>4, CheckPromise
<1> QED
  BY <1>2, <1>3, <1>4 DEF WritesNothing, ReturnsNothing, PublishGoesOn

LEMMA ClientPromise ==
  ASSUME IInv, Running, Writing, Promised, Promised', Client
  PROVE  PromiseStep
<1>1. ASSUME NEW n \in 1 .. Largest, NetWrite(n) PROVE PromiseStep
  <2>1. ASSUME \A r \in Answerable : sends'[r] = sends[r], answered' = answered,
               \/ UNCHANGED <<call, ret>>
               \/ Return("SUCCESS") /\ call \notin Answerable
               \/ Return("SUCCESS") /\ pc = "ack" /\ IsAnswer(msg.pkt, call)
        PROVE  PromiseStep
    <3>1. pc # "idle"
      BY <1>1 DEF NetWrite
    <3>2. pc = "ack" /\ IsAnswer(msg.pkt, call) /\ call \in Answerable => call \in answered \cup skipped
      BY DEF Promised
    <3>3. skipped' = skipped
      BY <1>1 DEF NetWrite
    <3> QED
      BY <2>1, <3>1, <3>2, <3>3, QuietPromise, ReturnPromise DEF RC
  <2>2. skipped' = skipped
    BY <1>1 DEF NetWrite
  <2> QED
    BY <1>1, <2>1, <2>2, NetWriteSends, SendPromise
<1>2. ASSUME NEW n \in 1 .. Largest, NetRead(n) PROVE PromiseStep
  <2>1. UNCHANGED <<call, ret, sends, skipped>> /\ (PacketRead \/ answered' = answered)
    BY <1>2 DEF NetRead, ReadFull, HeaderRead, call_vars, struct_vars
  <2> QED
    BY <2>1, ReadPromise, QuietPromise
<1>3. CASE HandlePublish \/ HandleOther
  <2>1. pc = "handle" /\ UNCHANGED <<sends, answered, skipped>> /\ (Check \/ UNCHANGED call_vars)
    BY <1>3 DEF HandlePublish, HandleOther
  <2> QED
    BY <2>1, CheckPromise, QuietPromise DEF call_vars
<1>4. CASE NetFails \/ OutOfBuffer \/ ReadsNothing
  <2>1. PICK rc \in RC : /\ Return(rc)
                         /\ \/ rc # "SUCCESS" /\ skipped' = skipped
                            \/ rc = "SUCCESS" /\ skipped' = skipped \cup ({call} \cap Requests)
    BY <1>4 DEF NetFails, OutOfBuffer, ReadsNothing, RC, history
  <2>2. UNCHANGED <<sends, answered>> /\ pc # "idle"
    BY <1>4 DEF NetFails, OutOfBuffer, ReadsNothing, InPosition, history
  <2>3. rc = "SUCCESS" /\ call \in Answerable => call \in answered \cup skipped'
    BY <2>1, AnswerableIs
  <2> QED
    BY <2>1, <2>2, <2>3, ReturnPromise
<1>5. CASE WriteAstray \/ ReadAstray
  BY <1>5, QuietPromise DEF WriteAstray, ReadAstray, call_vars, history
<1> QED
  BY <1>1, <1>2, <1>3, <1>4, <1>5, WritesNothingPromise DEF Client

LEMMA NextPromise ==
  ASSUME IInv, Running, Writing, Promised, Promised', [Next]_vars
  PROVE  PromiseStep
<1>1. CASE MqttClient_NetConnect \/ MqttClient_NetDisconnect \/ UNCHANGED vars
           \/ \E p \in ServerSends : ServerPublishes(p)
  BY <1>1, QuietPromise
     DEF MqttClient_NetConnect, MqttClient_NetDisconnect, ServerPublishes, vars, call_vars, history
<1> QED
  BY <1>1, StartPromise, RenewPromise, InitPromise, ClientPromise DEF Next, Application

-------------------------------------------------------------------------------
(* Theorems *)

\* The invariant of the four theorems below about the whole client.
Inv ==
  /\ IInv
  /\ Running
  /\ Reading
  /\ Writing
  /\ Kept
  /\ TroubleOnlyAfterCut
  /\ Promised
  /\ skipped \subseteq Requests

LEMMA InitInv == Init => Inv
<1> SUFFICES ASSUME Init PROVE Inv
  OBVIOUS
<1>1. /\ pc = "idle" /\ call = NoCall /\ ret = NoRet /\ calls = 0 /\ read = 0 /\ off = 0
      /\ msg.stat = "BEGIN" /\ packet.stat = "BEGIN" /\ inq = <<>> /\ ~cut
      /\ stat = [r \in Requests |-> "BEGIN"] /\ sends = [r \in Requests |-> 0]
      /\ answered = {} /\ skipped = {}
      /\ part = [r \in Requests |-> [pos |-> 0, len |-> 0]]
  BY DEF Init, Blank, Fresh
<1>2. Running
  BY <1>1, BuffersAssumption DEF Running, NoRet, RC
<1>3. Reading /\ ReadsOn
  BY <1>1, BuffersAssumption DEF Reading, ReadsOn
<1>4. Writing /\ WritesOn
  <2>1. /\ write = [pos |-> 0, len |-> 0] /\ txbuf = [pkt |-> NoPacket, at |-> 0]
        /\ wire = [pkt |-> NoPacket, n |-> Size(NoPacket)]
    BY DEF Init, Blank
  <2>2. /\ write \in [pos : 0 .. TX_BUF_LEN - 1, len : 0 .. TX_BUF_LEN]
        /\ txbuf \in [pkt : ToWrite, at : Nat]
    BY <2>1, FixedToWrite, BuffersAssumption
  <2>3. wire \in [pkt : ToWrite, n : Nat] /\ wire.n <= Size(wire.pkt) /\ WireWhole
    BY <2>1, FixedToWrite, WrittenSizes DEF WireWhole
  <2>4. part \in [Requests -> [pos : Nat, len : Nat]]
    BY <1>1
  <2> QED
    BY <1>1, <2>1, <2>2, <2>3, <2>4, FixedToWrite DEF Writing, PartsFit, WritesOn
<1>5. Promised
  <2>1. Len(inq) <= MAX_QUEUE
    BY <1>1, BuffersAssumption
  <2> QED
    BY <1>1, <2>1, AnswerableIs DEF Promised, SentOnce
<1>6. TroubleOnlyAfterCut
  BY <1>1 DEF TroubleOnlyAfterCut, NoRet
<1> QED
  BY <1>1, <1>2, <1>3, <1>4, <1>5, <1>6, InitIInv DEF Inv, Kept

\* Only of requests something is passed over.
LEMMA NextSkips == ASSUME skipped \subseteq Requests, [Next]_vars PROVE skipped' \subseteq Requests
<1>1. CASE Application
  BY <1>1
     DEF Application, CallRequest, MqttClient_Publish, Renew, MqttClient_Ping, MqttClient_Disconnect,
         MqttClient_WaitMessage, MqttClient_NetConnect, MqttClient_NetDisconnect, MqttClient_Init, history
<1>2. CASE Client
  BY <1>2
     DEF Client, NetWrite, WritesNothing, NetRead, WriteAstray, ReadAstray, HandlePublish, HandleOther,
         NetFails, OutOfBuffer, ReadsNothing, history
<1>3. CASE (\E p \in ServerSends : ServerPublishes(p)) \/ UNCHANGED vars
  BY <1>3 DEF ServerPublishes, history, vars
<1> QED
  BY <1>1, <1>2, <1>3 DEF Next

LEMMA NextInv == Inv /\ [Next]_vars => Inv'
<1> SUFFICES ASSUME Inv, [Next]_vars PROVE Inv'
  OBVIOUS
<1>1. IInv' /\ Running'
  BY NextIInv, NextRunning DEF Inv
<1>2. Reading' /\ Writing'
  BY NextReads, NextWrites DEF Inv, ReadsStep, WritesStep
<1>3. Kept' /\ TroubleOnlyAfterCut'
  BY NextKept, NextTrouble DEF Inv
<1>4. Promised'
  BY NextPromised DEF Inv
<1>5. skipped' \subseteq Requests
  BY NextSkips DEF Inv
<1> QED
  BY <1>1, <1>2, <1>3, <1>4, <1>5 DEF Inv

LEMMA SpecInv == Spec => []Inv
BY InitInv, NextInv, PTL DEF Spec

\* The callback gets a payload once, in order and whole, through every timeout, for messages
\* and buffers of any length.
THEOREM PayloadIsOnceInOrder == Spec => []PayloadOnceInOrder
<1>1. IInv => PayloadOnceInOrder
  BY DEF IInv, GivenBytes, PayloadOnceInOrder
<1> QED
  BY <1>1, InitIInv, NextIInv, PTL DEF Spec

\* A client whose read timed out with two bytes or more of a packet's rest read, and which then
\* forgot that it was reading one, reads nothing more before MqttClient_Init, whatever it is
\* asked and however often it connects anew.
THEOREM DeafIsForGood == Spec => DeafUntilInit
<1>1. IInv /\ [Next]_vars => [Deaf => Deaf' \/ MqttClient_Init]_vars
  <2> SUFFICES ASSUME IInv, [Next]_vars, Deaf, ~UNCHANGED vars PROVE Deaf' \/ MqttClient_Init
    OBVIOUS
  <2> QED
    BY DeafClient, DeafApplication DEF Next
<1> QED
  BY <1>1, InitIInv, NextIInv, PTL DEF Spec, DeafUntilInit

\* Positions stay inside the buffers, no packet is sent past its end or read past it, and the
\* network holds no more than its bound, for any requests, messages and lengths of buffers and
\* through every timeout, new connection and lost position.
THEOREM TypeIsSafe == Spec => []TypeOK
<1>1. Inv => TypeOK
  <2> SUFFICES ASSUME Inv PROVE TypeOK
    OBVIOUS
  <2>1. call \in Packets
    BY DEF Inv, Running, Own, Packets, NoCall
  <2>2. packet.stat \in {"BEGIN", "READ_HEAD", "READ"} /\ msg.stat \in MsgStat
    BY DEF Inv, IInv, Shapes, PacketType
  <2>3. off = 0 \/ (inq # <<>> /\ off < Size(Head(inq)))
    BY DEF Inv, Reading, InPlace
  <2>4. wire.n \in 0 .. Size(wire.pkt)
    BY WrittenSizes DEF Inv, Writing
  <2>5. write.pos \in 0 .. TX_BUF_LEN - 1 /\ write.len \in 0 .. TX_BUF_LEN
    BY DEF Inv, Writing
  <2> QED
    BY <2>1, <2>2, <2>3, <2>4, <2>5 DEF Inv, Running, Reading, Promised, TypeOK
<1> QED
  BY <1>1, SpecInv, PTL

\* However often and wherever calls time out, and whatever the network takes of what it is given:
\* unless what was left half done is written over (as the next part of a payload is, after a
\* write of nothing), forgotten or cut off by a new connection, every byte goes to its place and
\* no position is beyond its buffer.
THEOREM TroubleNeedsACut == Spec => []TroubleOnlyAfterCut
<1>1. Inv => TroubleOnlyAfterCut
  BY DEF Inv
<1> QED
  BY <1>1, SpecInv, PTL

\* A request is sent once however often its call is made again, and the call succeeds only when
\* an answer of its own was read, or when a read or write of nothing passed for success: every
\* step of the client is one of MqttCall, or none.
THEOREM PromiseIsKept == Spec => KeepsPromise
<1>1. Init => Promise!Init
  <2> SUFFICES ASSUME Init PROVE Promise!Init
    OBVIOUS
  <2>1. call = NoCall /\ ret = NoRet /\ sends = [r \in Requests |-> 0] /\ answered = {} /\ skipped = {}
    BY DEF Init
  <2>2. <<"new", "sent", "sent twice">>[0 + 1] = "new"
    OBVIOUS
  <2>3. \A r \in Answerable : <<"new", "sent", "sent twice">>[sends[r] + 1] = "new"
    BY <2>1, <2>2, AnswerableIs
  <2>4. Calling = NoCall /\ Success = NoCall /\ Progress = [r \in Answerable |-> "new"]
    BY <2>1, <2>3, Idle DEF Calling, Success, Progress, Skipped
  <2> QED
    BY <2>1, <2>4 DEF Promise!Init, Calling, Success, Progress, Skipped
<1>2. Inv /\ Inv' /\ [Next]_vars => [Promise!Next]_(Promise!vars)
  BY NextPromise DEF Inv, PromiseStep, Promise!vars, Calling, Progress, Skipped, Success
<1> QED
  BY <1>1, <1>2, SpecInv, PTL DEF Spec, KeepsPromise, Promise!Spec
=============================================================================
