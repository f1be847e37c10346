---------------------------- MODULE ClientBroker ----------------------------
(***************************************************************************)
(* An MQTT client of mqtt_client.c and the broker of tiny_broker.c, with   *)
(* frames between them that may be lost.  The client makes one request at  *)
(* a time and its call again until it succeeds or it gives the request up; *)
(* its calls are those of MqttClient with whole packets.  The broker is    *)
(* that of TinyBroker, handed what the decoders of Frames read.            *)
(***************************************************************************)
EXTENDS Frames, FiniteSets

CONSTANTS
  Requests,          \* what the application asks of the client
  Topics,            \* topics of the messages
  MAX_CONN_CLIENTS,  \* records of the broker
  MAX_FLIGHT         \* bound: frames on their way, in each direction

ASSUME TablesAssumption == MAX_CONN_CLIENTS \in 1..254 /\ MAX_SUBS_TOPIC \in 1..254
ASSUME FlightAssumption == MAX_FLIGHT \in Nat \ {0}

MAX_FRAME_SIZE == 240

\* What the encoder of a PUBLISH takes: it refuses the identifier 0.
EncodedPublish(p) ==
  /\ p.qos \in 0..2
  /\ p.qos > 0 => p.packet_id \in Nat \ {0} /\ p.packet_id < 65536
  /\ p.topic_name \in Seq(0..255) /\ p.buffer \in Seq(0..255)

\* What the encoders of the others take: texts, and numbers of two bytes.  The texts of a
\* CONNECT also fit the 32 bytes each has in a record of the broker, which copies them by the
\* length it was sent, and its id has no zero byte: longer ones run into the fields behind.
FieldsFit(list) == \A i \in DOMAIN list : Len(list[i]) <= 32

EncodedConnect(c) ==
  /\ c.clean_session \in BOOLEAN
  /\ c.keep_alive_sec \in Nat /\ c.keep_alive_sec < 65536
  /\ c.client_id \in Seq(0..255) /\ Len(c.client_id) < 32 /\ 0 \notin Range(c.client_id)
  /\ c.lwt \in Seq(Seq(0..255)) /\ Len(c.lwt) \in {0, 2} /\ FieldsFit(c.lwt)
  /\ c.username \in Seq(Seq(0..255)) /\ Len(c.username) \in {0, 1} /\ FieldsFit(c.username)
  /\ c.password \in Seq(Seq(0..255)) /\ Len(c.password) \in {0, 1} /\ FieldsFit(c.password)

EncodedSubscribe(s) ==
  /\ s.packet_id \in Nat /\ s.packet_id < 65536
  /\ s.topics \in Seq([name : Seq(0..255), qos : 0..2])

EncodedUnsubscribe(u) ==
  /\ u.packet_id \in Nat /\ u.packet_id < 65536
  /\ u.topics \in Seq(Seq(0..255))

\* Frames fit the broker's buffer.
ASSUME RequestsAssumption ==
  \A r \in Requests :
    /\ r.type \in {"CONNECT", "PUBLISH", "SUBSCRIBE", "UNSUBSCRIBE", "PINGREQ"}
    /\ r.type = "CONNECT" => EncodedConnect(r)
    /\ r.type = "PUBLISH" => EncodedPublish(r) /\ r.topic_name \in Topics
    /\ r.type = "SUBSCRIBE" => EncodedSubscribe(r)
    /\ r.type = "UNSUBSCRIBE" => EncodedUnsubscribe(r)
    /\ Len(Encode(r)) <= MAX_FRAME_SIZE

VARIABLES
  clients, pc, reply, sent,  \* TinyBroker
  req,      \* the application's present request
  stat,     \* its stat: "BEGIN" or "WAIT"
  calling,  \* is its call running?
  success,  \* did its last call return MQTT_CODE_SUCCESS?
  up,       \* frames to the broker, each as the request it encodes
  down,     \* frames to the client
  handled   \* identifiers of the QoS 1 and 2 messages the broker took (history)

broker_vars == <<clients, pc, reply, sent>>
client_vars == <<req, stat, calling, success>>
cb_vars == <<broker_vars, client_vars, up, down, handled>>

Peer == "client"

Broker == INSTANCE TinyBroker WITH
  ClientIds <- {r.client_id : r \in {r \in Requests : r.type = "CONNECT"}} \ {<<>>},
  FieldLengths <- 1..32,
  Addrs <- {Peer},
  PacketIds <- {MqttEncode_Num(r.packet_id) : r \in {r \in Requests : r.type = "PUBLISH"}}

-------------------------------------------------------------------------------
(* The client *)

Frame == [r \in Requests |-> Encode(r)]

WaitType(r) ==
  CASE r.type = "CONNECT" -> "CONNACK"
    [] r.type = "SUBSCRIBE" -> "SUBACK"
    [] r.type = "UNSUBSCRIBE" -> "UNSUBACK"
    [] r.type = "PINGREQ" -> "PINGRESP"
    [] r.type = "PUBLISH" -> IF r.qos = 1 THEN "PUBACK" ELSE "PUBCOMP"

Id(r) == IF r.type \in {"CONNECT", "PINGREQ"} THEN 0 ELSE r.packet_id
WaitsForAnswer(r) == r.type # "PUBLISH" \/ r.qos > 0

\* Mutant: the structure is cleared while its call runs.
NewRequestAnytime(r) ==
  /\ success \/ stat # "BEGIN"
  /\ req' = r /\ stat' = "BEGIN" /\ success' = FALSE
  /\ UNCHANGED <<broker_vars, calling, up, down, handled>>

\* The application takes up another request, or the same one anew.
NewRequest(r) ==
  /\ ~calling
  /\ success \/ stat # "BEGIN"
  /\ req' = r /\ stat' = "BEGIN" /\ success' = FALSE
  /\ UNCHANGED <<broker_vars, calling, up, down, handled>>

\* The frame is written; on its way it may be lost.
Write ==
  \/ Len(up) < MAX_FLIGHT /\ up' = Append(up, req)
  \/ UNCHANGED up

\* Mutant: a call made again sends the request again.
CallSendsAgain ==
  /\ ~calling /\ ~success
  /\ calling' = WaitsForAnswer(req)
  /\ success' = ~WaitsForAnswer(req)
  /\ stat' = IF WaitsForAnswer(req) THEN "WAIT" ELSE "BEGIN"
  /\ Write
  /\ UNCHANGED <<broker_vars, req, down, handled>>

\* Mutant: a call made again does not wait.
CallWaitsOnce ==
  /\ ~calling /\ ~success
  /\ stat = "BEGIN"
  /\ calling' = WaitsForAnswer(req)
  /\ success' = ~WaitsForAnswer(req)
  /\ stat' = IF WaitsForAnswer(req) THEN "WAIT" ELSE "BEGIN"
  /\ Write
  /\ UNCHANGED <<broker_vars, req, down, handled>>

\* The call: what was not sent yet is sent, and the answer is waited for.
Call ==
  /\ ~calling /\ ~success
  /\ calling' = WaitsForAnswer(req)
  /\ success' = ~WaitsForAnswer(req)
  /\ stat' = IF WaitsForAnswer(req) THEN "WAIT" ELSE "BEGIN"
  /\ IF stat = "BEGIN" THEN Write ELSE UNCHANGED up
  /\ UNCHANGED <<broker_vars, req, down, handled>>

\* A frame is not the answer: the wait begins again.
IsAnswer(frame) == FrameType(frame) = WaitType(req) /\ (Id(req) = 0 \/ PacketId(frame) = Id(req))

Receive ==
  /\ calling /\ down # <<>>
  /\ down' = Tail(down)
  /\ calling' = ~IsAnswer(Head(down))
  /\ success' = IsAnswer(Head(down))
  /\ UNCHANGED <<broker_vars, req, stat, up, handled>>

\* The call returns MQTT_CODE_ERROR_TIMEOUT.
Timeout ==
  /\ calling
  /\ calling' = FALSE
  /\ UNCHANGED <<broker_vars, req, stat, success, up, down, handled>>

-------------------------------------------------------------------------------
(* The broker *)

\* A packet the broker sends, as bytes.
Bytes(p) ==
  CASE p.type = "CONNACK" -> encode_conn_ack(p.session_pres, p.conn_code)
    [] p.type = "PUBACK" -> encode_publish_ack(p.packet_id)

\* net->send of what the dispatcher sent: into `down`, or lost.
Answered ==
  \/ UNCHANGED down
  \/ /\ Len(down) < MAX_FLIGHT
     /\ \E p \in sent' : down' = Append(down, Bytes(p))

\* What strcmp finds behind the client id: the length of the text that follows, a byte of
\* at most 32 and one of 0.  With no such text it is the zero of the cleared packet buffer.
LengthBehind(texts) == IF Len(texts) > 1 /\ texts[2] # <<>> THEN <<Len(texts[2])>> ELSE <<>>

ConnectFrame(d) ==
  [client_id |-> d.texts[1], behind |-> LengthBehind(d.texts),
   cleans_session |-> d.cleans_session, proto_level |-> d.proto_level]

\* What the decoders make of a frame.
Decode(frame) ==
  CASE FrameType(frame) = "CONNECT" -> broker_decode_connect(frame)
    [] FrameType(frame) = "PUBLISH" -> broker_decode_publish(frame)
    [] FrameType(frame) = "SUBSCRIBE" -> broker_decode_subscribe(frame)
    [] FrameType(frame) = "UNSUBSCRIBE" -> broker_decode_unsubscribe(frame)
    [] FrameType(frame) = "PINGREQ" -> {}
DecodedOf == [r \in Requests |-> Decode(Frame[r])]

\* broker_packets_dispatcher takes the frame of r, as d.
HandleConnect(r, d) == r.type = "CONNECT" /\ Broker!Connect(ConnectFrame(d), Peer)

HandlePublish(r, d) ==
  /\ r.type = "PUBLISH"
  /\ LET pub_pck == [name |-> d.name, QoS |-> d.QoS, packet_id |-> d.packet_id]
     IN  Broker!Publish(pub_pck, Peer) \/ Broker!PublishFault(pub_pck)

\* Topics that were read or stored astray are not followed further: with no client
\* connected, the list has no other effect than a fault.
HandleSubscribe(r, d) ==
  /\ r.type = "SUBSCRIBE"
  /\ Broker!Subscribe(d.topics, Peer) \/ Broker!NullClientFault(Peer)

HandleUnsubscribe(r, d) ==
  /\ r.type = "UNSUBSCRIBE"
  /\ Broker!Unsubscribe(d.topics, Peer) \/ Broker!NullClientFault(Peer)

HandlePing(r) == r.type = "PINGREQ" /\ Broker!NoEffect

Dispatch ==
  /\ up # <<>>
  /\ LET r == Head(up)
         d == DecodedOf[r]
     IN  HandleConnect(r, d) \/ HandlePublish(r, d) \/ HandleSubscribe(r, d)
           \/ HandleUnsubscribe(r, d) \/ HandlePing(r)
  /\ up' = Tail(up)
  /\ handled' = handled \cup {r.packet_id : r \in {r \in {Head(up)} : r.type = "PUBLISH" /\ r.qos > 0}}
  /\ Answered
  /\ UNCHANGED client_vars

SendConnAck == Broker!SendConnAck /\ Answered /\ UNCHANGED <<client_vars, up, handled>>

Init ==
  /\ Broker!Init
  /\ req \in Requests
  /\ stat = "BEGIN" /\ calling = FALSE /\ success = FALSE
  /\ up = <<>> /\ down = <<>> /\ handled = {}

Next ==
  \/ \E r \in Requests : NewRequest(r)
  \/ Call \/ Receive \/ Timeout
  \/ Dispatch \/ SendConnAck

\* The application goes on calling, the broker handling; a client that waits reads what is
\* there before its timeout, if not in each call.
Spec ==
  /\ Init /\ [][Next]_cb_vars
  /\ WF_cb_vars(Call) /\ WF_cb_vars(Timeout) /\ SF_cb_vars(Receive)
  /\ WF_cb_vars(Dispatch) /\ WF_cb_vars(SendConnAck)

-------------------------------------------------------------------------------
(* Properties *)

\* Type invariant of the client and the frames in flight; a call that runs waits for an answer.
TypeOK ==
  /\ Broker!TypeOK
  /\ req \in Requests
  /\ stat \in {"BEGIN", "WAIT"}
  /\ calling => stat = "WAIT" /\ ~success
  /\ Len(up) <= MAX_FLIGHT /\ Len(down) <= MAX_FLIGHT
  /\ \A i \in DOMAIN up : up[i] \in Requests
  /\ \A i \in DOMAIN down : FrameType(down[i]) \in {"CONNACK", "PUBACK"}

\* What the decoder makes of the frame of r is what the client put there.
ReadAsWritten(r, d) ==
  CASE r.type = "CONNECT" ->
         /\ d.texts = <<r.client_id>> \o r.lwt \o r.username \o r.password
         /\ d.cleans_session = r.clean_session /\ d.keep_alive = r.keep_alive_sec
         /\ d.proto_level = 4
    [] r.type = "PUBLISH" ->
         /\ d.name = r.topic_name /\ d.QoS = r.qos /\ d.pld = r.buffer
         /\ r.qos > 0 => d.packet_id = MqttEncode_Num(r.packet_id)
    [] r.type \in {"SUBSCRIBE", "UNSUBSCRIBE"} ->
         ~d.astray /\ d.packet_id = r.packet_id /\ d.topics = r.topics
    [] OTHER -> TRUE

\* The broker reads every frame as the client wrote it, but for a SUBSCRIBE of more topics than
\* it has places for and an UNSUBSCRIBE of two topics or more, which it never reads right.
ReadsWhatFits ==
  \A i \in DOMAIN up :
    ReadAsWritten(up[i], DecodedOf[up[i]]) <=>
      /\ up[i].type = "SUBSCRIBE" => Len(up[i].topics) <= MAX_SUBS_TOPIC
      /\ up[i].type = "UNSUBSCRIBE" => Len(up[i].topics) <= 1

\* No call of MqttClient_Subscribe, MqttClient_Unsubscribe or MqttClient_Ping succeeds, nor one
\* that publishes with QoS 2; one with QoS 1 only by the PUBACK of a message whose identifier
\* has its bytes the other way round, be it another message.
SuccessIsExplained ==
  success =>
    \/ req.type = "CONNECT"
    \/ /\ req.type = "PUBLISH"
       /\ \/ req.qos = 0
          \/ req.qos = 1 /\ \E id \in handled : MqttEncode_Num(id) = Reverse(MqttEncode_Num(req.packet_id))

\* Sent, and nothing on its way any more: the call may be made again and again, but sends
\* nothing and never succeeds.
Stranded == stat = "WAIT" /\ ~success /\ up = <<>> /\ down = <<>> /\ pc # "delay"
StrandedForGood == [][Stranded => Stranded' \/ \E r \in Requests : NewRequest(r)]_cb_vars

\* The requests this broker answers at all.
IsAnswered(r) ==
  r.type = "CONNECT" \/ (r.type = "PUBLISH" /\ r.qos = 1 /\ r.packet_id \div 256 = r.packet_id % 256)

\* Despite the five seconds before a CONNACK and timeouts shorter than that: a request that is
\* kept up, and not begun anew, succeeds, unless the broker has crashed or a frame was lost.
KeptUpSucceeds ==
  <>[][stat = "WAIT" => stat' = "WAIT"]_cb_vars /\ <>[]IsAnswered(req)
    => <>[](success \/ Stranded \/ pc = "hardfault")
=============================================================================
