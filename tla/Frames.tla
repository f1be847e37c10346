------------------------------- MODULE Frames -------------------------------
(***************************************************************************)
(* MQTT frames byte by byte, as the client writes them (mqtt_packet.c) and *)
(* the broker reads them (tiny_broker.c).  Texts are sequences of bytes.   *)
(* A frame is numbered from 1 here and from 0 in the code: a position of   *)
(* the code is one less.                                                   *)
(***************************************************************************)
EXTENDS RemainLen, SequencesExt

CONSTANT MAX_SUBS_TOPIC    \* places for topics in a decoded SUBSCRIBE or UNSUBSCRIBE

ASSUME MaxSubsTopicAssumption == MAX_SUBS_TOPIC \in Nat \ {0}

Types == <<"CONNECT", "CONNACK", "PUBLISH", "PUBACK", "PUBREC", "PUBREL", "PUBCOMP",
           "SUBSCRIBE", "SUBACK", "UNSUBSCRIBE", "UNSUBACK", "PINGREQ", "PINGRESP", "DISCONNECT">>
TypeNr(type) == CHOOSE t \in DOMAIN Types : Types[t] = type
FrameType(frame) == Types[frame[1] \div 16]

Bit(byte, weight) == (byte \div weight) % 2 = 1

-------------------------------------------------------------------------------
(* The client's encoders *)

MqttEncode_Num(n) == <<n \div 256, n % 256>>
MqttEncode_String(s) == MqttEncode_Num(Len(s)) \o s

\* The fixed header, with the flags that retain, QoS and duplicate make, before the rest.
WithHeader(type, flags, rest) ==
  <<16 * TypeNr(type) + flags>> \o MqttEncode_RemainLen(Len(rest)) \o rest

Flag(set, weight) == IF set THEN weight ELSE 0
Texts(list) == FlattenSeq([i \in DOMAIN list |-> MqttEncode_String(list[i])])

\* lwt holds topic and message of the will, or nothing; username and password one text or none.
MqttEncode_Connect(c) ==
  WithHeader("CONNECT", 0,
    MqttEncode_String(<<77, 81, 84, 84>>) \o <<4>>
      \o <<Flag(c.clean_session, 2) + Flag(c.lwt # <<>>, 4) + Flag(c.password # <<>>, 64)
             + Flag(c.username # <<>>, 128)>>
      \o MqttEncode_Num(c.keep_alive_sec)
      \o MqttEncode_String(c.client_id) \o Texts(c.lwt \o c.username \o c.password))

MqttEncode_Publish(p) ==
  WithHeader("PUBLISH", 2 * p.qos,
    MqttEncode_String(p.topic_name)
      \o (IF p.qos > 0 THEN MqttEncode_Num(p.packet_id) ELSE <<>>) \o p.buffer)

MqttEncode_Subscribe(s) ==
  WithHeader("SUBSCRIBE", 2,
    MqttEncode_Num(s.packet_id)
      \o FlattenSeq([i \in DOMAIN s.topics |->
                       MqttEncode_String(s.topics[i].name) \o <<s.topics[i].qos>>]))

MqttEncode_Unsubscribe(u) ==
  WithHeader("UNSUBSCRIBE", 2, MqttEncode_Num(u.packet_id) \o Texts(u.topics))

MqttEncode_Ping == WithHeader("PINGREQ", 0, <<>>)

Encode(r) ==
  CASE r.type = "CONNECT" -> MqttEncode_Connect(r)
    [] r.type = "PUBLISH" -> MqttEncode_Publish(r)
    [] r.type = "SUBSCRIBE" -> MqttEncode_Subscribe(r)
    [] r.type = "UNSUBSCRIBE" -> MqttEncode_Unsubscribe(r)
    [] r.type = "PINGREQ" -> MqttEncode_Ping

-------------------------------------------------------------------------------
(* The broker's decoders *)

\* pos of the decoders is a uint8_t.
Byte(n) == n % 256

Num(frame, pos) == 256 * frame[pos + 1] + frame[pos + 2]
Text(frame, pos, len) == SubSeq(frame, pos + 1, pos + len)

\* Where the variable header begins, and fix_head.rem_len.
VarHead(frame) == 1 + BytesTaken(Tail(frame))
rem_len(frame) == decode_pck_len(Tail(frame))

\* The n texts from pos on.
Strings(frame, pos, n) ==
  LET at[i \in 0 .. n] ==
        IF i = 0 THEN pos ELSE Byte(at[i - 1] + 2 + Num(frame, at[i - 1]))
  IN  [i \in 1 .. n |-> Text(frame, at[i - 1] + 2, Num(frame, at[i - 1]))]

broker_decode_connect(frame) ==
  LET level == Byte(VarHead(frame) + 2 + Num(frame, VarHead(frame)))
      flags == frame[level + 2]
      texts == 1 + (IF Bit(flags, 4) THEN 2 ELSE 0) + (IF Bit(flags, 128) THEN 1 ELSE 0)
                 + (IF Bit(flags, 64) THEN 1 ELSE 0)
  IN  [proto_level |-> frame[level + 1],
       cleans_session |-> Bit(flags, 2),
       last_will |-> Bit(flags, 4), user_name |-> Bit(flags, 128), pswd |-> Bit(flags, 64),
       keep_alive |-> Num(frame, level + 2),
       texts |-> Strings(frame, level + 4, texts)]

\* The identifier is left as its two bytes; with QoS 0 it is not set.
broker_decode_publish(frame) ==
  LET len == Num(frame, VarHead(frame))
      id == Byte(VarHead(frame) + 2 + len)
      qos == (frame[1] \div 2) % 4
      pld == Byte(id + (IF qos > 0 THEN 2 ELSE 0))
  IN  [name |-> Text(frame, VarHead(frame) + 2, len), QoS |-> qos,
       packet_id |-> IF qos > 0 THEN <<frame[id + 1], frame[id + 2]>> ELSE <<0, 0>>,
       pld |-> SubSeq(frame, pld + 1, Len(frame))]

\* Mutant: the next topic begins where the QoS byte of a SUBSCRIBE is.
AfterName(qos) == Byte(qos)

\* Where the next topic begins: behind the byte for QoS at position qos.
AfterTopic(qos) == Byte(qos + 1)

\* One turn of the loop over the topics of a list, from the state [pos, topics, astray]:
\* `astray` once a topic is read from beyond the frame or written beyond pld_topics.
NextTopic(frame, s) ==
  IF s.pos >= rem_len(frame) + 2 \/ s.astray THEN s
  ELSE IF s.pos + 2 > Len(frame) \/ Len(s.topics) = MAX_SUBS_TOPIC THEN [s EXCEPT !.astray = TRUE]
  ELSE LET len == Num(frame, s.pos)
           qos == s.pos + 2 + len
       IN  IF qos > Len(frame) THEN [s EXCEPT !.astray = TRUE]
           ELSE [pos |-> AfterTopic(qos), astray |-> FALSE,
                 topics |-> Append(s.topics, [name |-> Text(frame, s.pos + 2, len), qosAt |-> qos])]

\* The whole loop.
TopicList(frame) ==
  LET after[turns \in 0 .. MAX_SUBS_TOPIC + 1] ==
        IF turns = 0 THEN [pos |-> VarHead(frame) + 2, topics |-> <<>>, astray |-> FALSE]
        ELSE NextTopic(frame, after[turns - 1])
  IN  after[MAX_SUBS_TOPIC + 1]

\* qos is a pointer: what it points at is read, behind the last topic of an UNSUBSCRIBE it
\* is not.
broker_decode_subscribe(frame) ==
  LET list == TopicList(frame)
  IN  [packet_id |-> Num(frame, VarHead(frame)),
       astray |-> list.astray \/ \E i \in DOMAIN list.topics : list.topics[i].qosAt >= Len(frame),
       topics |-> [i \in DOMAIN list.topics |->
                     [name |-> list.topics[i].name,
                      qos |-> IF list.topics[i].qosAt < Len(frame)
                              THEN frame[list.topics[i].qosAt + 1] ELSE 0]]]

broker_decode_unsubscribe(frame) ==
  LET list == TopicList(frame)
  IN  [packet_id |-> Num(frame, VarHead(frame)), astray |-> list.astray,
       topics |-> [i \in DOMAIN list.topics |-> list.topics[i].name]]

-------------------------------------------------------------------------------
(* The broker's answers, and what the client reads of them *)

encode_conn_ack(session_present, code) ==
  <<16 * TypeNr("CONNACK"), 2, Flag(session_present, 1), code>>

\* packet_id as the two bytes in memory.
encode_publish_ack(packet_id) == <<16 * TypeNr("PUBACK"), 2>> \o packet_id

\* MqttDecode_PublishResp and the others: the packet identifier.
PacketId(frame) == IF FrameType(frame) = "CONNACK" THEN 0 ELSE Num(frame, VarHead(frame))
=============================================================================
