------------------------------ MODULE TinyBroker ------------------------------
(***************************************************************************)
(* The MQTT broker of tiny_broker/tiny_broker.c: the table of client       *)
(* records and broker_packets_dispatcher, one action per packet type.      *)
(*                                                                         *)
(* The dispatcher runs to completion on one thread.  Its only pause is the *)
(* _delay_ms(5000) between the update of the client table and the CONNACK, *)
(* so a CONNECT is two steps: Connect and SendConnAck.  A memory access    *)
(* outside RAM ends in HardFault_Handler (stm32f1xx_it.c), an endless loop.*)
(***************************************************************************)
EXTENDS TopicTable, FiniteSets

CONSTANTS
  ClientIds,         \* non-empty client identifiers, shorter than MAX_ID_SIZE
  FieldLengths,      \* lengths, but 0, of the field behind a client identifier
  Addrs,             \* the peers' addresses (sockaddr_t)
  Topics,            \* topic names that packets carry
  PacketIds,         \* packet identifiers, as pairs <<high byte, low byte>>
  MAX_CONN_CLIENTS   \* records in the client table

ASSUME MaxConnClientsAssumption == MAX_CONN_CLIENTS \in 1..254
\* Identifiers are texts without a zero byte; fields fit their 32 bytes in a record.
ASSUME ClientIdsAssumption == \A id \in ClientIds : id \in Seq(1..255) /\ id # <<>>
ASSUME FieldLengthsAssumption == FieldLengths \subseteq 1..32
ASSUME AddrsAssumption == {"stack", "zero"} \cap Addrs = {}

VARIABLES
  clients,   \* broker_t.clients
  pc,        \* "idle", "delay" (CONNECT waits before its CONNACK) or "hardfault"
  reply,     \* the CONNACK under construction and its addressee; NoReply otherwise
  sent       \* the packets the dispatcher has sent for the frame it handles

vars == <<clients, pc, reply, sent>>

-------------------------------------------------------------------------------
(* Records and frames *)

ClientSlots == 0 .. MAX_CONN_CLIENTS - 1

\* id <<>> is id[0] == 0, the mark of a free record.
EmptyClient == [id |-> <<>>, sockaddr |-> "zero", connected |-> FALSE, subs |-> EmptyTopicTable]

CONN_ACK_OK == 0
CONN_ACK_BAD_PROTO == 1
CONN_ACK_NOT_AVBL == 3
CONN_ACK_BAD_AUTH == 5
PROTO_LEVEL_MQTT311 == 4

\* A CONNECT frame.  `behind` is what stands between the client id and the next zero byte:
\* the length of a will topic, user name or password that follows, if it is not empty.  The
\* decoder left that length with its low byte first; the high one is zero.
ConnectFrames ==
  [client_id : ClientIds \cup {<<>>}, behind : {<<>>} \cup {<<len>> : len \in FieldLengths},
   cleans_session : BOOLEAN, proto_level : {3, PROTO_LEVEL_MQTT311}]

PublishFrames == [name : Topics, QoS : 0..2, packet_id : PacketIds]

SubscribeTopics == [name : Topics, qos : 0..2]

NoReply == [to |-> "zero", session_pres |-> FALSE, conn_code |-> CONN_ACK_OK]

-------------------------------------------------------------------------------
(* Client table *)

\* client_id points into the frame and is not terminated there: strcmp compares the
\* stored id with the id and the bytes that follow it up to a zero.
SameId(stored, conn_pck) == stored = conn_pck.client_id \o conn_pck.behind

broker_get_client_pos_by_id(tab, conn_pck) ==
  FirstSlot({i \in ClientSlots : SameId(tab[i].id, conn_pck)})

is_client_exist(tab, conn_pck) == broker_get_client_pos_by_id(tab, conn_pck) # NOT_FOUND

broker_get_client_by_socket(tab, sockaddr) ==
  FirstSlot({i \in ClientSlots : tab[i].connected /\ tab[i].sockaddr = sockaddr})

FreeClientSlots(tab) == {i \in ClientSlots : tab[i].id = <<>>}

can_broker_accept_next_client(tab) == FreeClientSlots(tab) # {}

\* Mutant: the search runs from the end of the table.
first_free_pos_from_the_end(tab) ==
  IF FreeClientSlots(tab) = {} THEN NOT_FOUND
  ELSE CHOOSE i \in FreeClientSlots(tab) : \A j \in FreeClientSlots(tab) : i >= j

\* Mutant: a record counts as free when its client is not connected.
first_free_pos_not_connected(tab) == FirstSlot({i \in ClientSlots : ~tab[i].connected})

broker_first_free_pos_for_client(tab) == FirstSlot(FreeClientSlots(tab))

broker_remove_client(tab, conn_pck) ==
  [tab EXCEPT ![broker_get_client_pos_by_id(tab, conn_pck)] = EmptyClient]

\* Mutant: the new record says that its client is connected.
create_connected_client(conn_pck) ==
  [EmptyClient EXCEPT !.id = conn_pck.client_id, !.sockaddr = "stack", !.connected = TRUE]

\* The address copied is that of the parameter, not of the peer: bytes of the stack.
\* No field says the client is connected.
broker_create_new_client(conn_pck) ==
  [EmptyClient EXCEPT !.id = conn_pck.client_id, !.sockaddr = "stack"]

is_client_authorised(conn_pck) == TRUE    \* the weak default

\* Mutant: the test for a free record lost its negation.
validate_conn_inverted(tab, conn_pck) ==
  IF conn_pck.proto_level # PROTO_LEVEL_MQTT311 THEN CONN_ACK_BAD_PROTO
  ELSE IF can_broker_accept_next_client(tab) THEN CONN_ACK_NOT_AVBL
  ELSE CONN_ACK_OK

broker_validate_conn(tab, conn_pck) ==
  IF conn_pck.proto_level # PROTO_LEVEL_MQTT311 THEN CONN_ACK_BAD_PROTO
  ELSE IF ~can_broker_accept_next_client(tab) THEN CONN_ACK_NOT_AVBL
  ELSE IF ~is_client_authorised(conn_pck) THEN CONN_ACK_BAD_AUTH
  ELSE CONN_ACK_OK

-------------------------------------------------------------------------------
(* broker_packets_dispatcher *)

\* The table after the clean-session branch of CONNECT.
CleanSessionApplies(tab, conn_pck) == conn_pck.cleans_session /\ is_client_exist(tab, conn_pck)

\* Mutant: an existing record is removed whatever the flag says.
AfterEverySession(tab, conn_pck) ==
  IF is_client_exist(tab, conn_pck) THEN broker_remove_client(tab, conn_pck) ELSE tab

AfterCleanSession(tab, conn_pck) ==
  IF CleanSessionApplies(tab, conn_pck) THEN broker_remove_client(tab, conn_pck) ELSE tab

\* add_client writes clients[NOT_FOUND] when no record is free, 120 kB above the table
\* and outside the 20 kB of RAM.
add_client(tab, new_client) ==
  [tab EXCEPT ![broker_first_free_pos_for_client(tab)] = new_client]

AddClientFaults(tab) == broker_first_free_pos_for_client(tab) = NOT_FOUND

\* The record is added whatever the verdict of the validation.
Connect(conn_pck, sockaddr) ==
  /\ pc = "idle"
  /\ LET tab == AfterCleanSession(clients, conn_pck)
     IN  IF AddClientFaults(tab)
         THEN /\ clients' = tab
              /\ pc' = "hardfault"
              /\ UNCHANGED reply
         ELSE /\ clients' = add_client(tab, broker_create_new_client(conn_pck))
              /\ reply' = [to |-> sockaddr,
                           session_pres |-> CleanSessionApplies(clients, conn_pck),
                           conn_code |-> broker_validate_conn(tab, conn_pck)]
              /\ pc' = "delay"
  /\ sent' = {}

\* Mutant: the answer is reset before it is sent.
SendConnAckAfterReset ==
  /\ pc = "delay"
  /\ sent' = {[type |-> "CONNACK", to |-> NoReply.to,
               session_pres |-> NoReply.session_pres, conn_code |-> NoReply.conn_code]}
  /\ pc' = "idle"
  /\ reply' = NoReply
  /\ UNCHANGED clients

\* After _delay_ms(5000).
SendConnAck ==
  /\ pc = "delay"
  /\ sent' = {[type |-> "CONNACK", to |-> reply.to,
               session_pres |-> reply.session_pres, conn_code |-> reply.conn_code]}
  /\ pc' = "idle"
  /\ reply' = NoReply
  /\ UNCHANGED clients

\* publish_msg_to_subscribers: strncmp is non-zero when the names DIFFER, and what is
\* sent are the bytes of the pointer variable, not those of the message.
ForwardsTo(tab, pub_pck) ==
  {i \in ClientSlots : tab[i].connected
     /\ \E j \in TopicSlots : ~IsPrefix(pub_pck.name, tab[i].subs[j].name)}

publish_msg_to_subscribers(tab, pub_pck) ==
  {[type |-> "POINTER", to |-> tab[i].sockaddr] : i \in ForwardsTo(tab, pub_pck)}

\* Mutant: the identifier is stored in the order of the network.
encode_publish_ack_in_order(pub_pck) == pub_pck.packet_id

\* The identifier was swapped to host (little-endian) order by the decoder and is
\* stored in the acknowledgement in that order.
encode_publish_ack(pub_pck) == <<pub_pck.packet_id[2], pub_pck.packet_id[1]>>

PubAcks(pub_pck, sockaddr) ==
  IF pub_pck.QoS >= 1
  THEN {[type |-> "PUBACK", to |-> sockaddr, packet_id |-> encode_publish_ack(pub_pck)]}
  ELSE {}

Publish(pub_pck, sockaddr) ==
  /\ pc = "idle"
  /\ sent' = publish_msg_to_subscribers(clients, pub_pck) \cup PubAcks(pub_pck, sockaddr)
  /\ UNCHANGED <<clients, pc, reply>>

\* With QoS 0 packet_id is an uninitialised pointer, dereferenced all the same after
\* the message went out.
PublishFault(pub_pck) ==
  /\ pc = "idle"
  /\ pub_pck.QoS = 0
  /\ sent' = publish_msg_to_subscribers(clients, pub_pck)
  /\ pc' = "hardfault"
  /\ UNCHANGED <<clients, reply>>

\* A SUBSCRIBE of a connected client fills its table; the SUBACK is built, not sent.
\* With no connected client at this address the table is read and written through NULL:
\* what is there is flash, so nothing changes.
Subscribe(topic_list, sockaddr) ==
  /\ pc = "idle"
  /\ LET c == broker_get_client_by_socket(clients, sockaddr)
     IN  clients' =
           IF c = NOT_FOUND THEN clients
           ELSE [clients EXCEPT
                  ![c].subs = add_subscriptions_from_list(@, topic_list).table]
  /\ sent' = {}
  /\ UNCHANGED <<pc, reply>>

Unsubscribe(names, sockaddr) ==
  /\ pc = "idle"
  /\ LET c == broker_get_client_by_socket(clients, sockaddr)
     IN  clients' =
           IF c = NOT_FOUND THEN clients
           ELSE [clients EXCEPT ![c].subs = delete_listed_subscriptions(@, names)]
  /\ sent' = {}
  /\ UNCHANGED <<pc, reply>>

\* ... or the access through NULL faults, if the list has a topic at all.
NullClientFault(sockaddr) ==
  /\ pc = "idle"
  /\ broker_get_client_by_socket(clients, sockaddr) = NOT_FOUND
  /\ sent' = {}
  /\ pc' = "hardfault"
  /\ UNCHANGED <<clients, reply>>

\* PINGREQ is decoded and dropped; DISCONNECT, PUBREL and every other type have no case.
NoEffect == pc = "idle" /\ sent' = {} /\ UNCHANGED <<clients, pc, reply>>

HardFault_Handler == pc = "hardfault" /\ UNCHANGED vars

-------------------------------------------------------------------------------
(* Specification *)

Init ==
  /\ clients = [i \in ClientSlots |-> EmptyClient]
  /\ pc = "idle"
  /\ reply = NoReply
  /\ sent = {}

Next ==
  \/ \E f \in ConnectFrames, a \in Addrs : Connect(f, a)
  \/ SendConnAck
  \/ \E f \in PublishFrames, a \in Addrs : Publish(f, a)
  \/ \E f \in PublishFrames : PublishFault(f)
  \/ \E t \in SubscribeTopics, a \in Addrs : Subscribe(<<t>>, a)
  \/ \E n \in Topics, a \in Addrs : Unsubscribe(<<n>>, a)
  \/ \E a \in Addrs : NullClientFault(a)
  \/ NoEffect
  \/ HardFault_Handler

Spec == Init /\ [][Next]_vars /\ WF_vars(SendConnAck)

-------------------------------------------------------------------------------
(* Properties *)

ClientType ==
  [id : ClientIds \cup {<<>>}, sockaddr : {"stack", "zero"}, connected : BOOLEAN,
   subs : [TopicSlots -> [name : Topics \cup {<<>>}, qos : 0..2]]]

PacketType ==
  [type : {"CONNACK"}, to : Addrs, session_pres : BOOLEAN, conn_code : {0, 1, 3, 5}]
  \cup [type : {"PUBACK"}, to : Addrs, packet_id : PacketIds \cup {<<p[2], p[1]>> : p \in PacketIds}]
  \cup [type : {"POINTER"}, to : {"stack", "zero"}]

\* Type invariant of the client table, the pending CONNACK and the packets sent.
TypeOK ==
  /\ clients \in [ClientSlots -> ClientType]
  /\ pc \in {"idle", "delay", "hardfault"}
  /\ reply \in [to : Addrs \cup {"zero"}, session_pres : BOOLEAN, conn_code : {0, 1, 3, 5}]
  /\ sent \subseteq PacketType

\* The occupied records fill the table from its start.
OccupiedPrefix ==
  \A i, j \in ClientSlots : i < j /\ clients[j].id # <<>> => clients[i].id # <<>>

\* Although a clean-session CONNECT frees a record in the middle, the same handler fills the
\* hole it made, because broker_first_free_pos_for_client looks from the front.  A hole stays
\* only where a client without an id puts out one whose id is a single character, equal to
\* the length that follows: its own record counts as free.
HolesOnlyByTheNameless ==
  [][OccupiedPrefix
       => \/ OccupiedPrefix'
          \/ \E i \in ClientSlots : Len(clients[i].id) = 1 /\ clients'[i].id = <<>>]_vars

\* Nobody ever counts as connected, since no handler sets tb_client_t.connected.
NobodyConnected == \A i \in ClientSlots : ~clients[i].connected

\* A published message is never forwarded and no subscription is ever recorded: the
\* two loops that would do it run over connected clients only.
NothingForwarded ==
  /\ \A p \in sent : p.type \in {"CONNACK", "PUBACK"}
  /\ \A i \in ClientSlots : clients[i].subs = EmptyTopicTable

\* A client loses its record only to a clean-session CONNECT of its own id, or of its id less
\* the last character, and one frame costs one client its record at most: whatever the table
\* went through, nobody else's record is overwritten.
RecordsAreLostByName ==
  [][LET lost == {i \in ClientSlots : clients[i].id # <<>> /\ clients'[i].id # clients[i].id}
     IN  /\ \A i \in lost : \E f \in ConnectFrames, a \in Addrs :
              /\ Connect(f, a) /\ f.cleans_session
              /\ IsPrefix(f.client_id, clients[i].id) /\ Len(clients[i].id) <= Len(f.client_id) + 1
         /\ \A i, j \in lost : i = j]_vars

\* session_present in the CONNACK of a named client says that a record in use was thrown away
\* for the new one, its own or that of the client whose id has a character more; it is clear
\* exactly when the table holds a record more than before.
SessionPresentMeansReplaced ==
  [][\A f \in ConnectFrames, a \in Addrs :
       Connect(f, a) /\ pc' = "delay" /\ f.client_id # <<>>
         => (reply'.session_pres
               <=> Cardinality(FreeClientSlots(clients')) = Cardinality(FreeClientSlots(clients)))]_vars

\* Whoever is told "accepted" is in the table when the CONNACK leaves, and nobody is ever
\* told "not available": a full table faults before the answer is sent.
AnswersFitTheTable ==
  [][\A f \in ConnectFrames, a \in Addrs :
       Connect(f, a) /\ pc' = "delay"
         => /\ reply'.conn_code # CONN_ACK_NOT_AVBL
            /\ \E i \in ClientSlots : clients'[i] = broker_create_new_client(f)]_vars

\* mqtt_packet.h: return code 3 tells that the service is unavailable.  A CONNECT that finds
\* the table full is answered with it, the broker stays up.  (Refuted: add_client faults.)
FullTableIsRefused ==
  [][\A f \in ConnectFrames, a \in Addrs :
       Connect(f, a) /\ ~can_broker_accept_next_client(clients) => pc' # "hardfault"]_vars
===============================================================================
