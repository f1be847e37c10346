--------------------------- MODULE TinyBrokerProofs ---------------------------
(***************************************************************************)
(* Theorems about the broker's client table, for every set of ids, every   *)
(* number of records and every set of topics.                              *)
(***************************************************************************)
EXTENDS TinyBroker, TopicTableProofs, FiniteSetTheorems, SequenceTheorems

\* The subscription tables stay as memset left them.
TablesEmpty == \A i \in ClientSlots : clients[i].subs = EmptyTopicTable

\* While the 5 s delay lasts there is somebody to answer.
DelayHasAddressee == pc = "delay" => reply.to \in Addrs

\* What is on the air are acknowledgements.
OnlyReplies == \A p \in sent : p.type \in {"CONNACK", "PUBACK"}

\* The inductive invariant.
IInv ==
  /\ TypeOK
  /\ NobodyConnected
  /\ TablesEmpty
  /\ DelayHasAddressee
  /\ OnlyReplies

-------------------------------------------------------------------------------

LEMMA ClientSlotsType ==
  /\ ClientSlots \in SUBSET (0 .. 253)
  /\ ClientSlots \in SUBSET Nat
  /\ \A i, j \in ClientSlots : (i < j <=> ~(j <= i)) /\ (i <= j /\ j <= i => i = j)
  BY MaxConnClientsAssumption DEF ClientSlots

LEMMA EmptyClientFields ==
  /\ EmptyClient.id = <<>>
  /\ ~EmptyClient.connected
  /\ EmptyClient.subs = EmptyTopicTable
  BY DEF EmptyClient

\* A searched record is found in the table.
LEMMA FoundByIdInTable ==
  ASSUME NEW tab, NEW f, is_client_exist(tab, f)
  PROVE  /\ broker_get_client_pos_by_id(tab, f) \in ClientSlots
         /\ SameId(tab[broker_get_client_pos_by_id(tab, f)].id, f)
<1> DEFINE S == {i \in ClientSlots : SameId(tab[i].id, f)}
<1>1. S \in SUBSET (0 .. 253) /\ S \in SUBSET Nat
  BY ClientSlotsType
<1>2. S # {}
  BY <1>1, FirstSlotFound DEF is_client_exist, broker_get_client_pos_by_id
<1>3. FirstSlot(S) \in S
  BY <1>1, <1>2, FirstSlotLeast
<1> QED
  BY <1>3 DEF broker_get_client_pos_by_id

\* A free record, when there is one, is the first of the free ones.
LEMMA FirstFreeClient ==
  ASSUME NEW tab, ~AddClientFaults(tab)
  PROVE  LET p == broker_first_free_pos_for_client(tab)
         IN  /\ p \in ClientSlots
             /\ tab[p].id = <<>>
             /\ \A i \in ClientSlots : tab[i].id = <<>> => p <= i
<1> DEFINE S == FreeClientSlots(tab)
<1>1. S \in SUBSET (0 .. 253) /\ S \in SUBSET Nat
  BY ClientSlotsType DEF FreeClientSlots
<1>2. S # {}
  BY <1>1, FirstSlotFound DEF AddClientFaults, broker_first_free_pos_for_client
<1>3. FirstSlot(S) \in S /\ \A j \in S : FirstSlot(S) <= j
  BY <1>1, <1>2, FirstSlotLeast
<1> QED
  BY <1>3 DEF broker_first_free_pos_for_client, FreeClientSlots

\* Nobody is connected, so no address finds a client and no message finds a reader.
LEMMA NobodyFound ==
  ASSUME NobodyConnected
  PROVE  /\ \A a : broker_get_client_by_socket(clients, a) = NOT_FOUND
         /\ \A f : publish_msg_to_subscribers(clients, f) = {}
<1>1. ASSUME NEW a
      PROVE  broker_get_client_by_socket(clients, a) = NOT_FOUND
  <2>1. {i \in ClientSlots : clients[i].connected /\ clients[i].sockaddr = a} = {}
    BY DEF NobodyConnected
  <2> QED
    BY <2>1 DEF broker_get_client_by_socket, FirstSlot
<1>2. ASSUME NEW f
      PROVE  publish_msg_to_subscribers(clients, f) = {}
  BY DEF publish_msg_to_subscribers, ForwardsTo, NobodyConnected
<1> QED
  BY <1>1, <1>2

-------------------------------------------------------------------------------
(* CONNECT *)

\* The clean-session branch frees a record that strcmp takes for this client's.
LEMMA AfterCleanSessionEffect ==
  ASSUME NEW f \in ConnectFrames, CleanSessionApplies(clients, f)
  PROVE  \E q \in ClientSlots :
            /\ AfterCleanSession(clients, f) = [clients EXCEPT ![q] = EmptyClient]
            /\ clients[q].id = f.client_id \o f.behind
<1> DEFINE q == broker_get_client_pos_by_id(clients, f)
<1>1. q \in ClientSlots /\ clients[q].id = f.client_id \o f.behind
  BY FoundByIdInTable DEF CleanSessionApplies, SameId
<1>2. AfterCleanSession(clients, f) = [clients EXCEPT ![q] = EmptyClient]
  BY DEF AfterCleanSession, broker_remove_client
<1> HIDE DEF q
<1> QED
  BY <1>1, <1>2

\* The rest of the table is as it was.
LEMMA AfterCleanSessionRest ==
  ASSUME IInv, NEW f \in ConnectFrames
  PROVE  \/ ~CleanSessionApplies(clients, f) /\ AfterCleanSession(clients, f) = clients
         \/ /\ CleanSessionApplies(clients, f)
            /\ \E q \in ClientSlots :
                 /\ AfterCleanSession(clients, f) = [clients EXCEPT ![q] = EmptyClient]
                 /\ AfterCleanSession(clients, f)[q] = EmptyClient
                 /\ \A i \in ClientSlots \ {q} : AfterCleanSession(clients, f)[i] = clients[i]
                 /\ clients[q].id = f.client_id \o f.behind
<1>1. CASE CleanSessionApplies(clients, f)
  <2>1. PICK q \in ClientSlots :
          /\ AfterCleanSession(clients, f) = [clients EXCEPT ![q] = EmptyClient]
          /\ clients[q].id = f.client_id \o f.behind
    BY <1>1, AfterCleanSessionEffect
  <2>2. clients \in [ClientSlots -> ClientType]
    BY DEF IInv, TypeOK
  <2>3. /\ [clients EXCEPT ![q] = EmptyClient][q] = EmptyClient
        /\ \A i \in ClientSlots \ {q} : [clients EXCEPT ![q] = EmptyClient][i] = clients[i]
    BY <2>2
  <2> QED
    BY <1>1, <2>1, <2>3
<1>2. CASE ~CleanSessionApplies(clients, f)
  BY <1>2 DEF AfterCleanSession
<1> QED
  BY <1>1, <1>2

\* A CONNECT faults and changes nothing, or the new record goes to the first free place of
\* the table that the clean-session branch left.
LEMMA ConnectEffect ==
  ASSUME IInv, NEW f \in ConnectFrames, NEW a \in Addrs, Connect(f, a)
  PROVE  \/ pc' = "hardfault" /\ clients' = clients /\ UNCHANGED reply
         \/ /\ pc' = "delay"
            /\ reply'.to = a
            /\ reply'.session_pres = CleanSessionApplies(clients, f)
            /\ reply'.conn_code \in {CONN_ACK_OK, CONN_ACK_BAD_PROTO, CONN_ACK_BAD_AUTH}
            /\ reply' \in [to : Addrs, session_pres : BOOLEAN, conn_code : {0, 1, 3, 5}]
            /\ \E p \in ClientSlots :
                 /\ clients' = [AfterCleanSession(clients, f) EXCEPT ![p] = broker_create_new_client(f)]
                 /\ AfterCleanSession(clients, f)[p].id = <<>>
                 /\ \A i \in ClientSlots : i < p => AfterCleanSession(clients, f)[i].id # <<>>
<1> DEFINE tab == AfterCleanSession(clients, f)
           p == broker_first_free_pos_for_client(tab)
<1>1. CASE AddClientFaults(tab)
  <2>1. ~CleanSessionApplies(clients, f)
    <3>1. SUFFICES ASSUME CleanSessionApplies(clients, f) PROVE FALSE
      OBVIOUS
    <3>2. PICK q \in ClientSlots : tab[q] = EmptyClient
      BY <3>1, AfterCleanSessionRest
    <3>3. q \in FreeClientSlots(tab)
      BY <3>2, EmptyClientFields DEF FreeClientSlots
    <3>4. FreeClientSlots(tab) \in SUBSET (0 .. 253)
      BY ClientSlotsType DEF FreeClientSlots
    <3>5. FirstSlot(FreeClientSlots(tab)) # NOT_FOUND
      BY <3>3, <3>4, FirstSlotFound
    <3> QED
      BY <1>1, <3>5 DEF AddClientFaults, broker_first_free_pos_for_client
  <2>2. tab = clients
    BY <2>1 DEF AfterCleanSession
  <2> QED
    BY <1>1, <2>2 DEF Connect
<1>2. CASE ~AddClientFaults(tab)
  <2>1. /\ p \in ClientSlots
        /\ tab[p].id = <<>>
        /\ \A i \in ClientSlots : tab[i].id = <<>> => p <= i
    BY <1>2, FirstFreeClient
  <2>2. /\ pc' = "delay"
        /\ clients' = [tab EXCEPT ![p] = broker_create_new_client(f)]
        /\ reply' = [to |-> a, session_pres |-> CleanSessionApplies(clients, f),
                     conn_code |-> broker_validate_conn(tab, f)]
    BY <1>2 DEF Connect, add_client
  <2>3. broker_validate_conn(tab, f) \in {CONN_ACK_OK, CONN_ACK_BAD_PROTO, CONN_ACK_BAD_AUTH}
    <3>1. can_broker_accept_next_client(tab)
      BY <2>1 DEF can_broker_accept_next_client, FreeClientSlots
    <3> QED
      BY <3>1 DEF broker_validate_conn
  <2>4. CleanSessionApplies(clients, f) \in BOOLEAN
    BY DEF CleanSessionApplies, is_client_exist, ConnectFrames
  <2>5. \A i \in ClientSlots : i < p => tab[i].id # <<>>
    <3> HIDE DEF p, tab
    <3> QED
      BY <2>1, ClientSlotsType
  <2> HIDE DEF p
  <2> QED
    BY <2>1, <2>2, <2>3, <2>4, <2>5 DEF CONN_ACK_OK, CONN_ACK_BAD_PROTO, CONN_ACK_BAD_AUTH
<1> QED
  BY <1>1, <1>2

-------------------------------------------------------------------------------
(* The inductive invariant *)

LEMMA InitIInv == Init => IInv
<1> SUFFICES ASSUME Init PROVE IInv
  OBVIOUS
<1>1. EmptyTopicTable \in [TopicSlots -> [name : Topics \cup {<<>>}, qos : 0..2]]
  BY DEF EmptyTopicTable, FreeTopic
<1>2. EmptyClient \in ClientType
  BY <1>1 DEF EmptyClient, ClientType
<1>3. TypeOK
  BY <1>2 DEF Init, TypeOK, NoReply, CONN_ACK_OK
<1>4. NobodyConnected /\ TablesEmpty /\ DelayHasAddressee /\ OnlyReplies
  BY EmptyClientFields
  DEF Init, NobodyConnected, TablesEmpty, DelayHasAddressee, OnlyReplies
<1> QED
  BY <1>3, <1>4 DEF IInv

\* A new record is typed, not connected and without subscriptions.
LEMMA NewClientFields ==
  ASSUME NEW f \in ConnectFrames
  PROVE  /\ broker_create_new_client(f) \in ClientType
         /\ broker_create_new_client(f).id = f.client_id
         /\ broker_create_new_client(f).sockaddr = "stack"
         /\ ~broker_create_new_client(f).connected
         /\ broker_create_new_client(f).subs = EmptyTopicTable
<1>1. EmptyTopicTable \in [TopicSlots -> [name : Topics \cup {<<>>}, qos : 0..2]]
  BY DEF EmptyTopicTable, FreeTopic
<1>2. f.client_id \in ClientIds \cup {<<>>}
  BY DEF ConnectFrames
<1> QED
  BY <1>1, <1>2 DEF broker_create_new_client, EmptyClient, ClientType

\* Where a CONNECT puts the new record, and which one it may have freed before.
LEMMA ConnectSlots ==
  ASSUME IInv, NEW f \in ConnectFrames, NEW a \in Addrs, Connect(f, a), pc' = "delay"
  PROVE  \E p, q \in ClientSlots :
           /\ clients' \in [ClientSlots -> ClientType]
           /\ clients'[p] = broker_create_new_client(f)
           /\ \A i \in ClientSlots \ {p, q} : clients'[i] = clients[i]
           /\ q # p => clients'[q] = EmptyClient
           /\ clients[p].id = <<>> \/ p = q
           /\ \A i \in ClientSlots : i < p => clients[i].id # <<>> /\ i # q
           /\ IF CleanSessionApplies(clients, f)
              THEN clients[q].id = f.client_id \o f.behind
              ELSE clients[q].id = <<>> /\ p = q
<1> DEFINE tab == AfterCleanSession(clients, f)
<1>1. clients \in [ClientSlots -> ClientType] /\ EmptyClient \in ClientType
  <2>1. EmptyTopicTable \in [TopicSlots -> [name : Topics \cup {<<>>}, qos : 0..2]]
    BY DEF EmptyTopicTable, FreeTopic
  <2> QED
    BY <2>1 DEF IInv, TypeOK, EmptyClient, ClientType
<1>2. PICK p \in ClientSlots :
        /\ clients' = [tab EXCEPT ![p] = broker_create_new_client(f)]
        /\ tab[p].id = <<>>
        /\ \A i \in ClientSlots : i < p => tab[i].id # <<>>
  BY ConnectEffect
<1>3. CASE CleanSessionApplies(clients, f)
  <2>1. PICK q \in ClientSlots :
          /\ tab = [clients EXCEPT ![q] = EmptyClient]
          /\ tab[q] = EmptyClient
          /\ \A i \in ClientSlots \ {q} : tab[i] = clients[i]
          /\ clients[q].id = f.client_id \o f.behind
    BY <1>3, AfterCleanSessionRest
  <2>2. tab \in [ClientSlots -> ClientType]
    BY <1>1, <2>1
  <2> HIDE DEF tab
  <2>3. /\ clients' \in [ClientSlots -> ClientType]
        /\ clients'[p] = broker_create_new_client(f)
        /\ \A i \in ClientSlots \ {p} : clients'[i] = tab[i]
    BY <1>2, <2>2, NewClientFields
  <2>4. \A i \in ClientSlots : i < p => clients[i].id # <<>> /\ i # q
    BY <1>2, <2>1, EmptyClientFields
  <2> QED
    BY <1>2, <1>3, <2>1, <2>3, <2>4
<1>4. CASE ~CleanSessionApplies(clients, f)
  <2>1. tab = clients
    BY <1>4 DEF AfterCleanSession
  <2>2. \A i \in ClientSlots : i < p => i # p
    BY ClientSlotsType
  <2>3. /\ clients' \in [ClientSlots -> ClientType]
        /\ clients'[p] = broker_create_new_client(f)
        /\ \A i \in ClientSlots \ {p} : clients'[i] = clients[i]
    <3> HIDE DEF tab
    <3> QED
      BY <1>1, <1>2, <2>1, NewClientFields
  <2> HIDE DEF tab
  <2> QED
    BY <1>2, <1>4, <2>1, <2>2, <2>3
<1> QED
  BY <1>3, <1>4

LEMMA ConnectKeepsIInv ==
  ASSUME IInv, NEW f \in ConnectFrames, NEW a \in Addrs, Connect(f, a)
  PROVE  IInv'
<1>1. sent' = {}
  BY DEF Connect
<1>2. CASE pc' = "hardfault" /\ clients' = clients /\ UNCHANGED reply
  BY <1>1, <1>2
  DEF IInv, TypeOK, NobodyConnected, TablesEmpty, DelayHasAddressee, OnlyReplies
<1>3. CASE pc' = "delay"
  <2>1. PICK p, q \in ClientSlots :
          /\ clients' \in [ClientSlots -> ClientType]
          /\ clients'[p] = broker_create_new_client(f)
          /\ \A i \in ClientSlots \ {p, q} : clients'[i] = clients[i]
          /\ q # p => clients'[q] = EmptyClient
    BY <1>3, ConnectSlots
  <2>2. reply' \in [to : Addrs, session_pres : BOOLEAN, conn_code : {0, 1, 3, 5}]
    BY <1>3, ConnectEffect
  <2>3. TypeOK'
    BY <1>1, <1>3, <2>1, <2>2 DEF TypeOK
  <2>4. NobodyConnected' /\ TablesEmpty'
    BY <2>1, NewClientFields, EmptyClientFields DEF IInv, NobodyConnected, TablesEmpty
  <2>5. DelayHasAddressee' /\ OnlyReplies'
    BY <1>1, <2>2 DEF DelayHasAddressee, OnlyReplies
  <2> QED
    BY <2>3, <2>4, <2>5 DEF IInv
<1> QED
  BY <1>2, <1>3, ConnectEffect

\* Only CONNECT touches the table: every other step sends replies to the sender at most.
LEMMA OthersLeaveTheTable ==
  ASSUME IInv, [Next]_vars,
         \A f \in ConnectFrames, a \in Addrs : ~Connect(f, a)
  PROVE  /\ clients' = clients
         /\ reply' \in {reply, NoReply}
         /\ pc' \in {"idle", "hardfault"} \/ (pc' = pc /\ reply' = reply)
         /\ sent' = sent
            \/ sent' \subseteq {p \in PacketType : p.type \in {"CONNACK", "PUBACK"}}
<1> DEFINE Replies == {p \in PacketType : p.type \in {"CONNACK", "PUBACK"}}
           Goal == /\ clients' = clients
                   /\ reply' \in {reply, NoReply}
                   /\ pc' \in {"idle", "hardfault"} \/ (pc' = pc /\ reply' = reply)
                   /\ sent' = sent \/ sent' \subseteq Replies
<1>1. ASSUME SendConnAck PROVE Goal
  <2>1. reply \in [to : Addrs, session_pres : BOOLEAN, conn_code : {0, 1, 3, 5}]
    BY <1>1 DEF SendConnAck, IInv, TypeOK, DelayHasAddressee
  <2>2. sent' \subseteq Replies
    BY <1>1, <2>1 DEF SendConnAck, PacketType
  <2> QED
    BY <1>1, <2>2 DEF SendConnAck
<1>2. ASSUME NEW f \in PublishFrames, NEW a \in Addrs, Publish(f, a) PROVE Goal
  <2>1. sent' = PubAcks(f, a)
    BY <1>2, NobodyFound DEF Publish, IInv
  <2>2. encode_publish_ack(f) \in {<<p[2], p[1]>> : p \in PacketIds}
    BY DEF encode_publish_ack, PublishFrames
  <2>3. PubAcks(f, a) \subseteq Replies
    BY <2>2 DEF PubAcks, PacketType
  <2> HIDE DEF Replies
  <2> QED
    BY <1>2, <2>1, <2>3 DEF Publish
<1>3. ASSUME NEW f \in PublishFrames, PublishFault(f) PROVE Goal
  BY <1>3, NobodyFound DEF PublishFault, IInv
<1>4. ASSUME NEW l, NEW a \in Addrs, Subscribe(l, a) PROVE Goal
  BY <1>4, NobodyFound DEF Subscribe, IInv
<1>5. ASSUME NEW l, NEW a \in Addrs, Unsubscribe(l, a) PROVE Goal
  BY <1>5, NobodyFound DEF Unsubscribe, IInv
<1>6. ASSUME NEW a \in Addrs, NullClientFault(a) PROVE Goal
  BY <1>6 DEF NullClientFault
<1>7. ASSUME NoEffect PROVE Goal
  BY <1>7 DEF NoEffect
<1>8. ASSUME HardFault_Handler PROVE Goal
  BY <1>8 DEF HardFault_Handler, vars
<1>9. ASSUME UNCHANGED vars PROVE Goal
  BY <1>9 DEF vars
<1>10. Goal
  <2> HIDE DEF Goal
  <2> QED
    BY <1>1, <1>2, <1>3, <1>4, <1>5, <1>6, <1>7, <1>8, <1>9 DEF Next
<1> QED
  BY <1>10

LEMMA NextIInv == IInv /\ [Next]_vars => IInv'
<1> SUFFICES ASSUME IInv, [Next]_vars PROVE IInv'
  OBVIOUS
<1>1. CASE \E f \in ConnectFrames, a \in Addrs : Connect(f, a)
  BY <1>1, ConnectKeepsIInv
<1>2. CASE \A f \in ConnectFrames, a \in Addrs : ~Connect(f, a)
  <2>1. clients' = clients /\ reply' \in {reply, NoReply}
    BY <1>2, OthersLeaveTheTable
  <2>2. pc' \in {"idle", "hardfault"} \/ (pc' = pc /\ reply' = reply)
    BY <1>2, OthersLeaveTheTable
  <2>3. sent' \subseteq PacketType
    BY <1>2, OthersLeaveTheTable DEF IInv, TypeOK
  <2>4. TypeOK'
    <3>1. NoReply \in [to : Addrs \cup {"zero"}, session_pres : BOOLEAN, conn_code : {0, 1, 3, 5}]
      BY DEF NoReply, CONN_ACK_OK
    <3>2. pc' \in {"idle", "delay", "hardfault"}
      BY <2>2 DEF IInv, TypeOK
    <3> QED
      BY <2>1, <2>3, <3>1, <3>2 DEF IInv, TypeOK
  <2>5. NobodyConnected' /\ TablesEmpty'
    BY <2>1 DEF IInv, NobodyConnected, TablesEmpty
  <2>6. DelayHasAddressee'
    BY <2>2 DEF IInv, DelayHasAddressee
  <2>7. OnlyReplies'
    BY <1>2, OthersLeaveTheTable DEF IInv, OnlyReplies
  <2> QED
    BY <2>4, <2>5, <2>6, <2>7 DEF IInv
<1> QED
  BY <1>1, <1>2

\* Every reachable state satisfies the inductive invariant.
THEOREM SpecIInv == Spec => []IInv
  BY InitIInv, NextIInv, PTL DEF Spec

-------------------------------------------------------------------------------
(* The theorems *)

\* The state keeps its types: in particular no search ever indexes outside the table.
THEOREM TypeCorrect == Spec => []TypeOK
  BY SpecIInv, PTL DEF IInv

\* No published message is forwarded and no subscription recorded, whatever the peers send.
THEOREM NothingForwardedHolds == Spec => []NothingForwarded
<1>1. IInv => NothingForwarded
  BY DEF IInv, NothingForwarded, OnlyReplies, TablesEmpty
<1> QED
  BY <1>1, SpecIInv, PTL

\* How the places of a CONNECT lie in a table without holes.
HolesOpened ==
  OccupiedPrefix
    => \/ OccupiedPrefix'
       \/ \E i \in ClientSlots : Len(clients[i].id) = 1 /\ clients'[i].id = <<>>

\* Facts about two texts, one behind the other.
TextAndMore(s, t, chars) ==
  /\ s \o t \in Seq(chars)
  /\ IsPrefix(s, s \o t)
  /\ Len(s \o t) = Len(s) + Len(t)
  /\ s # <<>> => s \o t # <<>>
  /\ s = <<>> /\ s \o t # <<>> => Len(s \o t) = 1

LEMMA JoinedTexts ==
  ASSUME NEW chars, NEW s \in Seq(chars), NEW t \in Seq(chars), Len(t) \in {0, 1}
  PROVE  TextAndMore(s, t, chars)
<1>1. s \o t \in Seq(chars) /\ Len(s \o t) = Len(s) + Len(t) /\ Len(s) \in Nat
  OBVIOUS
<1>2. IsPrefix(s, s \o t)
  BY <1>1 DEF IsPrefix
<1>3. s # <<>> => s \o t # <<>>
  <2>1. s # <<>> => Len(s) # 0
    OBVIOUS
  <2> QED
    BY <1>1, <2>1
<1>4. s = <<>> /\ s \o t # <<>> => Len(s \o t) = 1
  <2>1. s \o t # <<>> => Len(s \o t) # 0
    BY <1>1
  <2> QED
    BY <1>1, <2>1
<1> QED
  BY <1>1, <1>2, <1>3, <1>4 DEF TextAndMore

\* What a client's id and the length behind it are.
LEMMA SeenTexts ==
  ASSUME NEW f \in ConnectFrames
  PROVE  /\ IsPrefix(f.client_id, f.client_id \o f.behind)
         /\ Len(f.client_id \o f.behind) <= Len(f.client_id) + 1
         /\ f.client_id # <<>> => f.client_id \o f.behind # <<>>
         /\ f.client_id = <<>> /\ f.client_id \o f.behind # <<>> => Len(f.client_id \o f.behind) = 1
<1>1. PICK chars : chars = 1..255
  OBVIOUS
<1>2. f.client_id \in Seq(chars)
  <2>1. f.client_id \in ClientIds \cup {<<>>}
    BY DEF ConnectFrames
  <2>2. \A id \in ClientIds : id \in Seq(chars)
    BY Zenon, <1>1, ClientIdsAssumption
  <2>3. <<>> \in Seq(chars)
    OBVIOUS
  <2> QED
    BY <2>1, <2>2, <2>3
<1>3. f.behind \in Seq(chars) /\ Len(f.behind) \in {0, 1}
  <2>1. f.behind = <<>> \/ \E len \in FieldLengths : f.behind = <<len>>
    BY DEF ConnectFrames
  <2>2. \A len \in FieldLengths : len \in chars
    BY <1>1, FieldLengthsAssumption
  <2>3. ASSUME NEW len \in chars PROVE <<len>> \in Seq(chars) /\ Len(<<len>>) = 1
    OBVIOUS
  <2>4. <<>> \in Seq(chars) /\ Len(<<>>) = 0
    OBVIOUS
  <2> QED
    BY Zenon, <2>1, <2>2, <2>3, <2>4
<1>4. TextAndMore(f.client_id, f.behind, chars)
  BY Zenon, <1>2, <1>3, JoinedTexts
<1>5. Len(f.client_id \o f.behind) <= Len(f.client_id) + 1
  <2>1. /\ Len(f.client_id \o f.behind) = Len(f.client_id) + Len(f.behind)
        /\ Len(f.behind) \in {0, 1}
    BY Zenon, <1>3, <1>4 DEF TextAndMore
  <2>2. Len(f.client_id) \in Nat
    BY <1>2
  <2>3. \A n \in Nat, k \in {0, 1} : n + k <= n + 1
    OBVIOUS
  <2> QED
    BY Zenon, <2>1, <2>2, <2>3
<1> QED
  BY Zenon, <1>4, <1>5 DEF TextAndMore

LEMMA NextOpensHoles == IInv /\ [Next]_vars => HolesOpened
<1> SUFFICES ASSUME IInv, [Next]_vars, OccupiedPrefix PROVE HolesOpened
  BY DEF HolesOpened
<1>1. CASE \A f \in ConnectFrames, a \in Addrs : ~Connect(f, a)
  BY <1>1, OthersLeaveTheTable DEF HolesOpened, OccupiedPrefix
<1>2. ASSUME NEW f \in ConnectFrames, NEW a \in Addrs, Connect(f, a) PROVE HolesOpened
  <2>1. CASE clients' = clients
    BY <2>1 DEF HolesOpened, OccupiedPrefix
  <2>2. CASE pc' = "delay"
    <3>1. PICK p, q \in ClientSlots :
            /\ clients'[p] = broker_create_new_client(f)
            /\ \A i \in ClientSlots \ {p, q} : clients'[i] = clients[i]
            /\ q # p => clients'[q] = EmptyClient
            /\ clients[p].id = <<>> \/ p = q
            /\ \A i \in ClientSlots : i < p => clients[i].id # <<>> /\ i # q
            /\ IF CleanSessionApplies(clients, f)
               THEN clients[q].id = f.client_id \o f.behind
               ELSE clients[q].id = <<>> /\ p = q
      BY <1>2, <2>2, ConnectSlots
    <3>2. clients'[p].id = f.client_id /\ EmptyClient.id = <<>>
      BY <3>1, NewClientFields, EmptyClientFields
    <3>3. CASE p # q
      <4>1. p < q
        BY <3>1, <3>3, ClientSlotsType
      <4>2. clients[q].id = <<>>
        BY <3>1, <3>3, <4>1 DEF OccupiedPrefix
      <4>3. f.client_id = <<>>
        BY <3>1, <3>3, <4>2, SeenTexts
      <4> QED
        BY <3>1, <3>2, <3>3, <4>2, <4>3 DEF HolesOpened, OccupiedPrefix
    <3>4. CASE p = q /\ f.client_id # <<>>
      <4>1. \A i \in ClientSlots : i < p => clients'[i].id # <<>>
        BY <3>1, <3>4, ClientSlotsType
      <4>2. \A i, j \in ClientSlots : i < j /\ clients'[j].id # <<>> => clients'[i].id # <<>>
        BY <3>1, <3>2, <3>4, <4>1 DEF OccupiedPrefix
      <4> QED
        BY <4>2 DEF HolesOpened, OccupiedPrefix
    <3>5. CASE p = q /\ f.client_id = <<>>
      <4>1. CASE clients[p].id = <<>>
        <5>1. \A i \in ClientSlots : clients'[i].id = clients[i].id
          BY <3>1, <3>2, <3>5, <4>1
        <5> QED
          BY <5>1 DEF HolesOpened, OccupiedPrefix
      <4>2. CASE clients[p].id # <<>>
        <5>1. Len(clients[p].id) = 1
          BY <3>1, <3>5, <4>2, SeenTexts
        <5> QED
          BY <3>2, <3>5, <5>1 DEF HolesOpened
      <4> QED
        BY <4>1, <4>2
    <3> QED
      BY <3>3, <3>4, <3>5
  <2> QED
    BY <1>2, <2>1, <2>2, ConnectEffect
<1> QED
  BY <1>1, <1>2

\* A CONNECT leaves a hole only where a client without an id puts out one of a single character.
THEOREM HolesOnlyByTheNamelessHolds == Spec => HolesOnlyByTheNameless
<1>1. IInv /\ [Next]_vars => [HolesOpened]_vars
  BY NextOpensHoles
<1> QED
  BY <1>1, SpecIInv, PTL DEF Spec, HolesOpened, HolesOnlyByTheNameless

\* A record is lost by name only, and one at most.
Lost == {i \in ClientSlots : clients[i].id # <<>> /\ clients'[i].id # clients[i].id}

RecordsLost ==
  /\ \A i \in Lost : \E f \in ConnectFrames, a \in Addrs :
       /\ Connect(f, a) /\ f.cleans_session
       /\ IsPrefix(f.client_id, clients[i].id) /\ Len(clients[i].id) <= Len(f.client_id) + 1
  /\ \A i, j \in Lost : i = j

LEMMA NextLosesRecords == IInv /\ [Next]_vars => RecordsLost
<1> SUFFICES ASSUME IInv, [Next]_vars PROVE RecordsLost
  OBVIOUS
<1>1. CASE \A f \in ConnectFrames, a \in Addrs : ~Connect(f, a)
  BY <1>1, OthersLeaveTheTable DEF RecordsLost, Lost
<1>2. ASSUME NEW f \in ConnectFrames, NEW a \in Addrs, Connect(f, a) PROVE RecordsLost
  <2>1. CASE clients' = clients
    BY <2>1 DEF RecordsLost, Lost
  <2>2. CASE pc' = "delay"
    <3>1. PICK p, q \in ClientSlots :
            /\ \A i \in ClientSlots \ {p, q} : clients'[i] = clients[i]
            /\ clients[p].id = <<>> \/ p = q
            /\ IF CleanSessionApplies(clients, f)
               THEN clients[q].id = f.client_id \o f.behind
               ELSE clients[q].id = <<>> /\ p = q
      BY <1>2, <2>2, ConnectSlots
    <3>2. Lost \subseteq {q}
      BY <3>1 DEF Lost
    <3>3. q \in Lost => CleanSessionApplies(clients, f) /\ clients[q].id = f.client_id \o f.behind
      BY <3>1 DEF Lost
    <3>4. q \in Lost => /\ f.cleans_session /\ IsPrefix(f.client_id, clients[q].id)
                        /\ Len(clients[q].id) <= Len(f.client_id) + 1
      BY <3>3, SeenTexts DEF CleanSessionApplies
    <3> QED
      BY <1>2, <3>2, <3>4 DEF RecordsLost
  <2> QED
    BY <1>2, <2>1, <2>2, ConnectEffect
<1> QED
  BY <1>1, <1>2

\* The same of every step of the specification.
THEOREM RecordsAreLostByNameHolds == Spec => RecordsAreLostByName
<1>1. IInv /\ [Next]_vars => [RecordsLost]_vars
  BY NextLosesRecords
<1> QED
  BY <1>1, SpecIInv, PTL DEF Spec, RecordsLost, Lost, RecordsAreLostByName

\* One place more, one place less: the number of free ones tells what was replaced.
LEMMA FreePlaces ==
  ASSUME NEW F \in SUBSET ClientSlots, NEW p \in ClientSlots, NEW q \in ClientSlots
  PROVE  /\ p \in F => Cardinality(F \ {p}) # Cardinality(F)
         /\ q \notin F /\ p \in F \cup {q} => Cardinality((F \cup {q}) \ {p}) = Cardinality(F)
<1>1. IsFiniteSet(F)
  <2>1. IsFiniteSet(ClientSlots)
    BY MaxConnClientsAssumption, FS_Interval DEF ClientSlots
  <2> QED
    BY <2>1, FS_Subset
<1>2. Cardinality(F) \in Nat
  BY <1>1, FS_CardinalityType
<1>3. ASSUME p \in F PROVE Cardinality(F \ {p}) = Cardinality(F) - 1
  BY <1>1, <1>3, FS_RemoveElement
<1>4. ASSUME q \notin F, p \in F \cup {q} PROVE Cardinality((F \cup {q}) \ {p}) = Cardinality(F)
  <2>1. IsFiniteSet(F \cup {q}) /\ Cardinality(F \cup {q}) = Cardinality(F) + 1
    BY <1>1, <1>4, FS_AddElement
  <2>2. Cardinality((F \cup {q}) \ {p}) = Cardinality(F \cup {q}) - 1
    BY <1>4, <2>1, FS_RemoveElement
  <2> QED
    BY <1>2, <2>1, <2>2
<1> QED
  BY <1>2, <1>3, <1>4

\* session_present means that a record was thrown away for the new one.
THEOREM SessionPresentMeansReplacedHolds == Spec => SessionPresentMeansReplaced
<1> DEFINE Meaning ==
      \A f \in ConnectFrames, a \in Addrs :
        Connect(f, a) /\ pc' = "delay" /\ f.client_id # <<>>
          => (reply'.session_pres
                <=> Cardinality(FreeClientSlots(clients')) = Cardinality(FreeClientSlots(clients)))
<1>1. ASSUME IInv PROVE Meaning
  <2> SUFFICES ASSUME NEW f \in ConnectFrames, NEW a \in Addrs,
                      Connect(f, a), pc' = "delay", f.client_id # <<>>
               PROVE  reply'.session_pres
                        <=> Cardinality(FreeClientSlots(clients')) = Cardinality(FreeClientSlots(clients))
    OBVIOUS
  <2> DEFINE F == FreeClientSlots(clients)
  <2>1. reply'.session_pres = CleanSessionApplies(clients, f)
    BY <1>1, ConnectEffect
  <2>2. PICK p, q \in ClientSlots :
          /\ clients'[p] = broker_create_new_client(f)
          /\ \A i \in ClientSlots \ {p, q} : clients'[i] = clients[i]
          /\ q # p => clients'[q] = EmptyClient
          /\ clients[p].id = <<>> \/ p = q
          /\ IF CleanSessionApplies(clients, f)
             THEN clients[q].id = f.client_id \o f.behind
             ELSE clients[q].id = <<>> /\ p = q
    BY <1>1, ConnectSlots
  <2>3. clients'[p].id = f.client_id /\ EmptyClient.id = <<>>
    BY <2>2, NewClientFields, EmptyClientFields
  <2>4. F \in SUBSET ClientSlots
    BY DEF FreeClientSlots
  <2>5. CASE CleanSessionApplies(clients, f)
    <3>1. q \notin F /\ p \in F \cup {q}
      BY <2>2, <2>5, SeenTexts DEF FreeClientSlots
    <3>2. FreeClientSlots(clients') = (F \cup {q}) \ {p}
      BY <2>2, <2>3, <3>1 DEF FreeClientSlots
    <3>3. Cardinality((F \cup {q}) \ {p}) = Cardinality(F)
      BY <2>4, <3>1, FreePlaces
    <3> QED
      BY Zenon, <2>1, <2>5, <3>2, <3>3
  <2>6. CASE ~CleanSessionApplies(clients, f)
    <3>1. p \in F /\ FreeClientSlots(clients') = F \ {p}
      BY <2>2, <2>3, <2>6 DEF FreeClientSlots
    <3> QED
      BY <2>1, <2>4, <2>6, <3>1, FreePlaces
  <2> QED
    BY <2>5, <2>6
<1>2. IInv /\ [Next]_vars => [Meaning]_vars
  BY <1>1
<1> QED
  BY <1>2, SpecIInv, PTL DEF Spec, SessionPresentMeansReplaced

\* Whoever is accepted is in the table, and nobody is told "not available".
THEOREM AnswersFitTheTableHolds == Spec => AnswersFitTheTable
<1> DEFINE Fits ==
      \A f \in ConnectFrames, a \in Addrs :
        Connect(f, a) /\ pc' = "delay"
          => /\ reply'.conn_code # CONN_ACK_NOT_AVBL
             /\ \E i \in ClientSlots : clients'[i] = broker_create_new_client(f)
<1>1. ASSUME IInv PROVE Fits
  <2> SUFFICES ASSUME NEW f \in ConnectFrames, NEW a \in Addrs, Connect(f, a), pc' = "delay"
               PROVE  /\ reply'.conn_code # CONN_ACK_NOT_AVBL
                      /\ \E i \in ClientSlots : clients'[i] = broker_create_new_client(f)
    OBVIOUS
  <2>1. reply'.conn_code \in {CONN_ACK_OK, CONN_ACK_BAD_PROTO, CONN_ACK_BAD_AUTH}
    BY <1>1, ConnectEffect
  <2>2. PICK p \in ClientSlots : clients'[p] = broker_create_new_client(f)
    BY <1>1, ConnectSlots
  <2> QED
    BY <2>1, <2>2
    DEF CONN_ACK_OK, CONN_ACK_BAD_PROTO, CONN_ACK_BAD_AUTH, CONN_ACK_NOT_AVBL
<1>2. IInv /\ [Next]_vars => [Fits]_vars
  BY <1>1
<1> QED
  BY <1>2, SpecIInv, PTL DEF Spec, AnswersFitTheTable
===============================================================================
