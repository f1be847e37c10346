----------------------------- MODULE Subscriptions -----------------------------
(***************************************************************************)
(* The subscription table of one client of tiny_broker.c under the two     *)
(* functions that change it, add_subscriptions_from_list and               *)
(* delete_listed_subscriptions, one action per pass of their loops.  The   *)
(* caller hands them lists decoded from SUBSCRIBE and UNSUBSCRIBE frames,  *)
(* which name the topics in any order and any number of times.             *)
(***************************************************************************)
EXTENDS TopicTable, FiniteSets

CONSTANTS
  Names,     \* topic names the lists carry, the empty one included or not
  QoSs       \* the qualities of service asked for

ASSUME NamesAssumption == Names \subseteq Seq(STRING)
ASSUME QoSsAssumption == QoSs \subseteq 0..2 /\ 0 \in QoSs

VARIABLES
  subs_topic,   \* the table
  pc,           \* "idle", "add" or "delete": the loop that runs
  topic_list,   \* its argument
  i,            \* its index; passes 1..i-1 are done
  result_list,  \* the codes written so far
  ret,          \* what the last call of add_subscriptions_from_list returned
  before        \* the table when the call began (history)

vars == <<subs_topic, pc, topic_list, i, result_list, ret, before>>

Requests == [name : Names, qos : QoSs]

Stored == {s \in TopicSlots : ~IsFreeTopic(subs_topic[s])}

-------------------------------------------------------------------------------

\* A frame carries at most MAX_SUBS_TOPIC topics.
Call(loop, list) ==
  /\ pc = "idle"
  /\ pc' = loop
  /\ topic_list' = list
  /\ i' = 1
  /\ result_list' = <<>>
  /\ before' = subs_topic
  /\ UNCHANGED <<subs_topic, ret>>

Running(loop) == pc = loop /\ i <= Len(topic_list)

Return(loop) ==
  /\ pc = loop
  /\ i > Len(topic_list)
  /\ pc' = "idle"
  /\ ret' = TRUE
  /\ UNCHANGED <<subs_topic, topic_list, i, result_list, before>>

Hit == get_subscribed_topic_pos(subs_topic, topic_list[i].name)
Free == find_first_free_slot_for_subs_topic(subs_topic)

NextPass == i' = i + 1 /\ UNCHANGED <<pc, topic_list, ret, before>>

\* Mutant: the whole slot is overwritten, the name too.
ActualizeWholeSlot ==
  /\ Running("add")
  /\ Hit # NOT_FOUND
  /\ subs_topic' = [subs_topic EXCEPT ![Hit] = topic_list[i]]
  /\ result_list' = Append(result_list, topic_list[i].qos)
  /\ NextPass

\* An already subscribed topic gets the new quality of service.
ActualizeQos ==
  /\ Running("add")
  /\ Hit # NOT_FOUND
  /\ subs_topic' = [subs_topic EXCEPT ![Hit].qos = topic_list[i].qos]
  /\ result_list' = Append(result_list, topic_list[i].qos)
  /\ NextPass

\* Mutant: nobody looks whether the topic is there already.
AddWithoutLooking ==
  /\ Running("add")
  /\ Free # NOT_FOUND
  /\ subs_topic' = [subs_topic EXCEPT ![Free] = topic_list[i]]
  /\ result_list' = Append(result_list, topic_list[i].qos)
  /\ NextPass

AddNewSubscription ==
  /\ Running("add")
  /\ Hit = NOT_FOUND
  /\ Free # NOT_FOUND
  /\ subs_topic' = [subs_topic EXCEPT ![Free] = topic_list[i]]
  /\ result_list' = Append(result_list, topic_list[i].qos)
  /\ NextPass

\* Mutant: the position is answered in place of the code.
RefuseWithPosition ==
  /\ Running("add")
  /\ Hit = NOT_FOUND
  /\ Free = NOT_FOUND
  /\ result_list' = [k \in 1..Len(topic_list) |-> IF k < i THEN result_list[k] ELSE Free]
  /\ pc' = "idle"
  /\ ret' = FALSE
  /\ UNCHANGED <<subs_topic, topic_list, i, before>>

\* Mutant: the early return says true.
RefuseAsSuccess ==
  /\ Running("add")
  /\ Hit = NOT_FOUND
  /\ Free = NOT_FOUND
  /\ result_list' = [k \in 1..Len(topic_list) |-> IF k < i THEN result_list[k] ELSE SUB_ACK_FAIL]
  /\ pc' = "idle"
  /\ ret' = TRUE
  /\ UNCHANGED <<subs_topic, topic_list, i, before>>

\* Mutant: only the topic at hand is answered.
RefuseOne ==
  /\ Running("add")
  /\ Hit = NOT_FOUND
  /\ Free = NOT_FOUND
  /\ result_list' = Append(result_list, SUB_ACK_FAIL)
  /\ pc' = "idle"
  /\ ret' = FALSE
  /\ UNCHANGED <<subs_topic, topic_list, i, before>>

\* The table is full: this topic and all the rest are refused, unseen.
RefuseRest ==
  /\ Running("add")
  /\ Hit = NOT_FOUND
  /\ Free = NOT_FOUND
  /\ result_list' = [k \in 1..Len(topic_list) |-> IF k < i THEN result_list[k] ELSE SUB_ACK_FAIL]
  /\ pc' = "idle"
  /\ ret' = FALSE
  /\ UNCHANGED <<subs_topic, topic_list, i, before>>

\* Mutant: the loop stops at the first slot it hits.
DeleteFirstHit ==
  /\ Running("delete")
  /\ subs_topic' = [s \in TopicSlots |-> IF s = Hit THEN FreeTopic ELSE subs_topic[s]]
  /\ UNCHANGED result_list
  /\ NextPass

\* delete_subscribed_topic does not stop at the first slot it hits.
DeleteSubscribedTopic ==
  /\ Running("delete")
  /\ subs_topic' = [s \in TopicSlots |->
       IF s \in HitSlots(subs_topic, topic_list[i].name) THEN FreeTopic ELSE subs_topic[s]]
  /\ UNCHANGED result_list
  /\ NextPass

Lists == SeqOf(Requests, MAX_SUBS_TOPIC)

Init ==
  /\ subs_topic = EmptyTopicTable
  /\ pc = "idle"
  /\ topic_list = <<>>
  /\ i = 1
  /\ result_list = <<>>
  /\ ret = TRUE
  /\ before = EmptyTopicTable

Loop ==
  \/ ActualizeQos
  \/ AddNewSubscription
  \/ RefuseRest
  \/ DeleteSubscribedTopic
  \/ Return("add")
  \/ Return("delete")

Next ==
  \/ \E list \in Lists : Call("add", list)
  \/ \E list \in Lists : Call("delete", list)
  \/ Loop

Spec == Init /\ [][Next]_vars

-------------------------------------------------------------------------------
(* Properties *)

TopicType == [name : Names \cup {<<>>}, qos : QoSs]

\* Type invariant of the table, the running loop and its results.
TypeOK ==
  /\ subs_topic \in [TopicSlots -> TopicType]
  /\ before \in [TopicSlots -> TopicType]
  /\ pc \in {"idle", "add", "delete"}
  /\ topic_list \in Seq(Requests)
  /\ i \in 1 .. Len(topic_list) + 1
  /\ result_list \in Seq(QoSs \cup {SUB_ACK_FAIL})
  /\ ret \in BOOLEAN

\* No topic is stored twice, however often lists repeat it and whatever holes
\* unsubscriptions left: publish_msg_to_subscribers may stop at the first slot.
NoTopicTwice ==
  \A s, t \in Stored : subs_topic[s].name = subs_topic[t].name => s = t

\* While a SUBSCRIBE list is worked off, and when it returns, every topic answered with a
\* quality of service is covered by a stored topic that begins with it: no later topic of
\* the list takes its slot away.
GrantedIsCovered ==
  \A k \in DOMAIN result_list :
    result_list[k] # SUB_ACK_FAIL =>
      \/ topic_list[k].name = <<>>
      \/ \E s \in Stored : IsPrefix(topic_list[k].name, subs_topic[s].name)

\* A topic is refused only if every slot is taken, and then the call returns false.
RefusedOnlyWhenFull ==
  \A k \in DOMAIN result_list :
    result_list[k] = SUB_ACK_FAIL => ~ret /\ Stored = TopicSlots

\* Subscribing never loses or renames a stored topic, in whatever slot it sits.
SubscribeKeepsTopics ==
  pc = "add" => \A s \in TopicSlots :
                  before[s].name # <<>> => subs_topic[s].name = before[s].name

\* When a call has answered a list, table, codes and return value are those that folding
\* the list over the table it began with gives: the early return leaves nothing half done.
AddIsTheFold ==
  pc = "idle" /\ result_list # <<>> =>
    [table |-> subs_topic, result |-> result_list, ok |-> ret]
      = add_subscriptions_from_list(before, topic_list)

\* When a list of unsubscriptions is done, exactly the topics that begin with a listed name
\* are gone, and the rest sit unchanged in their slots: no pass undoes or repeats another.
DeleteIsExact ==
  pc = "delete" /\ i > Len(topic_list) =>
    subs_topic = delete_listed_subscriptions(before, [k \in DOMAIN topic_list |-> topic_list[k].name])

\* The loops implement the abstract set of topics: each pass regrants, adds or removes as
\* TopicFilters allows, or leaves the set alone.
Filters == INSTANCE TopicFilters
             WITH filters <- {subs_topic[s] : s \in Stored}, Capacity <- MAX_SUBS_TOPIC
ImplementsFilters == Filters!Spec

\* mqtt_packet.h: "The hash is used to match on a multiple levels": a name without it stands
\* for itself, so a name that was granted is stored.  (Refuted: a longer name swallows it.)
GrantedIsStored ==
  pc = "add" => \A k \in DOMAIN result_list :
    topic_list[k].name = <<>> \/ \E s \in Stored : subs_topic[s].name = topic_list[k].name
===============================================================================
