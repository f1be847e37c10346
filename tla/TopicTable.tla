------------------------------ MODULE TopicTable ------------------------------
(***************************************************************************)
(* The table of subscribed topics every client record of tiny_broker.c     *)
(* carries (tb_client_t.subs_topic), as pure operators.                    *)
(*                                                                         *)
(* A topic name is a sequence of characters; only the prefix order between *)
(* names matters, because the code compares names with memcmp over the     *)
(* length of the REQUESTED name.  Names fit MAX_TOPIC_NAME_SIZE, so a      *)
(* stored name is followed by zero bytes.  A slot whose name is empty is   *)
(* free: the code tests name[0].                                           *)
(***************************************************************************)
EXTENDS Integers, Sequences, SequencesExt

CONSTANT MAX_SUBS_TOPIC      \* slots in one client's table

ASSUME MaxSubsTopicAssumption == MAX_SUBS_TOPIC \in 1..254

TopicSlots == 0 .. MAX_SUBS_TOPIC - 1

NOT_FOUND == 255
SUB_ACK_FAIL == 80

FreeTopic == [name |-> <<>>, qos |-> 0]
EmptyTopicTable == [i \in TopicSlots |-> FreeTopic]

\* The first slot of the loops "for (i = 0; ...) if (...) return i;".
FirstSlot(S) == IF S = {} THEN NOT_FOUND ELSE CHOOSE i \in S : \A j \in S : i <= j

IsFreeTopic(t) == t.name = <<>>

\* Mutant: the stored name is compared over its own length.
HitSlotsReversed(table, name) ==
  {i \in TopicSlots : ~IsFreeTopic(table[i]) /\ IsPrefix(table[i].name, name)}

\* Slots the request for `name` hits: the request is a prefix of the stored name.
HitSlots(table, name) ==
  {i \in TopicSlots : ~IsFreeTopic(table[i]) /\ IsPrefix(name, table[i].name)}

get_subscribed_topic_pos(table, name) == FirstSlot(HitSlots(table, name))

\* Mutant: a full table gives slot 0.
find_free_slot_or_zero(table) ==
  LET free == {i \in TopicSlots : IsFreeTopic(table[i])}
  IN  IF free = {} THEN 0 ELSE FirstSlot(free)

find_first_free_slot_for_subs_topic(table) ==
  FirstSlot({i \in TopicSlots : IsFreeTopic(table[i])})

\* One pass of the loop of add_subscriptions_from_list for the request `topic`;
\* once a topic did not fit, it and every later one is answered SUB_ACK_FAIL.
add_one_subscription(st, topic) ==
  LET hit  == get_subscribed_topic_pos(st.table, topic.name)
      free == find_first_free_slot_for_subs_topic(st.table)
      fail == [st EXCEPT !.result = Append(@, SUB_ACK_FAIL), !.ok = FALSE]
      stored == [st EXCEPT !.result = Append(@, topic.qos)]
  IN  IF ~st.ok THEN fail
      ELSE IF hit # NOT_FOUND THEN [stored EXCEPT !.table[hit].qos = topic.qos]
      ELSE IF free # NOT_FOUND THEN [stored EXCEPT !.table[free] = topic]
      ELSE fail

add_subscriptions_from_list(table, topic_list) ==
  FoldLeft(add_one_subscription, [table |-> table, result |-> <<>>, ok |-> TRUE], topic_list)

\* delete_listed_subscriptions: every slot hit by one of the listed names is freed.
delete_listed_subscriptions(table, names) ==
  [i \in TopicSlots |->
     IF \E k \in DOMAIN names : i \in HitSlots(table, names[k]) THEN FreeTopic ELSE table[i]]
===============================================================================
