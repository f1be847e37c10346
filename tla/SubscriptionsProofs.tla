-------------------------- MODULE SubscriptionsProofs --------------------------
(***************************************************************************)
(* Theorems about a client's subscription table, for every number of slots *)
(* and every set of topic names, and its refinement of TopicFilters.       *)
(***************************************************************************)
EXTENDS Subscriptions, TopicTableProofs, FiniteSetTheorems, SequenceTheorems, WellFoundedInduction

\* The codes written belong to the passes done; nothing is refused while a call goes on.
ResultsFollowTheLoop ==
  /\ Len(result_list) <= Len(topic_list)
  /\ pc = "add" => Len(result_list) = i - 1 /\ \A k \in DOMAIN result_list : result_list[k] # SUB_ACK_FAIL
  /\ pc = "delete" => result_list = <<>>

\* The inductive invariant.
IInv ==
  /\ TypeOK
  /\ NoTopicTwice
  /\ GrantedIsCovered
  /\ RefusedOnlyWhenFull
  /\ SubscribeKeepsTopics
  /\ ResultsFollowTheLoop

-------------------------------------------------------------------------------
(* Searching the table *)

LEMMA TopicSlotsType == TopicSlots \in SUBSET (0 .. 253) /\ TopicSlots \in SUBSET Nat
  BY MaxSubsTopicAssumption DEF TopicSlots

\* Every name begins with itself, and with the empty name.
LEMMA PrefixFacts ==
  ASSUME NEW n \in Names
  PROVE  IsPrefix(n, n) /\ IsPrefix(<<>>, n)
<1>1. n \in Seq(STRING)
  BY NamesAssumption
<1>2. Len(n) \in Nat /\ Len(<<>>) = 0
  BY <1>1, LenProperties, EmptySeq
<1>3. SubSeq(n, 1, 0) = <<>> /\ SubSeq(<<>>, 1, 0) = <<>>
  BY <1>1
<1> QED
  BY <1>2, <1>3 DEF IsPrefix

\* A search for a topic hits a stored one that begins with it, or there is none.
LEMMA HitFound ==
  ASSUME NEW table, NEW n
  PROVE  LET p == get_subscribed_topic_pos(table, n)
         IN  /\ p # NOT_FOUND => /\ p \in TopicSlots
                                 /\ ~IsFreeTopic(table[p])
                                 /\ IsPrefix(n, table[p].name)
             /\ p = NOT_FOUND => \A s \in TopicSlots :
                                   ~IsFreeTopic(table[s]) => ~IsPrefix(n, table[s].name)
<1>1. HitSlots(table, n) \in SUBSET (0 .. 253) /\ HitSlots(table, n) \in SUBSET Nat
  BY TopicSlotsType DEF HitSlots
<1>2. get_subscribed_topic_pos(table, n) = NOT_FOUND <=> HitSlots(table, n) = {}
  BY <1>1, FirstSlotFound DEF get_subscribed_topic_pos
<1>3. HitSlots(table, n) # {} => get_subscribed_topic_pos(table, n) \in HitSlots(table, n)
  BY <1>1, FirstSlotLeast DEF get_subscribed_topic_pos
<1> QED
  BY <1>2, <1>3 DEF HitSlots

\* A search for a free slot finds one, or all are taken.
LEMMA FreeFound ==
  ASSUME NEW table
  PROVE  LET p == find_first_free_slot_for_subs_topic(table)
         IN  /\ p # NOT_FOUND => p \in TopicSlots /\ IsFreeTopic(table[p])
             /\ p = NOT_FOUND => \A s \in TopicSlots : ~IsFreeTopic(table[s])
<1> DEFINE S == {s \in TopicSlots : IsFreeTopic(table[s])}
<1>1. S \in SUBSET (0 .. 253) /\ S \in SUBSET Nat
  BY TopicSlotsType
<1>2. FirstSlot(S) = NOT_FOUND <=> S = {}
  BY <1>1, FirstSlotFound
<1>3. S # {} => FirstSlot(S) \in S
  BY <1>1, FirstSlotLeast
<1> QED
  BY <1>2, <1>3 DEF find_first_free_slot_for_subs_topic

\* The topic a pass works on.
LEMMA RequestType ==
  ASSUME TypeOK, i <= Len(topic_list)
  PROVE  topic_list[i] \in Requests /\ i \in Nat /\ topic_list[i].name \in Names
<1>1. topic_list \in Seq(Requests) /\ i \in 1 .. Len(topic_list) + 1
  BY DEF TypeOK
<1>2. Len(topic_list) \in Nat
  BY <1>1, LenProperties
<1>3. i \in 1 .. Len(topic_list)
  BY <1>1, <1>2
<1>4. topic_list[i] \in Requests
  BY <1>1, <1>3, ElementOfSeq
<1> QED
  BY <1>3, <1>4 DEF Requests

-------------------------------------------------------------------------------
(* The passes *)

LEMMA CodesType ==
  /\ SUB_ACK_FAIL \notin QoSs
  /\ \A q \in QoSs : q # SUB_ACK_FAIL
  /\ NOT_FOUND \notin TopicSlots
  BY QoSsAssumption, TopicSlotsType DEF SUB_ACK_FAIL, NOT_FOUND

\* One more code leaves the earlier ones as they are.
LEMMA AppendCode ==
  ASSUME TypeOK, NEW q \in QoSs
  PROVE  /\ Append(result_list, q) \in Seq(QoSs \cup {SUB_ACK_FAIL})
         /\ Len(result_list) \in Nat
         /\ DOMAIN result_list = 1 .. Len(result_list)
         /\ Len(Append(result_list, q)) = Len(result_list) + 1
         /\ DOMAIN Append(result_list, q) = 1 .. Len(result_list) + 1
         /\ \A k \in 1 .. Len(result_list) : Append(result_list, q)[k] = result_list[k]
         /\ Append(result_list, q)[Len(result_list) + 1] = q
<1>1. result_list \in Seq(QoSs \cup {SUB_ACK_FAIL})
  BY DEF TypeOK
<1>2. q \in QoSs \cup {SUB_ACK_FAIL}
  OBVIOUS
<1> QED
  BY <1>1, <1>2, AppendProperties, LenProperties

LEMMA ActualizeKeepsIInv == IInv /\ ActualizeQos => IInv'
<1> SUFFICES ASSUME IInv, ActualizeQos PROVE IInv'
  OBVIOUS
<1> DEFINE n == topic_list[i].name
           q == topic_list[i].qos
<1>1. topic_list[i] \in Requests /\ n \in Names /\ q \in QoSs
  BY RequestType DEF IInv, ActualizeQos, Running, Requests
<1>2. Hit \in TopicSlots /\ ~IsFreeTopic(subs_topic[Hit]) /\ IsPrefix(n, subs_topic[Hit].name)
  BY HitFound DEF ActualizeQos, Hit
<1>3. /\ subs_topic' = [subs_topic EXCEPT ![Hit].qos = q]
      /\ result_list' = Append(result_list, q)
      /\ pc = "add" /\ pc' = "add" /\ i' = i + 1
      /\ topic_list' = topic_list /\ ret' = ret /\ before' = before
  BY DEF ActualizeQos, Running, NextPass
<1>4. subs_topic \in [TopicSlots -> TopicType] /\ i \in 1 .. Len(topic_list) + 1 /\ Len(topic_list) \in Nat
  BY LenProperties DEF IInv, TypeOK
<1>5. /\ subs_topic' \in [TopicSlots -> TopicType]
      /\ \A s \in TopicSlots : subs_topic'[s].name = subs_topic[s].name
  BY <1>1, <1>2, <1>3, <1>4 DEF TopicType
<1>6. Stored' = Stored
  BY <1>5 DEF Stored, IsFreeTopic
<1>7. Hit \in Stored
  BY <1>2 DEF Stored
<1> HIDE DEF n, q
<1>8. TypeOK'
  BY <1>1, <1>3, <1>4, <1>5, AppendCode DEF IInv, TypeOK, ActualizeQos, Running
<1>9. NoTopicTwice' /\ SubscribeKeepsTopics'
  BY <1>3, <1>5, <1>6 DEF IInv, NoTopicTwice, SubscribeKeepsTopics, Stored
<1>10. \A k \in DOMAIN result_list : result_list[k] # SUB_ACK_FAIL
  BY <1>3 DEF IInv, ResultsFollowTheLoop
<1>11. ResultsFollowTheLoop'
  BY <1>1, <1>3, <1>4, <1>10, AppendCode, CodesType
  DEF IInv, ResultsFollowTheLoop, ActualizeQos, Running
<1>12. RefusedOnlyWhenFull'
  BY <1>3, <1>11 DEF ResultsFollowTheLoop, RefusedOnlyWhenFull
<1>13. GrantedIsCovered'
  <2> SUFFICES ASSUME NEW k \in DOMAIN result_list'
               PROVE  \/ topic_list[k].name = <<>>
                      \/ \E s \in Stored : IsPrefix(topic_list[k].name, subs_topic[s].name)
    BY <1>3, <1>5, <1>6 DEF GrantedIsCovered, Stored
  <2>1. k \in DOMAIN result_list \/ k = i
    BY <1>1, <1>3, <1>4, AppendCode DEF IInv, ResultsFollowTheLoop
  <2>2. CASE k = i
    BY <1>2, <1>7, <2>2 DEF n
  <2>3. CASE k \in DOMAIN result_list
    BY <1>10, <2>3 DEF IInv, GrantedIsCovered
  <2> QED
    BY <2>1, <2>2, <2>3
<1> QED
  BY <1>8, <1>9, <1>11, <1>12, <1>13 DEF IInv

LEMMA AddKeepsIInv == IInv /\ AddNewSubscription => IInv'
<1> SUFFICES ASSUME IInv, AddNewSubscription PROVE IInv'
  OBVIOUS
<1> DEFINE n == topic_list[i].name
           q == topic_list[i].qos
<1>1. topic_list[i] \in Requests /\ n \in Names /\ q \in QoSs /\ topic_list[i] \in TopicType
  BY RequestType DEF IInv, AddNewSubscription, Running, Requests, TopicType
<1>2. \A s \in Stored : ~IsPrefix(n, subs_topic[s].name)
  BY HitFound DEF AddNewSubscription, Hit, Stored
<1>3. Free \in TopicSlots /\ Free \notin Stored
  BY FreeFound DEF AddNewSubscription, Free, Stored
<1>4. /\ subs_topic' = [subs_topic EXCEPT ![Free] = topic_list[i]]
      /\ result_list' = Append(result_list, q)
      /\ pc = "add" /\ pc' = "add" /\ i' = i + 1
      /\ topic_list' = topic_list /\ ret' = ret /\ before' = before
  BY DEF AddNewSubscription, Running, NextPass
<1>5. subs_topic \in [TopicSlots -> TopicType] /\ i \in 1 .. Len(topic_list) + 1 /\ Len(topic_list) \in Nat
  BY LenProperties DEF IInv, TypeOK
<1>6. /\ subs_topic' \in [TopicSlots -> TopicType]
      /\ subs_topic'[Free] = topic_list[i]
      /\ \A s \in TopicSlots \ {Free} : subs_topic'[s] = subs_topic[s]
  BY <1>1, <1>3, <1>4, <1>5
<1>7. Stored' = IF n = <<>> THEN Stored ELSE Stored \cup {Free}
  BY <1>3, <1>6 DEF Stored, IsFreeTopic
<1> HIDE DEF n, q
<1>8. TypeOK'
  BY <1>1, <1>4, <1>5, <1>6, AppendCode DEF IInv, TypeOK, AddNewSubscription, Running
<1>9. NoTopicTwice'
  <2> SUFFICES ASSUME NEW s \in Stored', NEW t \in Stored',
                      subs_topic'[s].name = subs_topic'[t].name
               PROVE  s = t
    BY DEF NoTopicTwice
  <2>1. IsPrefix(n, n)
    BY <1>1, PrefixFacts
  <2>2. \A r \in Stored : r \in TopicSlots \ {Free} /\ subs_topic'[r] = subs_topic[r]
    BY <1>3, <1>6 DEF Stored
  <2>3. \A r \in Stored : subs_topic'[r].name # n
    BY <1>2, <2>1, <2>2
  <2>4. subs_topic'[Free].name = n
    BY <1>6 DEF n
  <2> QED
    BY <1>7, <2>2, <2>3, <2>4 DEF IInv, NoTopicTwice
<1>10. SubscribeKeepsTopics'
  BY <1>3, <1>4, <1>6 DEF IInv, SubscribeKeepsTopics, Stored, IsFreeTopic
<1>11. \A k \in DOMAIN result_list : result_list[k] # SUB_ACK_FAIL
  BY <1>4 DEF IInv, ResultsFollowTheLoop
<1>12. ResultsFollowTheLoop'
  BY <1>1, <1>4, <1>5, <1>11, AppendCode, CodesType
  DEF IInv, ResultsFollowTheLoop, AddNewSubscription, Running
<1>13. RefusedOnlyWhenFull'
  BY <1>4, <1>12 DEF ResultsFollowTheLoop, RefusedOnlyWhenFull
<1>14. GrantedIsCovered'
  <2> SUFFICES ASSUME NEW k \in DOMAIN result_list'
               PROVE  \/ topic_list[k].name = <<>>
                      \/ \E s \in Stored' : IsPrefix(topic_list[k].name, subs_topic'[s].name)
    BY <1>4 DEF GrantedIsCovered
  <2>1. k \in DOMAIN result_list \/ k = i
    BY <1>1, <1>4, <1>5, AppendCode DEF IInv, ResultsFollowTheLoop
  <2>2. CASE k = i
    <3>1. CASE n = <<>>
      BY <2>2, <3>1 DEF n
    <3>2. CASE n # <<>>
      BY <1>1, <1>6, <1>7, <2>2, <3>2, PrefixFacts DEF n
    <3> QED
      BY <3>1, <3>2
  <2>3. CASE k \in DOMAIN result_list
    <3>1. \/ topic_list[k].name = <<>>
          \/ \E s \in Stored : IsPrefix(topic_list[k].name, subs_topic[s].name)
      BY <1>11, <2>3 DEF IInv, GrantedIsCovered
    <3>2. \A s \in Stored : s \in Stored' /\ subs_topic'[s] = subs_topic[s]
      BY <1>3, <1>6, <1>7 DEF Stored
    <3> QED
      BY <3>1, <3>2
  <2> QED
    BY <2>1, <2>2, <2>3
<1> QED
  BY <1>8, <1>9, <1>10, <1>12, <1>13, <1>14 DEF IInv

LEMMA RefuseKeepsIInv == IInv /\ RefuseRest => IInv'
<1> SUFFICES ASSUME IInv, RefuseRest PROVE IInv'
  OBVIOUS
<1> DEFINE m == Len(topic_list)
           R(k) == IF k < i THEN result_list[k] ELSE SUB_ACK_FAIL
<1>1. /\ pc = "add" /\ pc' = "idle" /\ ret' = FALSE /\ i <= m
      /\ subs_topic' = subs_topic /\ topic_list' = topic_list /\ i' = i /\ before' = before
      /\ result_list' = [k \in 1 .. m |-> R(k)]
  BY DEF RefuseRest, Running
<1>2. m \in Nat /\ i \in 1 .. m
  <2>1. topic_list \in Seq(Requests) /\ i \in 1 .. m + 1
    BY DEF IInv, TypeOK
  <2> QED
    BY <1>1, <2>1, LenProperties
<1>3. /\ result_list \in Seq(QoSs \cup {SUB_ACK_FAIL})
      /\ Len(result_list) = i - 1
      /\ DOMAIN result_list = 1 .. i - 1
      /\ \A k \in 1 .. i - 1 : result_list[k] \in QoSs \cup {SUB_ACK_FAIL} /\ result_list[k] # SUB_ACK_FAIL
  <2>1. result_list \in Seq(QoSs \cup {SUB_ACK_FAIL}) /\ Len(result_list) = i - 1
    BY <1>1 DEF IInv, TypeOK, ResultsFollowTheLoop
  <2>2. DOMAIN result_list = 1 .. i - 1
    BY <2>1, LenProperties
  <2> QED
    BY <1>1, <2>1, <2>2, ElementOfSeq DEF IInv, ResultsFollowTheLoop
<1>4. \A k \in 1 .. m : R(k) \in QoSs \cup {SUB_ACK_FAIL}
  BY <1>2, <1>3
<1>5. /\ result_list' \in Seq(QoSs \cup {SUB_ACK_FAIL})
      /\ DOMAIN result_list' = 1 .. m
      /\ Len(result_list') = m
      /\ \A k \in 1 .. m : result_list'[k] = R(k)
  <2>1. result_list' \in [1 .. m -> QoSs \cup {SUB_ACK_FAIL}]
    BY <1>1, <1>4
  <2>2. result_list' \in Seq(QoSs \cup {SUB_ACK_FAIL})
    BY <1>2, <2>1, SeqDef
  <2> QED
    BY <1>1, <1>2, <2>1, <2>2, LenProperties
<1>6. Stored' = Stored /\ Stored = TopicSlots
  BY <1>1, FreeFound DEF RefuseRest, Free, Stored
<1>7. TypeOK'
  BY <1>1, <1>5 DEF IInv, TypeOK
<1>8. NoTopicTwice' /\ SubscribeKeepsTopics'
  BY <1>1, <1>6 DEF IInv, NoTopicTwice, SubscribeKeepsTopics
<1>9. RefusedOnlyWhenFull'
  BY <1>1, <1>6 DEF RefusedOnlyWhenFull
<1>10. GrantedIsCovered'
  <2> SUFFICES ASSUME NEW k \in 1 .. m, R(k) # SUB_ACK_FAIL
               PROVE  \/ topic_list[k].name = <<>>
                      \/ \E s \in Stored : IsPrefix(topic_list[k].name, subs_topic[s].name)
    BY <1>1, <1>5, <1>6 DEF GrantedIsCovered
  <2>1. k \in 1 .. i - 1
    BY <1>2
  <2> QED
    BY <1>3, <2>1 DEF IInv, GrantedIsCovered
<1>11. ResultsFollowTheLoop'
  BY <1>1, <1>2, <1>5 DEF ResultsFollowTheLoop
<1> QED
  BY <1>7, <1>8, <1>9, <1>10, <1>11 DEF IInv

LEMMA DeleteKeepsIInv == IInv /\ DeleteSubscribedTopic => IInv'
<1> SUFFICES ASSUME IInv, DeleteSubscribedTopic PROVE IInv'
  OBVIOUS
<1>1. /\ pc = "delete" /\ pc' = "delete" /\ i' = i + 1 /\ i <= Len(topic_list)
      /\ topic_list' = topic_list /\ ret' = ret /\ before' = before
      /\ result_list' = result_list
  BY DEF DeleteSubscribedTopic, Running, NextPass
<1>2. subs_topic \in [TopicSlots -> TopicType] /\ i \in 1 .. Len(topic_list) + 1 /\ Len(topic_list) \in Nat
  BY LenProperties DEF IInv, TypeOK
<1>3. FreeTopic \in TopicType /\ FreeTopic.name = <<>>
  BY QoSsAssumption DEF FreeTopic, TopicType
<1>4. /\ subs_topic' \in [TopicSlots -> TopicType]
      /\ \A s \in TopicSlots : subs_topic'[s] \in {FreeTopic, subs_topic[s]}
  <2>1. subs_topic' = [s \in TopicSlots |->
          IF s \in HitSlots(subs_topic, topic_list[i].name) THEN FreeTopic ELSE subs_topic[s]]
    BY DEF DeleteSubscribedTopic
  <2> QED
    BY <1>2, <1>3, <2>1
<1>5. \A s \in Stored' : s \in Stored /\ subs_topic'[s] = subs_topic[s]
  BY <1>3, <1>4 DEF Stored, IsFreeTopic
<1>6. result_list = <<>>
  BY <1>1 DEF IInv, ResultsFollowTheLoop
<1>7. DOMAIN <<>> = {} /\ Len(<<>>) = 0
  OBVIOUS
<1>8. TypeOK'
  BY <1>1, <1>2, <1>4 DEF IInv, TypeOK
<1>9. NoTopicTwice'
  BY <1>5 DEF IInv, NoTopicTwice
<1>10. SubscribeKeepsTopics' /\ GrantedIsCovered' /\ RefusedOnlyWhenFull' /\ ResultsFollowTheLoop'
  BY <1>1, <1>2, <1>6, <1>7
  DEF SubscribeKeepsTopics, GrantedIsCovered, RefusedOnlyWhenFull, ResultsFollowTheLoop
<1> QED
  BY <1>8, <1>9, <1>10 DEF IInv

LEMMA CallKeepsIInv ==
  ASSUME IInv, NEW loop \in {"add", "delete"}, NEW list \in Lists, Call(loop, list)
  PROVE  IInv'
<1>1. /\ pc' = loop /\ topic_list' = list /\ i' = 1 /\ result_list' = <<>>
      /\ before' = subs_topic /\ subs_topic' = subs_topic /\ ret' = ret
  BY DEF Call
<1>2. list \in Seq(Requests)
  BY SeqDef DEF Lists, SeqOf, TopicSlots
<1>3. Len(list) \in Nat
  BY <1>2, LenProperties
<1>4. <<>> \in Seq(QoSs \cup {SUB_ACK_FAIL}) /\ DOMAIN <<>> = {} /\ Len(<<>>) = 0
  OBVIOUS
<1>5. TypeOK'
  BY <1>1, <1>2, <1>3, <1>4 DEF IInv, TypeOK
<1>6. NoTopicTwice'
  BY <1>1 DEF IInv, NoTopicTwice, Stored
<1>7. SubscribeKeepsTopics' /\ GrantedIsCovered' /\ RefusedOnlyWhenFull' /\ ResultsFollowTheLoop'
  BY <1>1, <1>3, <1>4
  DEF SubscribeKeepsTopics, GrantedIsCovered, RefusedOnlyWhenFull, ResultsFollowTheLoop
<1> QED
  BY <1>5, <1>6, <1>7 DEF IInv

LEMMA ReturnKeepsIInv ==
  ASSUME IInv, NEW loop \in {"add", "delete"}, Return(loop)
  PROVE  IInv'
<1>1. /\ pc = loop /\ pc' = "idle" /\ ret' = TRUE
      /\ topic_list' = topic_list /\ i' = i /\ result_list' = result_list
      /\ before' = before /\ subs_topic' = subs_topic
  BY DEF Return
<1>2. \A k \in DOMAIN result_list : result_list[k] # SUB_ACK_FAIL
  BY <1>1 DEF IInv, ResultsFollowTheLoop
<1> QED
  BY <1>1, <1>2
  DEF IInv, TypeOK, NoTopicTwice, Stored, SubscribeKeepsTopics, GrantedIsCovered,
      RefusedOnlyWhenFull, ResultsFollowTheLoop

-------------------------------------------------------------------------------
(* Safety *)

LEMMA InitIInv == Init => IInv
<1> SUFFICES ASSUME Init PROVE IInv
  OBVIOUS
<1>1. EmptyTopicTable \in [TopicSlots -> TopicType]
  BY QoSsAssumption DEF EmptyTopicTable, FreeTopic, TopicType
<1>2. \A s \in TopicSlots : IsFreeTopic(EmptyTopicTable[s])
  BY DEF EmptyTopicTable, FreeTopic, IsFreeTopic
<1>3. Stored = {}
  BY <1>2 DEF Init, Stored
<1> QED
  BY <1>1, <1>3
  DEF Init, IInv, TypeOK, NoTopicTwice, SubscribeKeepsTopics, GrantedIsCovered,
      RefusedOnlyWhenFull, ResultsFollowTheLoop

LEMMA NextIInv == IInv /\ [Next]_vars => IInv'
<1> SUFFICES ASSUME IInv, [Next]_vars PROVE IInv'
  OBVIOUS
<1>1. CASE \E list \in Lists : Call("add", list) \/ Call("delete", list)
  BY <1>1, CallKeepsIInv
<1>2. CASE Loop
  BY <1>2, ActualizeKeepsIInv, AddKeepsIInv, RefuseKeepsIInv, DeleteKeepsIInv, ReturnKeepsIInv
  DEF Loop
<1>3. CASE UNCHANGED vars
  BY <1>3
  DEF vars, IInv, TypeOK, NoTopicTwice, Stored, SubscribeKeepsTopics, GrantedIsCovered,
      RefusedOnlyWhenFull, ResultsFollowTheLoop
<1> QED
  BY <1>1, <1>2, <1>3 DEF Next

\* Every reachable state satisfies the inductive invariant.
THEOREM SpecIInv == Spec => []IInv
  BY InitIInv, NextIInv, PTL DEF Spec

\* The table, the loop and its results keep their types.
THEOREM TypeCorrect == Spec => []TypeOK
  BY SpecIInv, PTL DEF IInv

\* No history of lists stores a topic twice.
THEOREM NoTopicTwiceHolds == Spec => []NoTopicTwice
  BY SpecIInv, PTL DEF IInv

\* What a SUBSCRIBE grants stays covered.
THEOREM GrantedIsCoveredHolds == Spec => []GrantedIsCovered
  BY SpecIInv, PTL DEF IInv

\* A SUBSCRIBE loses and renames no stored topic.
THEOREM SubscribeKeepsTopicsHolds == Spec => []SubscribeKeepsTopics
  BY SpecIInv, PTL DEF IInv

\* A topic is refused only if the table is full.
THEOREM RefusedOnlyWhenFullHolds == Spec => []RefusedOnlyWhenFull
  BY SpecIInv, PTL DEF IInv

-------------------------------------------------------------------------------
(* The passes of an UNSUBSCRIBE add up *)

\* After i - 1 passes the slots one of the first i - 1 names hit at the beginning are free, and
\* the rest are as they were.
FreedSoFar ==
  pc = "delete" =>
    \A s \in TopicSlots :
      subs_topic[s] = IF \E k \in 1 .. i - 1 : s \in HitSlots(before, topic_list[k].name)
                      THEN FreeTopic ELSE before[s]

LEMMA DeletePass ==
  ASSUME IInv, FreedSoFar, DeleteSubscribedTopic
  PROVE  FreedSoFar'
<1>1. /\ pc = "delete" /\ i' = i + 1 /\ topic_list' = topic_list /\ before' = before
      /\ subs_topic' = [s \in TopicSlots |->
           IF s \in HitSlots(subs_topic, topic_list[i].name) THEN FreeTopic ELSE subs_topic[s]]
  BY DEF DeleteSubscribedTopic, Running, NextPass
<1>2. i \in Nat /\ i >= 1 /\ i' - 1 = i
  BY <1>1, LenProperties DEF IInv, TypeOK
<1> SUFFICES ASSUME NEW s \in TopicSlots
             PROVE  subs_topic'[s] = IF \E k \in 1 .. i : s \in HitSlots(before, topic_list[k].name)
                                     THEN FreeTopic ELSE before[s]
  BY <1>1, <1>2 DEF FreedSoFar
<1>3. CASE \E k \in 1 .. i - 1 : s \in HitSlots(before, topic_list[k].name)
  <2>1. subs_topic[s] = FreeTopic
    BY <1>1, <1>3 DEF FreedSoFar
  <2>2. subs_topic'[s] = FreeTopic
    BY <1>1, <2>1
  <2>3. \E k \in 1 .. i : s \in HitSlots(before, topic_list[k].name)
    BY <1>2, <1>3
  <2> QED
    BY <2>2, <2>3
<1>4. CASE ~ \E k \in 1 .. i - 1 : s \in HitSlots(before, topic_list[k].name)
  <2>1. subs_topic[s] = before[s]
    BY <1>1, <1>4 DEF FreedSoFar
  <2>2. s \in HitSlots(subs_topic, topic_list[i].name) <=> s \in HitSlots(before, topic_list[i].name)
    BY <2>1 DEF HitSlots
  <2>3. (\E k \in 1 .. i : s \in HitSlots(before, topic_list[k].name))
          <=> s \in HitSlots(before, topic_list[i].name)
    BY <1>2, <1>4
  <2> QED
    BY <1>1, <2>1, <2>2, <2>3
<1> QED
  BY <1>3, <1>4

LEMMA FreedStep == IInv /\ FreedSoFar /\ [Next]_vars => FreedSoFar'
<1> SUFFICES ASSUME IInv, FreedSoFar, [Next]_vars PROVE FreedSoFar'
  OBVIOUS
<1>1. ASSUME NEW list \in Lists, Call("add", list) \/ Call("delete", list) PROVE FreedSoFar'
  <2>1. i' = 1 /\ before' = subs_topic /\ subs_topic' = subs_topic
    BY <1>1 DEF Call
  <2> QED
    BY <2>1 DEF FreedSoFar
<1>2. CASE ActualizeQos \/ AddNewSubscription \/ RefuseRest
  BY <1>2 DEF ActualizeQos, AddNewSubscription, RefuseRest, Running, NextPass, FreedSoFar
<1>3. CASE Return("add") \/ Return("delete")
  BY <1>3 DEF Return, FreedSoFar
<1>4. CASE UNCHANGED vars
  BY <1>4 DEF vars, FreedSoFar
<1> QED
  BY <1>1, <1>2, <1>3, <1>4, DeletePass DEF Next, Loop

LEMMA FreedIsExact == IInv /\ FreedSoFar => DeleteIsExact
<1> SUFFICES ASSUME IInv, FreedSoFar, pc = "delete", i > Len(topic_list)
             PROVE  subs_topic = delete_listed_subscriptions(before,
                                   [k \in DOMAIN topic_list |-> topic_list[k].name])
  BY DEF DeleteIsExact
<1>1. topic_list \in Seq(Requests) /\ i \in 1 .. Len(topic_list) + 1 /\ Len(topic_list) \in Nat
  BY LenProperties DEF IInv, TypeOK
<1>2. DOMAIN topic_list = 1 .. i - 1
  BY <1>1, LenProperties
<1>3. subs_topic = [s \in TopicSlots |-> subs_topic[s]]
  BY DEF IInv, TypeOK
<1>4. \A s \in TopicSlots :
        subs_topic[s] = IF \E k \in DOMAIN topic_list : s \in HitSlots(before, topic_list[k].name)
                        THEN FreeTopic ELSE before[s]
  BY <1>2 DEF FreedSoFar
<1> QED
  BY <1>3, <1>4 DEF delete_listed_subscriptions

\* An UNSUBSCRIBE list frees exactly the slots its names hit when it began: no pass undoes or
\* repeats another.
THEOREM DeleteIsExactHolds == Spec => []DeleteIsExact
<1>1. Init => FreedSoFar
  BY DEF Init, FreedSoFar
<1> QED
  BY <1>1, FreedStep, FreedIsExact, SpecIInv, PTL DEF Spec

-------------------------------------------------------------------------------
(* The fold *)

\* What holds of 0 and passes from each number to the next holds of all.
LEMMA FromEachToTheNext ==
  ASSUME NEW T, 0 \in T, \A n \in Nat : n \in T => n + 1 \in T
  PROVE  \A n \in Nat : n \in T
<1> SUFFICES ASSUME NEW n \in Nat, n \notin T
             PROVE  FALSE
  OBVIOUS
<1> DEFINE S == {m \in Nat : m \notin T}
<1>1. PICK least \in S : \A m \in S : ~(<<m, least>> \in OpToRel(<, Nat))
  <2>1. S \subseteq Nat /\ S # {}
    OBVIOUS
  <2> HIDE DEF S
  <2>2. IsWellFoundedOn(OpToRel(<, Nat), Nat)
    BY NatLessThanWellFounded
  <2> QED
    BY Zenon, <2>1, <2>2, WFMin
<1>2. \A m \in S : ~(m < least)
  BY <1>1 DEF OpToRel
<1>3. least \in Nat /\ least \notin T /\ least # 0
  OBVIOUS
<1>4. least - 1 \in Nat /\ least - 1 < least /\ (least - 1) + 1 = least
  BY <1>3
<1> QED
  BY <1>2, <1>3, <1>4

Largest(S) == CHOOSE x \in S : \A y \in S : x >= y

Unanswered(table) == [table |-> table, result |-> <<>>, ok |-> TRUE]

\* The recursion of FoldLeft, over the sets of positions of the list.
Folds(table, list, S, g) ==
  g = [s \in SUBSET S |->
         IF s = {} THEN Unanswered(table)
         ELSE add_one_subscription(g[s \ {Largest(s)}], list[Largest(s)])]

LEMMA FoldIs ==
  ASSUME NEW table, NEW list
  PROVE  add_subscriptions_from_list(table, list) = (CHOOSE g : Folds(table, list, DOMAIN list, g))[DOMAIN list]
BY Zenon DEF add_subscriptions_from_list, FoldLeft, MapThenFoldSet, Folds, Largest, Max, Unanswered

LEMMA LargestIs ==
  ASSUME NEW n \in Nat, NEW s \in SUBSET (1 .. n + 1), n + 1 \in s
  PROVE  Largest(s) = n + 1 /\ s \ {n + 1} \in SUBSET (1..n)
<1>1. \A y \in s : n + 1 >= y
  OBVIOUS
<1>2. \A x \in s : (\A y \in s : x >= y) => x = n + 1
  OBVIOUS
<1>3. Largest(s) = n + 1
  BY <1>1, <1>2 DEF Largest
<1> QED
  BY <1>3

LEMMA LargestWithin ==
  ASSUME NEW n \in Nat, NEW s \in SUBSET (1..n)
  PROVE  s \ {Largest(s)} \in SUBSET (1..n)
OBVIOUS

\* Such a function exists for every list: from each length to the next.
LEMMA FoldsOn ==
  ASSUME NEW table, NEW list, NEW n \in Nat, NEW g, Folds(table, list, 1..n, g)
  PROVE  \E h : Folds(table, list, 1 .. n + 1, h)
<1> DEFINE step(f, s) == add_one_subscription(f[s \ {Largest(s)}], list[Largest(s)])
           none == Unanswered(table)
           h == [s \in SUBSET (1 .. n + 1) |-> IF n + 1 \in s THEN step(g, s) ELSE g[s]]
<1>1. g = [s \in SUBSET (1..n) |-> IF s = {} THEN none ELSE step(g, s)]
  BY Zenon DEF Folds
<1>2. ASSUME NEW s \in SUBSET (1 .. n + 1)
      PROVE  h[s] = IF s = {} THEN none ELSE step(h, s)
  <2>1. CASE n + 1 \in s
    <3>1. Largest(s) = n + 1 /\ s \ {Largest(s)} \in SUBSET (1..n)
      BY <2>1, LargestIs
    <3>2. n + 1 \notin s \ {Largest(s)} /\ s \ {Largest(s)} \in SUBSET (1 .. n + 1) /\ s # {}
      BY <2>1, <3>1
    <3>3. h[s \ {Largest(s)}] = g[s \ {Largest(s)}]
      BY Zenon, <3>2
    <3>4. h[s] = step(g, s)
      BY Zenon, <2>1
    <3> QED
      BY Zenon, <3>2, <3>3, <3>4
  <2>2. CASE n + 1 \notin s
    <3>1. s \in SUBSET (1..n)
      BY <2>2
    <3>2. s \ {Largest(s)} \in SUBSET (1 .. n + 1) /\ n + 1 \notin s \ {Largest(s)}
      BY <2>2
    <3>3. h[s \ {Largest(s)}] = g[s \ {Largest(s)}] /\ h[s] = g[s]
      BY Zenon, <2>2, <3>2
    <3>4. g[s] = IF s = {} THEN none ELSE step(g, s)
      BY Zenon, <1>1, <3>1
    <3> QED
      BY Zenon, <3>3, <3>4
  <2> QED
    BY <2>1, <2>2
<1>3. h = [s \in SUBSET (1 .. n + 1) |-> h[s]]
  OBVIOUS
<1> HIDE DEF h
<1>4. h = [s \in SUBSET (1 .. n + 1) |-> IF s = {} THEN none ELSE step(h, s)]
  BY <1>2, <1>3
<1> QED
  BY Zenon, <1>4 DEF Folds

LEMMA FoldExists == \A table, list : \A n \in Nat : \E g : Folds(table, list, 1..n, g)
<1> SUFFICES ASSUME NEW table, NEW list
             PROVE  \A n \in Nat : \E g : Folds(table, list, 1..n, g)
  OBVIOUS
<1> DEFINE T == {n \in Nat : \E g : Folds(table, list, 1..n, g)}
<1>1. 0 \in T
  <2> DEFINE g == [s \in SUBSET (1..0) |-> Unanswered(table)]
  <2>1. \A s \in SUBSET (1..0) : s = {}
    OBVIOUS
  <2>2. g = [s \in SUBSET (1..0) |->
               IF s = {} THEN Unanswered(table)
               ELSE add_one_subscription(g[s \ {Largest(s)}], list[Largest(s)])]
    BY <2>1
  <2> HIDE DEF g
  <2>3. Folds(table, list, 1..0, g)
    BY Zenon, <2>2 DEF Folds
  <2> QED
    BY Zenon, <2>3
<1>2. \A n \in Nat : n \in T => n + 1 \in T
  <2> SUFFICES ASSUME NEW n \in Nat, n \in T
               PROVE  n + 1 \in T
    OBVIOUS
  <2>1. PICK g : Folds(table, list, 1..n, g)
    OBVIOUS
  <2>2. \E h : Folds(table, list, 1 .. n + 1, h)
    BY <2>1, FoldsOn
  <2> QED
    BY <2>2
<1> HIDE DEF T
<1>3. \A n \in Nat : n \in T
  BY <1>1, <1>2, FromEachToTheNext
<1> QED
  BY <1>3 DEF T

\* st after each of the passes over the list, from the table on.
Passes(table, list, st) ==
  /\ st[0] = Unanswered(table)
  /\ \A k \in 1..Len(list) : st[k] = add_one_subscription(st[k - 1], list[k])

\* The fold is what the last of the passes leaves.
LEMMA FoldIsTheLastPass ==
  ASSUME NEW table, NEW list \in Seq(Requests)
  PROVE  \E st : Passes(table, list, st) /\ add_subscriptions_from_list(table, list) = st[Len(list)]
<1> DEFINE g == CHOOSE h : Folds(table, list, DOMAIN list, h)
           st == [k \in 0..Len(list) |-> g[1..k]]
<1>1. Len(list) \in Nat /\ DOMAIN list = 1..Len(list)
  OBVIOUS
<1>2. \E h : Folds(table, list, DOMAIN list, h)
  BY Zenon, <1>1, FoldExists
<1>3. Folds(table, list, 1..Len(list), g)
  BY Zenon, <1>1, <1>2
<1>4. add_subscriptions_from_list(table, list) = g[1..Len(list)]
  BY Zenon, <1>1, FoldIs
<1> HIDE DEF g
<1>5. \A s \in SUBSET (1..Len(list)) :
        g[s] = IF s = {} THEN Unanswered(table)
               ELSE add_one_subscription(g[s \ {Largest(s)}], list[Largest(s)])
  BY Zenon, <1>3 DEF Folds
<1>6. st[0] = Unanswered(table)
  <2>1. 1..0 = {} /\ 1..0 \in SUBSET (1..Len(list)) /\ 0 \in 0..Len(list)
    BY <1>1
  <2>2. g[1..0] = Unanswered(table)
    BY Zenon, <1>5, <2>1
  <2> QED
    BY Zenon, <2>1, <2>2
<1>7. ASSUME NEW k \in 1..Len(list)
      PROVE  st[k] = add_one_subscription(st[k - 1], list[k])
  <2>1. PICK j \in Nat : j + 1 = k /\ k - 1 = j
    <3>1. k - 1 \in Nat /\ (k - 1) + 1 = k
      BY <1>1
    <3> QED
      BY Zenon, <3>1
  <2>2. 1..k \in SUBSET (1 .. j + 1) /\ j + 1 \in 1..k
    BY <1>1, <2>1
  <2>3. Largest(1..k) = k
    BY <2>1, <2>2, LargestIs
  <2>4. /\ (1..k) \ {k} = 1..j /\ 1..k # {} /\ 1..k \in SUBSET (1..Len(list))
        /\ k \in 0..Len(list) /\ j \in 0..Len(list)
    <3>1. j \in Nat /\ k = j + 1 /\ k <= Len(list)
      BY <1>1, <2>1
    <3>2. (1 .. j + 1) \ {j + 1} = 1..j /\ 1 .. j + 1 # {}
      <4>1. \A x : x \in (1 .. j + 1) \ {j + 1} <=> x \in 1..j
        BY <3>1
      <4>2. 1 \in 1 .. j + 1
        BY <3>1
      <4>3. (1 .. j + 1) \ {j + 1} = 1..j
        BY Zenon, <4>1
      <4> QED
        BY Zenon, <4>2, <4>3
    <3>3. 1..k \in SUBSET (1..Len(list)) /\ k \in 0..Len(list) /\ j \in 0..Len(list)
      BY <1>1, <3>1
    <3> QED
      BY Zenon, <3>1, <3>2, <3>3
  <2>5. g[1..k] = add_one_subscription(g[1..j], list[k])
    BY Zenon, <1>5, <2>3, <2>4
  <2>6. st[k] = g[1..k] /\ st[j] = g[1..j]
    BY Zenon, <2>4
  <2> QED
    BY Zenon, <2>1, <2>5, <2>6
<1>8. st[Len(list)] = g[1..Len(list)]
  BY <1>1
<1> HIDE DEF st
<1>9. Passes(table, list, st)
  BY Zenon, <1>6, <1>7 DEF Passes
<1> QED
  BY Zenon, <1>4, <1>8, <1>9

-------------------------------------------------------------------------------
(* The passes of a SUBSCRIBE add up *)

State(table, codes, ok) == [table |-> table, result |-> codes, ok |-> ok]

\* What one pass stores, and answers, after the passes before it.
StoresInto(table, topic, hit, free, after) ==
  \/ hit # NOT_FOUND /\ after = [table EXCEPT ![hit].qos = topic.qos]
  \/ hit = NOT_FOUND /\ free # NOT_FOUND /\ after = [table EXCEPT ![free] = topic]

PassStores(table, codes, topic, after) ==
  add_one_subscription(State(table, codes, TRUE), topic) = State(after, Append(codes, topic.qos), TRUE)

PassRefuses(table, codes, topic, ok) ==
  add_one_subscription(State(table, codes, ok), topic) = State(table, Append(codes, SUB_ACK_FAIL), FALSE)

LEMMA OnePass ==
  ASSUME NEW table, NEW codes, NEW topic,
         NEW hit, hit = get_subscribed_topic_pos(table, topic.name),
         NEW free, free = find_first_free_slot_for_subs_topic(table)
  PROVE  /\ PassRefuses(table, codes, topic, FALSE)
         /\ hit = NOT_FOUND /\ free = NOT_FOUND => PassRefuses(table, codes, topic, TRUE)
         /\ \A after : StoresInto(table, topic, hit, free, after) => PassStores(table, codes, topic, after)
BY DEF add_one_subscription, State, StoresInto, PassStores, PassRefuses

\* The passes done so far are those of the fold; a call that has returned has done them all.
FoldSoFar ==
  /\ pc = "add" =>
       \A st : Passes(before, topic_list, st) => st[i - 1] = State(subs_topic, result_list, TRUE)
  /\ pc = "idle" /\ result_list # <<>> =>
       \A st : Passes(before, topic_list, st) => st[Len(topic_list)] = State(subs_topic, result_list, ret)

\* A pass that stores something is the next one of the fold.
LEMMA StoringPass ==
  ASSUME IInv, FoldSoFar, ActualizeQos \/ AddNewSubscription
  PROVE  FoldSoFar'
<1>1. /\ pc = "add" /\ pc' = "add" /\ i' = i + 1 /\ topic_list' = topic_list /\ before' = before
      /\ i <= Len(topic_list)
      /\ result_list' = Append(result_list, topic_list[i].qos)
      /\ \/ Hit # NOT_FOUND /\ subs_topic' = [subs_topic EXCEPT ![Hit].qos = topic_list[i].qos]
         \/ Hit = NOT_FOUND /\ Free # NOT_FOUND /\ subs_topic' = [subs_topic EXCEPT ![Free] = topic_list[i]]
  BY DEF ActualizeQos, AddNewSubscription, Running, NextPass
<1>2. i \in Nat /\ i \in 1..Len(topic_list) /\ i' - 1 = i
  BY <1>1, LenProperties DEF IInv, TypeOK
<1>3. ASSUME NEW st, Passes(before, topic_list, st)
      PROVE  st[i] = State(subs_topic', result_list', TRUE)
  <2>1. st[i] = add_one_subscription(st[i - 1], topic_list[i])
    BY Zenon, <1>2, <1>3 DEF Passes
  <2>2. st[i - 1] = State(subs_topic, result_list, TRUE)
    BY Zenon, <1>1, <1>3 DEF FoldSoFar
  <2>3. add_one_subscription(State(subs_topic, result_list, TRUE), topic_list[i])
          = State(subs_topic', result_list', TRUE)
    <3>1. Hit = get_subscribed_topic_pos(subs_topic, topic_list[i].name)
          /\ Free = find_first_free_slot_for_subs_topic(subs_topic)
      BY DEF Hit, Free
    <3>2. StoresInto(subs_topic, topic_list[i], Hit, Free, subs_topic')
      BY Zenon, <1>1 DEF StoresInto
    <3>3. PassStores(subs_topic, result_list, topic_list[i], subs_topic')
      BY Zenon, <3>1, <3>2, OnePass
    <3> QED
      BY Zenon, <1>1, <3>3 DEF PassStores
  <2> QED
    BY Zenon, <2>1, <2>2, <2>3
<1> QED
  BY <1>1, <1>2, <1>3 DEF FoldSoFar

\* The early return answers what the passes it leaves out would answer.
LEMMA RefusingPass ==
  ASSUME IInv, FoldSoFar, RefuseRest
  PROVE  FoldSoFar'
<1> DEFINE codes(n) == [k \in 1..n |-> IF k < i THEN result_list[k] ELSE SUB_ACK_FAIL]
           n == Len(topic_list)
<1>1. /\ pc = "add" /\ pc' = "idle" /\ topic_list' = topic_list /\ before' = before
      /\ i <= n /\ Hit = NOT_FOUND /\ Free = NOT_FOUND
      /\ result_list' = codes(n) /\ subs_topic' = subs_topic /\ ret' = FALSE
  BY DEF RefuseRest, Running
<1>2. n \in Nat /\ i \in Nat /\ i \in 1..n /\ i - 1 \in Nat
  BY <1>1, LenProperties DEF IInv, TypeOK
<1>3. result_list \in Seq(QoSs \cup {SUB_ACK_FAIL}) /\ Len(result_list) = i - 1
  BY <1>1 DEF IInv, TypeOK, ResultsFollowTheLoop
<1>4. Append(result_list, SUB_ACK_FAIL) = codes(i)
  <2> DEFINE all == Append(result_list, SUB_ACK_FAIL)
  <2>1. /\ all \in Seq(QoSs \cup {SUB_ACK_FAIL}) /\ Len(all) = i
        /\ \A k \in 1 .. i - 1 : all[k] = result_list[k]
        /\ all[i] = SUB_ACK_FAIL
    BY <1>2, <1>3, AppendProperties
  <2> HIDE DEF all
  <2>2. all = [k \in 1..i |-> all[k]]
    BY <2>1
  <2>3. \A k \in 1..i : all[k] = IF k < i THEN result_list[k] ELSE SUB_ACK_FAIL
    BY <1>2, <2>1
  <2>4. all = [k \in 1..i |-> IF k < i THEN result_list[k] ELSE SUB_ACK_FAIL]
    BY <2>2, <2>3
  <2> QED
    BY <2>4 DEF all
<1>5. \A k \in Nat : i <= k => Append(codes(k), SUB_ACK_FAIL) = codes(k + 1)
  BY <1>2
<1> HIDE DEF codes, n
<1>6. ASSUME NEW st, Passes(before, topic_list, st)
      PROVE  st[n] = State(subs_topic', result_list', FALSE)
  <2> DEFINE P(k) == i + k <= n => st[i + k] = State(subs_topic, codes(i + k), FALSE)
             T == {k \in Nat : P(k)}
  <2>1. st[i] = State(subs_topic, codes(i), FALSE)
    <3>1. st[i] = add_one_subscription(st[i - 1], topic_list[i])
      BY Zenon, <1>2, <1>6 DEF Passes, n
    <3>2. st[i - 1] = State(subs_topic, result_list, TRUE)
      BY Zenon, <1>1, <1>6 DEF FoldSoFar
    <3>3. add_one_subscription(State(subs_topic, result_list, TRUE), topic_list[i])
            = State(subs_topic, Append(result_list, SUB_ACK_FAIL), FALSE)
      BY <1>1, OnePass DEF Hit, Free, PassRefuses
    <3> QED
      BY Zenon, <1>4, <3>1, <3>2, <3>3
  <2>2. 0 \in T
    <3>1. i + 0 = i
      BY <1>2
    <3> QED
      BY <2>1, <3>1
  <2>3. ASSUME NEW k \in Nat, k \in T
        PROVE  k + 1 \in T
    <3> HIDE DEF P
    <3> SUFFICES P(k + 1)
      OBVIOUS
    <3> SUFFICES ASSUME i + (k + 1) <= n
                 PROVE  st[i + (k + 1)] = State(subs_topic, codes(i + (k + 1)), FALSE)
      BY Zenon DEF P
    <3>1. PICK m \in Nat : i + k = m /\ i + (k + 1) = m + 1 /\ m + 1 \in 1..n /\ (m + 1) - 1 = m /\ i <= m
      <4>1. /\ i + k \in Nat /\ i + (k + 1) = (i + k) + 1 /\ (i + k) + 1 \in 1..n
            /\ ((i + k) + 1) - 1 = i + k /\ i <= i + k
        BY <1>2
      <4> QED
        BY Zenon, <4>1
    <3>2. i + k <= n
      BY <1>2
    <3>3. st[m] = State(subs_topic, codes(m), FALSE)
      BY Zenon, <2>3, <3>1, <3>2 DEF P
    <3>4. st[m + 1] = add_one_subscription(st[m], topic_list[m + 1])
      BY Zenon, <1>6, <3>1 DEF Passes, n
    <3>5. add_one_subscription(State(subs_topic, codes(m), FALSE), topic_list[m + 1])
            = State(subs_topic, Append(codes(m), SUB_ACK_FAIL), FALSE)
      BY Zenon, OnePass DEF PassRefuses
    <3> QED
      BY Zenon, <1>5, <3>1, <3>3, <3>4, <3>5
  <2> HIDE DEF T
  <2>4. \A k \in Nat : k \in T
    BY <2>2, <2>3, FromEachToTheNext
  <2>5. PICK k \in Nat : i + k = n
    <3>1. n - i \in Nat /\ i + (n - i) = n
      BY <1>2
    <3> QED
      BY Zenon, <3>1
  <2>6. i + k <= n => st[i + k] = State(subs_topic, codes(i + k), FALSE)
    BY Zenon, <2>4 DEF T
  <2>7. i + k <= n
    BY <1>2, <2>5
  <2> QED
    BY Zenon, <1>1, <2>5, <2>6, <2>7
<1> QED
  BY <1>1, <1>6 DEF FoldSoFar, n

LEMMA FoldStep == IInv /\ FoldSoFar /\ [Next]_vars => FoldSoFar'
<1> SUFFICES ASSUME IInv, FoldSoFar, [Next]_vars PROVE FoldSoFar'
  OBVIOUS
<1>1. ASSUME NEW list \in Lists, Call("add", list) \/ Call("delete", list) PROVE FoldSoFar'
  <2>1. i' - 1 = 0 /\ before' = subs_topic /\ subs_topic' = subs_topic /\ result_list' = <<>> /\ pc' # "idle"
    BY <1>1 DEF Call
  <2>2. \A st : Passes(before', topic_list', st) => st[0] = State(subs_topic', result_list', TRUE)
    BY <2>1 DEF Passes, Unanswered, State
  <2> QED
    BY <2>1, <2>2 DEF FoldSoFar
<1>2. CASE DeleteSubscribedTopic
  BY <1>2 DEF DeleteSubscribedTopic, Running, NextPass, FoldSoFar
<1>3. CASE Return("delete")
  BY <1>3 DEF Return, FoldSoFar, IInv, ResultsFollowTheLoop
<1>4. CASE Return("add")
  <2>1. /\ pc = "add" /\ pc' = "idle" /\ ret' = TRUE /\ i > Len(topic_list)
        /\ UNCHANGED <<subs_topic, topic_list, i, result_list, before>>
    BY <1>4 DEF Return
  <2>2. i - 1 = Len(topic_list)
    BY <2>1, LenProperties DEF IInv, TypeOK
  <2> QED
    BY <2>1, <2>2 DEF FoldSoFar
<1>5. CASE UNCHANGED vars
  BY <1>5 DEF vars, FoldSoFar
<1> QED
  BY <1>1, <1>2, <1>3, <1>4, <1>5, StoringPass, RefusingPass DEF Next, Loop

\* When a call has answered its list, table, codes and return value are those of folding the list
\* over the table it began with.
THEOREM AddIsTheFoldHolds == Spec => []AddIsTheFold
<1>1. Init => FoldSoFar
  BY DEF Init, FoldSoFar
<1>2. IInv /\ FoldSoFar => AddIsTheFold
  <2> SUFFICES ASSUME IInv, FoldSoFar, pc = "idle", result_list # <<>>
               PROVE  State(subs_topic, result_list, ret) = add_subscriptions_from_list(before, topic_list)
    BY DEF AddIsTheFold, State
  <2>1. topic_list \in Seq(Requests)
    BY DEF IInv, TypeOK
  <2>2. PICK st : Passes(before, topic_list, st)
                    /\ add_subscriptions_from_list(before, topic_list) = st[Len(topic_list)]
    BY Zenon, <2>1, FoldIsTheLastPass
  <2> QED
    BY <2>2 DEF FoldSoFar
<1> QED
  BY <1>1, <1>2, FoldStep, SpecIInv, PTL DEF Spec

-------------------------------------------------------------------------------
(* Refinement *)

Topics == {subs_topic[s] : s \in Stored}

\* The operators TopicFilters uses are those the table uses.
LEMMA SameOperators ==
  /\ \A m, n : Filters!IsPrefix(m, n) <=> IsPrefix(m, n)
  /\ \A S : Filters!Cardinality(S) = Cardinality(S)
<1>1. \A m, n : Filters!IsPrefix(m, n) <=> IsPrefix(m, n)
  BY DEF Filters!IsPrefix, IsPrefix
<1>2. \A S : Filters!Cardinality(S) = Cardinality(S)
  BY DEF Filters!Cardinality, Cardinality
<1> QED
  BY <1>1, <1>2

\* A free slot is left over for the topic to come.
LEMMA TopicsBelowCapacity ==
  ASSUME NEW p \in TopicSlots, p \notin Stored
  PROVE  IsFiniteSet(Topics) /\ Cardinality(Topics) < MAX_SUBS_TOPIC
<1> DEFINE f == [s \in Stored |-> subs_topic[s]]
<1>1. /\ IsFiniteSet(TopicSlots) /\ Cardinality(TopicSlots) = MAX_SUBS_TOPIC
      /\ MAX_SUBS_TOPIC \in Nat
  BY MaxSubsTopicAssumption, FS_Interval DEF TopicSlots
<1>2. IsFiniteSet(TopicSlots \ {p}) /\ Cardinality(TopicSlots \ {p}) = MAX_SUBS_TOPIC - 1
  BY <1>1, FS_RemoveElement
<1>3. Stored \in SUBSET (TopicSlots \ {p})
  BY DEF Stored
<1>4. IsFiniteSet(Stored) /\ Cardinality(Stored) <= MAX_SUBS_TOPIC - 1
  BY <1>2, <1>3, FS_Subset
<1>5. f \in Surjection(Stored, Topics)
  BY DEF Surjection, Topics
<1>6. IsFiniteSet(Topics) /\ Cardinality(Topics) <= Cardinality(Stored)
  BY <1>4, <1>5, FS_Surjection
<1>7. Cardinality(Topics) \in Nat /\ Cardinality(Stored) \in Nat
  BY <1>4, <1>6, FS_CardinalityType
<1> QED
  BY <1>1, <1>4, <1>6, <1>7

\* The pass that actualizes a topic regrants it.
LEMMA ActualizeRegrants ==
  ASSUME IInv, ActualizeQos
  PROVE  Filters!Next
<1> DEFINE n == topic_list[i].name
           q == topic_list[i].qos
           f == subs_topic[Hit]
           g == [name |-> f.name, qos |-> q]
<1>1. n \in Names /\ q \in QoSs
  BY RequestType DEF IInv, ActualizeQos, Running, Requests
<1>2. Hit \in TopicSlots /\ Hit \in Stored /\ IsPrefix(n, f.name)
  BY HitFound DEF ActualizeQos, Hit, Stored
<1>3. subs_topic \in [TopicSlots -> TopicType] /\ f \in TopicType
  BY <1>2 DEF IInv, TypeOK
<1>4. subs_topic' = [subs_topic EXCEPT ![Hit].qos = q]
  BY DEF ActualizeQos
<1> HIDE DEF n, q
<1>5. subs_topic'[Hit] = g /\ \A s \in TopicSlots : s # Hit => subs_topic'[s] = subs_topic[s]
  BY <1>2, <1>3, <1>4 DEF TopicType
<1>6. Stored' = Stored
  BY <1>3, <1>5 DEF Stored, IsFreeTopic
<1>7. \A s \in Stored : s # Hit => subs_topic[s] # f
  BY <1>2 DEF IInv, NoTopicTwice
<1>8. Topics' = (Topics \ {f}) \cup {g}
  <2>1. Topics' = {subs_topic'[s] : s \in Stored}
    BY <1>6 DEF Topics
  <2>2. Stored \subseteq TopicSlots
    BY DEF Stored
  <2> QED
    <3>1. \A t \in Topics' : t = g \/ (t \in Topics /\ t # f)
      BY <1>5, <1>7, <2>1, <2>2 DEF Topics
    <3>2. \A t \in Topics : t # f => t \in Topics'
      BY <1>5, <2>1, <2>2 DEF Topics
    <3>3. g \in Topics'
      BY <1>2, <1>5, <2>1
    <3> QED
      BY <3>1, <3>2, <3>3
<1>9. f \in Filters!Begins(n)
  BY <1>2, SameOperators DEF Filters!Begins
<1>10. Filters!Regrant(n, q)
  BY <1>8, <1>9 DEF Filters!Regrant, Topics
<1> QED
  BY <1>1, <1>10 DEF Filters!Next, Filters!Regrant

\* The pass that adds a topic grants it; the empty name is written and leaves the slot free.
LEMMA AddGrants ==
  ASSUME IInv, AddNewSubscription
  PROVE  Filters!Next \/ Topics' = Topics
<1> DEFINE t == topic_list[i]
<1>1. t \in Requests /\ t.name \in Names /\ t.qos \in QoSs /\ t = [name |-> t.name, qos |-> t.qos]
  BY RequestType DEF IInv, AddNewSubscription, Running, Requests
<1>2. Free \in TopicSlots /\ Free \notin Stored
  BY FreeFound DEF AddNewSubscription, Free, Stored
<1>3. \A s \in Stored : ~IsPrefix(t.name, subs_topic[s].name)
  BY HitFound DEF AddNewSubscription, Hit, Stored
<1>4. subs_topic \in [TopicSlots -> TopicType] /\ subs_topic' = [subs_topic EXCEPT ![Free] = t]
  BY DEF IInv, TypeOK, AddNewSubscription
<1> HIDE DEF t
<1>5. subs_topic'[Free] = t /\ \A s \in TopicSlots : s # Free => subs_topic'[s] = subs_topic[s]
  BY <1>2, <1>4
<1>6. CASE t.name = <<>>
  <2>1. Stored' = Stored
    BY <1>2, <1>5, <1>6 DEF Stored, IsFreeTopic
  <2> QED
    BY <1>2, <1>5, <2>1 DEF Topics, Stored
<1>7. CASE t.name # <<>>
  <2>1. Stored' = Stored \cup {Free}
    BY <1>2, <1>5, <1>7 DEF Stored, IsFreeTopic
  <2>2. Topics' = {subs_topic'[s] : s \in Stored \cup {Free}}
    BY <2>1 DEF Topics
  <2>3. Topics' = Topics \cup {t}
    BY <1>2, <1>5, <2>2 DEF Topics, Stored
  <2>4. Filters!Begins(t.name) = {}
    BY <1>3, SameOperators DEF Filters!Begins
  <2>5. Cardinality(Topics) < MAX_SUBS_TOPIC
    BY <1>2, TopicsBelowCapacity
  <2>6. Filters!Grant(t.name, t.qos)
    BY <1>1, <2>3, <2>4, <2>5, SameOperators DEF Filters!Grant, Topics
  <2> QED
    BY <1>1, <1>7, <2>6 DEF Filters!Next, Filters!Grant
<1> QED
  BY <1>6, <1>7

\* The pass of an UNSUBSCRIBE drops the topics that begin with its name.
LEMMA DeleteDrops ==
  ASSUME IInv, DeleteSubscribedTopic
  PROVE  Filters!Next
<1> DEFINE n == topic_list[i].name
<1>1. n \in Names
  BY RequestType DEF IInv, DeleteSubscribedTopic, Running, Requests
<1>2. subs_topic' = [s \in TopicSlots |->
        IF s \in HitSlots(subs_topic, n) THEN FreeTopic ELSE subs_topic[s]]
  BY DEF DeleteSubscribedTopic
<1> HIDE DEF n
<1>3. \A s \in TopicSlots :
        /\ s \in HitSlots(subs_topic, n) <=> s \in Stored /\ IsPrefix(n, subs_topic[s].name)
        /\ s \in Stored' <=> s \in Stored /\ ~IsPrefix(n, subs_topic[s].name)
        /\ s \in Stored' => subs_topic'[s] = subs_topic[s]
  BY <1>2 DEF HitSlots, Stored, IsFreeTopic, FreeTopic
<1>4. Topics' = {f \in Topics : ~IsPrefix(n, f.name)}
  BY <1>3 DEF Topics, Stored
<1>5. Filters!Drop(n)
  <2>1. Filters!Begins(n) = {f \in Topics : IsPrefix(n, f.name)}
    BY SameOperators DEF Filters!Begins, Topics
  <2>2. Topics' = Topics \ Filters!Begins(n)
    BY <1>4, <2>1
  <2> QED
    BY <2>2 DEF Filters!Drop, Topics
<1> QED
  BY <1>1, <1>5 DEF Filters!Next, Filters!Drop

\* The loops implement the set of topics: each pass regrants, grants or drops one topic, or
\* leaves the set alone, for tables of any length and any names.
THEOREM TableImplementsFilters == Spec => ImplementsFilters
<1>1. Init => Filters!Init
  <2>1. ASSUME Init PROVE Topics = {}
    BY <2>1 DEF Init, EmptyTopicTable, FreeTopic, IsFreeTopic, Stored, Topics
  <2> QED
    BY <2>1 DEF Filters!Init, Topics
<1>2. IInv /\ [Next]_vars => [Filters!Next]_{subs_topic[s] : s \in Stored}
  <2> SUFFICES ASSUME IInv, [Next]_vars PROVE Filters!Next \/ Topics' = Topics
    BY DEF Topics
  <2>1. ASSUME subs_topic' = subs_topic PROVE Topics' = Topics
    BY <2>1 DEF Topics, Stored
  <2>2. ASSUME \/ \E list \in Lists : Call("add", list) \/ Call("delete", list)
               \/ RefuseRest \/ Return("add") \/ Return("delete")
        PROVE  subs_topic' = subs_topic
    BY <2>2 DEF Call, RefuseRest, Return
  <2>3. CASE UNCHANGED vars
    BY <2>1, <2>3 DEF vars
  <2> QED
    BY <2>1, <2>2, <2>3, ActualizeRegrants, AddGrants, DeleteDrops DEF Next, Loop
<1> QED
  BY <1>1, <1>2, SpecIInv, PTL DEF Spec, ImplementsFilters, Filters!Spec
===============================================================================
