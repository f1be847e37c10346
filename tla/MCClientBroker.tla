--------------------------- MODULE MCClientBroker ---------------------------
(***************************************************************************)
(* Requests of every kind: with every part a CONNECT may have, with an id  *)
(* that is that id and the length behind it, with one, two and three       *)
(* topics for a broker with two places, with a remaining length of two     *)
(* bytes, with identifiers whose bytes swap to one another.                *)
(***************************************************************************)
EXTENDS ClientBroker

a == <<97>>
ab == <<97, 98>>

Bare ==
  [type |-> "CONNECT", client_id |-> <<97, 2>>, clean_session |-> TRUE, keep_alive_sec |-> 300,
   lwt |-> <<>>, username |-> <<>>, password |-> <<>>]
Full == [Bare EXCEPT !.client_id = a, !.lwt = <<ab, a>>, !.username = <<ab>>, !.password = <<a>>]
Connects == {Bare, Full}

Long == [i \in 1..130 |-> 7]
Publishes ==
  {[type |-> "PUBLISH", qos |-> qos, topic_name |-> ab, packet_id |-> 257, buffer |-> <<1>>] : qos \in {0, 2}}
    \cup {[type |-> "PUBLISH", qos |-> 1, topic_name |-> a, packet_id |-> id, buffer |-> Long] :
             id \in {1, 256, 257}}

Subscribes ==
  {[type |-> "SUBSCRIBE", packet_id |-> 258,
    topics |-> [i \in DOMAIN l |-> [name |-> l[i], qos |-> i % 2]]] : l \in {<<a, ab>>, <<ab, a, a>>}}
Unsubscribes ==
  {[type |-> "UNSUBSCRIBE", packet_id |-> 258, topics |-> l] : l \in {<<ab>>, <<a, ab>>}}

MCRequests == Connects \cup Publishes \cup Subscribes \cup Unsubscribes \cup {[type |-> "PINGREQ"]}
MCTopics == {a, ab}
=============================================================================
