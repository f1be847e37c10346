----------------------------- MODULE TopicFilters -----------------------------
(***************************************************************************)
(* What the subscription table of a client promises, without slots, loops  *)
(* or lists: a bounded set of topics, each stored once, with the quality   *)
(* of service granted to it last.  A request for a topic concerns a stored *)
(* topic that begins with it, if there is one.                             *)
(***************************************************************************)
EXTENDS Integers, FiniteSets, SequencesExt

CONSTANTS Names, QoSs, Capacity

VARIABLE filters     \* the stored topics, records [name, qos]

Begins(name) == {f \in filters : IsPrefix(name, f.name)}

Regrant(name, qos) ==
  \E f \in Begins(name) :
    filters' = (filters \ {f}) \cup {[name |-> f.name, qos |-> qos]}

\* Only while there is room, and only if no stored topic begins with it.
Grant(name, qos) ==
  /\ Begins(name) = {}
  /\ Cardinality(filters) < Capacity
  /\ filters' = filters \cup {[name |-> name, qos |-> qos]}

Drop(name) == filters' = filters \ Begins(name)

Init == filters = {}

Next ==
  \/ \E n \in Names, q \in QoSs : Regrant(n, q)
  \/ \E n \in Names \ {<<>>}, q \in QoSs : Grant(n, q)
  \/ \E n \in Names : Drop(n)

Spec == Init /\ [][Next]_filters
===============================================================================
