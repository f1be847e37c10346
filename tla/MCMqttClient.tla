---------------------------- MODULE MCMqttClient ----------------------------
(* Instances of MqttClient. *)
EXTENDS MqttClient

Connect == [type |-> "CONNECT", id |-> 0, qos |-> 0, head |-> 2, var |-> 1, pay |-> 0]
\* Five bytes in a tx_buf of four: the last one of the payload is sent by itself.
Publish == [type |-> "PUBLISH", id |-> 1, qos |-> 2, head |-> 2, var |-> 1, pay |-> 2]
\* Seven bytes, a header of three: the last byte of the payload does not fit an rx_buf of six.
Message == [type |-> "PUBLISH", id |-> 2, qos |-> 1, head |-> 3, var |-> 1, pay |-> 3]

MCRequests == {Connect, Publish}
MCServerSends == {Message}
=============================================================================
