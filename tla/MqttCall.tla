------------------------------ MODULE MqttCall ------------------------------
(***************************************************************************)
(* What a call of the MQTT client promises, as mqtt_client.h states it:    *)
(* the request is sent once and waited for until its answer came.  A call  *)
(* that failed in between is made again with the same structure and goes   *)
(* on where it stopped.  It succeeds only with an answer of its own, but   *)
(* for what the header does not say: the network may give or take nothing, *)
(* and the wait, or what was left to send, is then passed over.            *)
(***************************************************************************)
CONSTANTS Requests, None

VARIABLES
  calling,   \* the request whose call is running; None
  progress,  \* of each request: "new", "sent", "answered"
  skipped,   \* requests of which something was passed over
  success    \* the request whose call ended last, with MQTT_CODE_SUCCESS; None

vars == <<calling, progress, skipped, success>>

Init ==
  /\ calling = None
  /\ progress = [r \in Requests |-> "new"]
  /\ skipped = {}
  /\ success = None

\* The application makes a request of its structure once more.
Renew(r) ==
  /\ calling = None
  /\ progress' = [progress EXCEPT ![r] = "new"]
  /\ skipped' = skipped \ {r}
  /\ UNCHANGED <<calling, success>>

\* A call takes up what an earlier one passed over, unless it is the end of a message.
Call(r) ==
  /\ calling = None
  /\ calling' = r
  /\ success' = None
  /\ skipped' \in {skipped, skipped \ {r}}
  /\ UNCHANGED progress

\* A ping, or another call without a request of its own; a new client.
CallOther == success' = None /\ UNCHANGED <<calling, progress, skipped>>

Send(r) ==
  /\ calling = r
  /\ progress[r] = "new"
  /\ progress' = [progress EXCEPT ![r] = "sent"]
  /\ UNCHANGED <<calling, skipped, success>>

\* One packet is the answer to every request of S that waits for its type and identifier; the
\* call that reads it may be that of another request, which loses it.
Answer(S) ==
  /\ \A r \in S : progress[r] = "sent"
  /\ progress' = [r \in Requests |-> IF r \in S THEN "answered" ELSE progress[r]]
  /\ UNCHANGED <<calling, skipped, success>>

Skip(r) ==
  /\ calling = r
  /\ skipped' = skipped \cup {r}
  /\ UNCHANGED <<calling, progress, success>>

Succeed(r) ==
  /\ calling = r
  /\ skipped' \in {skipped, skipped \cup {r}}
  /\ progress[r] = "answered" \/ r \in skipped'
  /\ calling' = None
  /\ success' = r
  /\ UNCHANGED progress

Fail(r) == calling = r /\ calling' = None /\ UNCHANGED <<progress, skipped, success>>

Next ==
  \/ CallOther
  \/ \E r \in Requests : Renew(r) \/ Call(r) \/ Send(r) \/ Skip(r) \/ Succeed(r) \/ Fail(r)
  \/ \E S \in SUBSET Requests : Answer(S)

Spec == Init /\ [][Next]_vars
=============================================================================
