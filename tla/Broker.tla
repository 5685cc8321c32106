-------------------------------- MODULE Broker --------------------------------
(***************************************************************************)
(* Mosquitto as the ingestion service uses it: one persistent QoS 1        *)
(* session for the stable client id, which queues matching messages until  *)
(* they are acknowledged and survives the client, and "persistence false", *)
(* so the session does not survive the broker.  Code outside src/: it is   *)
(* modelled from how ingestion/service.py uses it.                         *)
(***************************************************************************)
EXTENDS Contract

CONSTANTS Msg,    \* the publications, each published at most once
          Wire    \* Wire[m]: the topic and the payload of m

ASSUME WireAssumption == Wire \in [Msg -> [topic: Topic, payload: Payload]]

VARIABLES
  published,    \* what the devices have published
  session,      \* the session's unacknowledged messages, in order
  subscribed,   \* whether the session holds the telemetry subscription
  link          \* whether the client is connected

brokerVars == <<published, session, subscribed, link>>

BrokerTypeOK ==
  /\ published \subseteq Msg
  /\ session \in Seq(Msg)
  /\ subscribed \in BOOLEAN
  /\ link \in BOOLEAN

BrokerInit ==
  /\ published = {}
  /\ session = <<>>
  /\ subscribed = FALSE
  /\ link = FALSE

Routed(m) == subscribed /\ MatchesFilter(Wire[m].topic)

Publish(m) ==
  /\ m \notin published
  /\ published' = published \cup {m}
  /\ session' = IF Routed(m) THEN Append(session, m) ELSE session
  /\ UNCHANGED <<subscribed, link>>

(* A restart forgets the session, its queue and its subscription.          *)
ForgetSession ==
  /\ session' = <<>>
  /\ subscribed' = FALSE
  /\ link' = FALSE
  /\ UNCHANGED published
===============================================================================
