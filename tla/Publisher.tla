------------------------------- MODULE Publisher ------------------------------
(***************************************************************************)
(* The simulator's process (simulator/publisher.py): the main thread takes *)
(* one emission after another off the fleet's stream and hands it to paho, *)
(* whose network thread sends, resends and reconnects.  paho is external:  *)
(* it is modelled by what publisher.py relies on.                          *)
(*                                                                         *)
(* An emission is its number in the stream; pacing is left out.            *)
(***************************************************************************)
EXTENDS Integers, Sequences, Functions

CONSTANTS
  Emissions,    \* bound: the stream ends here, the service's does not
  MaxQueued,    \* max_queued_messages_set
  MaxInflight,  \* paho's limit of messages sent and not acknowledged
  Attempts,     \* attempts of connect_with_retry
  MaxCuts       \* bound: outages in a behaviour

ASSUME PublisherAssumption ==
  /\ {Emissions, MaxCuts} \subseteq Nat
  /\ {MaxQueued, MaxInflight, Attempts} \subseteq Nat \ {0}

VARIABLES
  main,     \* what the main thread does next
  attempt,  \* of connect_with_retry
  next,     \* the next emission of the stream
  queue,    \* paho's out messages, oldest first
  sent,     \* how many of them are sent on this connection
  link,     \* the connection as paho and, when "dead", as only the broker sees it
  arrived,  \* history: what has reached the broker
  logged,   \* history: what publish_failed was logged for
  stray,    \* history: heartbeats since paho noticed the outage it is in
  cuts      \* outages so far

publisherVars == <<main, attempt, next, queue, sent, link, arrived, logged, stray, cuts>>

PublisherTypeOK ==
  /\ main \in {"connect", "first_beat", "publish", "check", "beat", "ended"}
  /\ attempt \in 1 .. Attempts
  /\ next \in 1 .. Emissions + 1
  /\ queue \in Seq(1 .. Emissions) /\ Len(queue) <= MaxQueued
  /\ sent \in 0 .. Len(queue) /\ sent <= MaxInflight
  /\ link \in {"lost", "opening", "up", "dead"}
  /\ arrived \cup logged \subseteq 1 .. Emissions
  /\ stray \in Nat
  /\ cuts \in 0 .. MaxCuts

PublisherInit ==
  /\ main = "connect"
  /\ attempt = 1
  /\ next = 1
  /\ queue = <<>>
  /\ sent = 0
  /\ link = "lost"
  /\ arrived = {}
  /\ logged = {}
  /\ stray = 0
  /\ cuts = 0

-------------------------------------------------------------------------------
(* connect_with_retry.                                                     *)

Connect ==
  /\ main = "connect"
  /\ main' = "first_beat"
  /\ link' = "opening"
  /\ UNCHANGED <<attempt, next, queue, sent, arrived, logged, stray, cuts>>

(* OSError: the last attempt raises, and the process ends.                 *)
ConnectRefused ==
  /\ main = "connect"
  /\ IF attempt = Attempts THEN main' = "ended" /\ UNCHANGED attempt
     ELSE attempt' = attempt + 1 /\ UNCHANGED main
  /\ UNCHANGED <<next, queue, sent, link, arrived, logged, stray, cuts>>

(* Mutant: no loop_start.                                                  *)
BugNoLoop == FALSE

(* From loop_start to loop_stop the network thread runs.                   *)
Looping == main \notin {"connect", "ended"}

-------------------------------------------------------------------------------
(* The loop of run().                                                      *)

Emit ==
  /\ main = "publish"
  /\ next <= Emissions
  /\ next' = next + 1

(* Mutant: paho's default, an unbounded queue.                             *)
BugUnbounded == FALSE

Full == Len(queue) >= MaxQueued

(* Mutant: the result of publish is not looked at.                         *)
BugResultIgnored ==
  /\ Emit /\ Full
  /\ main' = "check"
  /\ UNCHANGED <<attempt, queue, sent, link, arrived, logged, stray, cuts>>

(* MQTT_ERR_QUEUE_SIZE: the message is dropped.                            *)
PublishDropped ==
  /\ Emit /\ Full
  /\ logged' = logged \cup {next}
  /\ UNCHANGED <<main, attempt, queue, sent, link, arrived, stray, cuts>>

(* MQTT_ERR_NO_CONN: publish_failed is logged, but paho keeps the message. *)
PublishUnsent ==
  /\ Emit /\ ~Full
  /\ link = "lost"
  /\ queue' = Append(queue, next)
  /\ logged' = logged \cup {next}
  /\ UNCHANGED <<main, attempt, sent, link, arrived, stray, cuts>>

(* MQTT_ERR_SUCCESS: also without a connection, when as many messages as   *)
(* may be in flight were waiting already.                                  *)
PublishAccepted ==
  /\ Emit /\ ~Full
  /\ link = "lost" => Len(queue) >= MaxInflight
  /\ queue' = Append(queue, next)
  /\ main' = "check"
  /\ UNCHANGED <<attempt, sent, link, arrived, logged, stray, cuts>>

(* Mutant: a beat after every accepted publish.                            *)
BugBeatAnyway == TRUE

(* paho's own view, which lags behind a connection that has died.          *)
is_connected == link \in {"up", "dead"}

Check ==
  /\ main = "check"
  /\ main' = IF is_connected THEN "beat" ELSE "publish"
  /\ UNCHANGED <<attempt, next, queue, sent, link, arrived, logged, stray, cuts>>

Beat ==
  /\ main \in {"first_beat", "beat"}
  /\ main' = "publish"
  /\ stray' = IF link = "lost" THEN stray + 1 ELSE stray
  /\ UNCHANGED <<attempt, next, queue, sent, link, arrived, logged, cuts>>

(* SIGTERM, as KeyboardInterrupt: loop_stop and disconnect, and what paho  *)
(* still holds is gone.  It may also interrupt connect_with_retry.         *)
Interrupted ==
  /\ main # "ended"
  /\ main' = "ended"
  /\ queue' = <<>>
  /\ sent' = 0
  /\ link' = "lost"
  /\ UNCHANGED <<attempt, next, arrived, logged, stray, cuts>>

-------------------------------------------------------------------------------
(* paho's network thread and the broker.                                   *)

Connack ==
  /\ Looping /\ link = "opening"
  /\ link' = "up"
  /\ UNCHANGED <<main, attempt, next, queue, sent, arrived, logged, stray, cuts>>

(* The broker receives the next message; a resent one once more.           *)
Arrive ==
  /\ Looping /\ link = "up"
  /\ sent < Len(queue) /\ sent < MaxInflight
  /\ sent' = sent + 1
  /\ arrived' = arrived \cup {queue[sent + 1]}
  /\ UNCHANGED <<main, attempt, next, queue, link, logged, stray, cuts>>

Puback ==
  /\ Looping /\ link = "up"
  /\ sent > 0
  /\ sent' = sent - 1
  /\ queue' = Tail(queue)
  /\ UNCHANGED <<main, attempt, next, link, arrived, logged, stray, cuts>>

(* The broker is out of reach, which paho is slow to notice of an          *)
(* established connection; what was not acknowledged will be sent again.   *)
Cut ==
  /\ cuts < MaxCuts
  /\ cuts' = cuts + 1
  /\ link' = CASE link = "up" -> "dead" [] link = "opening" -> "lost" [] OTHER -> link
  /\ sent' = 0
  /\ UNCHANGED <<main, attempt, next, queue, arrived, logged, stray>>

Notice ==
  /\ Looping /\ link = "dead"
  /\ link' = "lost"
  /\ stray' = 0
  /\ UNCHANGED <<main, attempt, next, queue, sent, arrived, logged, cuts>>

Reconnect ==
  /\ Looping /\ link = "lost"
  /\ link' = "opening"
  /\ UNCHANGED <<main, attempt, next, queue, sent, arrived, logged, stray, cuts>>

Main == Connect \/ PublishDropped \/ PublishUnsent \/ PublishAccepted \/ Check \/ Beat
===============================================================================
