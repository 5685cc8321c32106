-------------------------- MODULE IngestionProperties -------------------------
(***************************************************************************)
(* What the ingestion service promises, stated over Ingestion.             *)
(***************************************************************************)
EXTENDS Ingestion

Elements(s) == {s[i] : i \in DOMAIN s}

Running == pc \notin Ended

-------------------------------------------------------------------------------
(* The tables.                                                             *)

(* A reading never exists without its device row, and that row's interval  *)
(* contains the reading's instant (service.py: "Registry first, so a       *)
(* reading never exists without its device row").                          *)
RegistryCovers ==
  \A r \in telemetry :
    /\ r.device_id \in DOMAIN devices
    /\ devices[r.device_id].first_seen <= r.measured_at
    /\ r.measured_at <= devices[r.device_id].last_seen

(* first_seen and last_seen converge on the least and the greatest         *)
(* measured_at stored, in whatever order readings arrive and however often *)
(* writes are retried (db.py: _UPSERT_DEVICE).  In the first life of the   *)
(* process, whenever it waits for a message, the registry is exact.        *)
RegistryConverges ==
  pc = "next_message" /\ starts = 1 =>
    \A d \in DOMAIN devices :
      LET at == {r.measured_at : r \in {s \in telemetry : s.device_id = d}}
      IN  {devices[d].first_seen, devices[d].last_seen} \subseteq at

(* Two messages that report the same instant of the same device, however   *)
(* their timestamps are spelled, are one row of telemetry (contract.py:    *)
(* UtcDatetime; db.py: ON CONFLICT).                                       *)
OneRowPerInstant ==
  \A r, s \in telemetry :
    (\E m, n \in published :
       /\ Outcome(m) = ValidReading(r) /\ Outcome(n) = ValidReading(s)
       /\ r.device_id = s.device_id
       /\ Wire[m].payload.local - Wire[m].payload.offset =
          Wire[n].payload.local - Wire[n].payload.offset)
    => r = s

(* No step takes back what is stored: a reading, a dead letter or an event *)
(* is neither deleted nor rewritten, a late duplicate with other values    *)
(* loses (db.py: DO NOTHING), and the interval of a device in the registry *)
(* only widens, in whatever order replays and redeliveries come (db.py:    *)
(* upsert_device, LEAST and GREATEST).                                     *)
NothingTakenBack ==
  [][/\ telemetry \subseteq telemetry'
     /\ Elements(dead_letter) \subseteq Elements(dead_letter')
     /\ Len(ingest_events) <= Len(ingest_events')
     /\ \A d \in DOMAIN devices :
          /\ d \in DOMAIN devices'
          /\ devices'[d].first_seen <= devices[d].first_seen
          /\ devices'[d].last_seen >= devices[d].last_seen]_vars

(* The counters served on /metrics never run ahead of the tables they      *)
(* count rows of (service.py: each is incremented after its write).        *)
CountersNotAhead ==
  /\ counters["ingested"] <= Cardinality(telemetry)
  /\ counters["deduplicated"] <= Len(ingest_events)
  /\ counters["dead_lettered"] <= Len(dead_letter)

(* The abstract specification, with the tables as its state.               *)
Once == INSTANCE EffectivelyOnce
          WITH sent <- published, rows <- telemetry,
               rejects <- Elements(dead_letter)

(* The service implements effectively-once delivery into the database.     *)
EffectivelyOnceSpec == Once!Spec

-------------------------------------------------------------------------------
(* Acknowledged messages.                                                  *)

Landed(m) ==
  \/ Outcome(m).kind = "reading" /\ KeyTaken(Outcome(m).reading)
  \/ Outcome(m).kind = "dead_letter" /\ DeadLetterOf(m) \in Elements(dead_letter)

Memory == Elements(pending) \cup Elements(messages)

(* In memory, still owed by the broker, written, or logged as dropped.     *)
Accounted(m) ==
  m \in Memory \cup Elements(session) \cup reported \/ Landed(m)

(* Where a message can leave memory unwritten and unreported: the pop of   *)
(* the drain loop when older messages are owed, the teardown of a client   *)
(* whose subscribe failed, and an exception of classify.                   *)
Gap ==
  \/ loop = "drain" /\ Len(pending) > 1
  \/ pc = "subscribe" /\ pc' # "subscribe" /\ ~link'
  \/ pc = "raise"

(* An acknowledged message is never lost silently but by a kill or at a    *)
(* gap: failures, retries, reconnects, salvage, drain and flush keep it    *)
(* until it is written or its loss is logged (docs/ingestion.md, "The ack  *)
(* window").                                                               *)
BacklogSurvives ==
  [][\A m \in Memory : Accounted(m)' \/ Gap \/ pc' = "killed"]_vars

(* docs/ingestion.md: on SIGTERM the service "writes out everything        *)
(* already buffered ... any loss is logged loudly, never silently".        *)
DrainKeepsBacklog ==
  [][loop = "drain" /\ pc # "raise" /\ pc' # "killed" =>
       \A m \in Memory : Accounted(m)']_vars

(* service.py, _salvage_queue: what the queue holds is acknowledged, and   *)
(* "leaving it behind on teardown would be silent loss".                   *)
SubscribeKeepsQueue ==
  [][pc = "subscribe" /\ pc' # "killed" => \A m \in Memory : Accounted(m)']_vars

(* service.py: "The service never crashes on message content - anything    *)
(* unparseable becomes a dead-letter row."                                 *)
NeverCrashesOnContent == pc # "crashed"

Rejected == {m \in Msg : Outcome(m).kind = "dead_letter"}

(* What a dead letter records tells which message it is of.                *)
RowsTellApart == \A m, n \in Rejected : DeadLetterOf(m) = DeadLetterOf(n) => m = n

(* service.py replays pending after a failure because "idempotency makes a *)
(* double-write harmless".  dead_letter has no key, so there a retry adds  *)
(* a row; but every row beyond a message's first has a fault to show for   *)
(* it: a lost answer, a lost acknowledgement, an interrupted backlog.      *)
DeadLettersPerFault ==
  \A m \in Rejected :
    Cardinality({i \in DOMAIN dead_letter : dead_letter[i] = DeadLetterOf(m)}) <= 1 + faults

(* The service waits for a new message only when it owes none: everything  *)
(* salvaged is replayed first, and one message at a time is in hand.       *)
NothingOwedWhenIdle ==
  /\ pc = "next_message" => pending = <<>>
  /\ pc \in Statement /\ loop = "consume" => Len(pending) = 1

-------------------------------------------------------------------------------
(* Health.                                                                 *)

(* /healthz reads the two flags and answers 200 when both are up.          *)
Healthy == health["broker_connected"] /\ health["db_connected"]

(* Inside the client, past the SUBACK: replaying, consuming or draining.   *)
Consuming == pc \in Statement \cup {"next_message", "raise"} /\ loop # "flush"

(* /healthz answers 200 from the SUBACK until the service has left the     *)
(* client, and at no other time, whatever failure, signal or end makes it  *)
(* leave; while the link lives, the broker then holds a subscription.      *)
(* Both flags are down in every reconnect gap up to the next database      *)
(* connection, in the final flush and after the end (ops.py: the flags;    *)
(* service.py: run and its inner finally).  This is less than the "only    *)
(* while subscribed and writing" of docs/ingestion.md:121-122: a link or a *)
(* database that dies under an idle service leaves it healthy until the    *)
(* queue's iterator raises, or until the next write fails.                 *)
HealthFollowsConnection ==
  /\ Healthy <=> Consuming
  /\ Healthy /\ link => subscribed
  /\ ~Consuming /\ pc \notin {"mqtt_connect", "subscribe"} => health = Down

-------------------------------------------------------------------------------
(* Progress, under FairSpec.                                               *)

(* Once stop is set the process ends.                                      *)
StopEnds == stop ~> (pc \in Ended \/ ~stop)

(* A message the service has taken charge of is written, across any number *)
(* of failures and reconnects, unless the process is stopped.              *)
OwedIsWritten ==
  \A m \in Msg :
    (m \in Memory /\ pc # "subscribe") ~> (Landed(m) \/ stop \/ ~Running)

(* A lost broker connection does not stay reported as healthy.             *)
DeadLinkNoticed ==
  (health["broker_connected"] /\ ~link) ~> ~health["broker_connected"]
===============================================================================
