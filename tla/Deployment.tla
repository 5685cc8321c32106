------------------------------ MODULE Deployment ------------------------------
(***************************************************************************)
(* The containers of docker-compose.yml side by side: migrate, which       *)
(* ingestion, analytics and grafana wait for; the simulator, which waits   *)
(* for the broker only; and the broker, which holds messages for ingestion *)
(* from its first subscription on and forgets them when it restarts.       *)
(***************************************************************************)
EXTENDS Migration, Publisher

VARIABLES
  serving,     \* whether the containers that wait for migrate have started
  subscribed,  \* whether the broker holds ingestion's persistent session
  taken        \* history: emissions the broker queued for ingestion since then

servicesVars == <<serving, subscribed, taken>>
deploymentVars == <<migrationVars, publisherVars, servicesVars>>

TypeOK ==
  /\ MigrationTypeOK
  /\ PublisherTypeOK
  /\ {serving, subscribed} \subseteq BOOLEAN
  /\ taken \subseteq arrived

Init ==
  /\ MigrationInit
  /\ PublisherInit
  /\ serving = FALSE
  /\ subscribed = FALSE
  /\ taken = {}

(* Mutant: the services wait for the end of migrate, not for its success.  *)
BugWaitsForExit ==
  /\ pc \in Ended /\ ~serving
  /\ serving' = TRUE
  /\ UNCHANGED <<migrationVars, publisherVars, subscribed, taken>>

(* condition: service_completed_successfully.                              *)
StartServices ==
  /\ pc = "done" /\ ~serving
  /\ serving' = TRUE
  /\ UNCHANGED <<migrationVars, publisherVars, subscribed, taken>>

(* Ingestion has connected to both its dependencies and subscribes.        *)
IngestionSubscribes ==
  /\ serving /\ ~subscribed
  /\ subscribed' = TRUE
  /\ UNCHANGED <<migrationVars, publisherVars, serving, taken>>

(* What arrives without a subscription goes nowhere.                       *)
BrokerReceives ==
  /\ Arrive
  /\ taken' = IF subscribed THEN taken \cup {queue[sent + 1]} ELSE taken
  /\ UNCHANGED <<migrationVars, serving, subscribed>>

(* A restart cuts the simulator off too; "persistence false".              *)
BrokerRestarts ==
  /\ Cut
  /\ subscribed' = FALSE
  /\ taken' = {}
  /\ UNCHANGED <<migrationVars, serving>>

Simulator ==
  /\ Main \/ ConnectRefused \/ Interrupted \/ Cut
  /\ UNCHANGED <<migrationVars, servicesVars>>

Reconnects ==
  /\ Connack \/ Puback \/ Notice \/ Reconnect
  /\ UNCHANGED <<migrationVars, servicesVars>>

MigrateContainer ==
  /\ MigrationNext
  /\ UNCHANGED <<publisherVars, servicesVars>>

Next ==
  \/ MigrateContainer \/ Simulator \/ Reconnects
  \/ StartServices \/ IngestionSubscribes \/ BrokerReceives \/ BrokerRestarts

Spec == Init /\ [][Next]_deploymentVars

(* A process that can run does, and the broker comes back; kills, outages  *)
(* and signals are never owed, nor is another "up".                        *)
FairSpec ==
  /\ Spec
  /\ WF_deploymentVars(Migrate /\ UNCHANGED <<publisherVars, servicesVars>>)
  /\ WF_deploymentVars(Reconnects \/ BrokerReceives)
-----------------------------------------------------------------------------
(* Whatever release left the volume, and wherever earlier runs were killed *)
(* ("Non-transactional revisions are re-runnable", docs/storage.md), no    *)
(* statement of the chain is refused: nothing exists already, nothing is   *)
(* missing, no table is in the way with its rows.                          *)
NeverRefused == ~Refusal

(* alembic_version tells the truth at every instant at which a kill can    *)
(* leave the database: all of the revisions up to it are there, and beyond *)
(* them at most statements of the next, if that commits as it goes, or the *)
(* unversioned tables of M2 (migrate.py: "what makes the stamp safe").     *)
VersionHonest ==
  LET v == db.version
      partial == IF v < HeadVersion /\ (v = 0 \/ Chain[v + 1].autocommit)
                 THEN MadeBy(v + 1) ELSE {}
  IN  /\ UpTo(v) \subseteq db.objects
      /\ db.objects \subseteq UpTo(v) \cup partial \cup Roles

(* docker-compose.yml: "Ingestion waits for it, so it can never race the   *)
(* schema": once a session exists, the broker queues for a service whose   *)
(* tables are all there, whatever becomes of later runs of migrate.        *)
IngestionNeverRacesSchema ==
  serving \/ subscribed => db.version = HeadVersion /\ UpTo(HeadVersion) \subseteq db.objects

(* A run of migrate that is left alone brings the schema to head: it is    *)
(* neither refused nor stuck.                                              *)
RunReachesHead == (pc = "wait_for_db") ~> (pc \in {"done", "interrupted"})

(* publisher.py: "log honestly instead of pretending it went out".  Until  *)
(* the process ends, every emission has reached the broker, is still with  *)
(* paho, or was reported as failed, through any outage and a full queue.   *)
NothingLostUnlogged ==
  main # "ended" =>
    \A n \in 1 .. next - 1 : n \in arrived \cup Range(queue) \cup logged

(* publisher.py, beat: "Only called while demonstrably connected, so a     *)
(* dead broker stales the file".  The first beat is not covered by that:   *)
(* it follows connect without a check.  Of the others the check and the    *)
(* touch are two steps of one thread, and the loss is noticed by another.  *)
(* Of all of them, at most one slips into an outage that paho has noticed; *)
(* until it has, is_connected is TRUE and every publish beats.             *)
AtMostOneStrayBeat == stray <= 1

(* What paho holds once ingestion has a session reaches that session,      *)
(* through the outages a behaviour has (at most MaxCuts, one in the run),  *)
(* unless the broker restarts or the simulator is stopped.                 *)
HeldReachesIngestion ==
  \A n \in 1 .. Emissions :
    (subscribed /\ n \in Range(queue) \ arrived) ~>
      (n \in taken \/ ~subscribed \/ main = "ended")
===============================================================================
