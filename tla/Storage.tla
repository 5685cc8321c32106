-------------------------------- MODULE Storage -------------------------------
(***************************************************************************)
(* The tables the ingestion service writes, and the four statements of     *)
(* ingestion/db.py.  The connection is in autocommit mode: each statement  *)
(* is one atomic step, and its effect survives every later failure.        *)
(***************************************************************************)
EXTENDS Contract, FiniteSets

VARIABLES
  telemetry,      \* the set of rows; its primary key is (device_id, measured_at)
  devices,        \* the registry: device_id -> [first_seen, last_seen]
  dead_letter,    \* rows in insertion order
  ingest_events   \* rows in insertion order, all of event 'deduplicated'

dbVars == <<telemetry, devices, dead_letter, ingest_events>>

DeviceRow     == [first_seen: Instant, last_seen: Instant]
DeadLetterRow == [topic: Topic, payload: Payload, reason: Reason]
EventRow      == DeviceId \X Instant

StorageTypeOK ==
  /\ telemetry \subseteq Reading
  /\ DOMAIN devices \subseteq DeviceId
  /\ \A d \in DOMAIN devices : devices[d] \in DeviceRow
  /\ devices = [d \in DOMAIN devices |-> devices[d]]
  /\ dead_letter \in Seq(DeadLetterRow)
  /\ ingest_events \in Seq(EventRow)

StorageInit ==
  /\ telemetry = {}
  /\ devices = [d \in {} |-> d]
  /\ dead_letter = <<>>
  /\ ingest_events = <<>>

-------------------------------------------------------------------------------
Least(a, b)    == IF a <= b THEN a ELSE b
Greatest(a, b) == IF a >= b THEN a ELSE b

(* Mutant: the registry keeps the last arrival, not the newest reading.    *)
BugLastWriteWins(r) ==
  [first_seen |-> IF r.device_id \in DOMAIN devices
                  THEN devices[r.device_id].first_seen ELSE r.measured_at,
   last_seen  |-> r.measured_at]

(* The registry row of r's device once r has been seen. *)
Merged(r) ==
  IF r.device_id \in DOMAIN devices
  THEN [first_seen |-> Least(devices[r.device_id].first_seen, r.measured_at),
        last_seen  |-> Greatest(devices[r.device_id].last_seen, r.measured_at)]
  ELSE [first_seen |-> r.measured_at, last_seen |-> r.measured_at]

upsert_device(r) ==
  /\ devices' = [d \in DOMAIN devices \cup {r.device_id} |->
                   IF d = r.device_id THEN Merged(r) ELSE devices[d]]
  /\ UNCHANGED <<telemetry, dead_letter, ingest_events>>

(* Mutant: the unique key covers the whole row.                            *)
BugSameRow(r) == r \in telemetry

KeyTaken(r) == \E row \in telemetry : Key(row) = Key(r)

(* Mutant: ON CONFLICT DO UPDATE.                                          *)
BugOverwrite(r) ==
  /\ telemetry' = {row \in telemetry : Key(row) # Key(r)} \cup {r}
  /\ UNCHANGED <<devices, dead_letter, ingest_events>>

(* ON CONFLICT DO NOTHING: rowcount is 1 exactly when ~KeyTaken(r) before. *)
insert_reading(r) ==
  /\ telemetry' = IF KeyTaken(r) THEN telemetry ELSE telemetry \cup {r}
  /\ UNCHANGED <<devices, dead_letter, ingest_events>>

record_dedupe(r) ==
  /\ ingest_events' = Append(ingest_events, Key(r))
  /\ UNCHANGED <<telemetry, devices, dead_letter>>

(* Mutant: a dead letter is stored once, and counted each time.            *)
BugDeadLetterOnConflict(row) ==
  /\ dead_letter' = IF \E i \in DOMAIN dead_letter : dead_letter[i] = row
                    THEN dead_letter ELSE Append(dead_letter, row)
  /\ UNCHANGED <<telemetry, devices, ingest_events>>

insert_dead_letter(row) ==
  /\ dead_letter' = Append(dead_letter, row)
  /\ UNCHANGED <<telemetry, devices, ingest_events>>
===============================================================================
