------------------------------- MODULE Contract -------------------------------
(***************************************************************************)
(* The telemetry message contract (contract.py) and the classification of  *)
(* one MQTT message (ingestion/core.py).  Both are pure.                   *)
(*                                                                         *)
(* A topic is the tuple of its levels.  A payload is a record: "json" says *)
(* whether the bytes parse as a JSON object with these members, "aware"    *)
(* whether its timestamp carries a UTC offset; "local" is the timestamp as *)
(* written and "offset" that offset, so the instant is local - offset.     *)
(* Percent are integers and volts are tenths of a volt.                    *)
(***************************************************************************)
EXTENDS Integers, Sequences

CONSTANTS DeviceId,       \* the ids that match the pattern of contract.DeviceId
          MinTime,        \* the first and the last instant a Python datetime
          MaxTime         \* can hold in UTC (year 1, year 9999)

NoDevice == ""

ASSUME ContractAssumption ==
  /\ DeviceId \subseteq STRING \ {NoDevice}
  /\ MinTime \in Int /\ MaxTime \in Int

SCHEMA_VERSION == 1

Topic == Seq(STRING)

Payload == [json: BOOLEAN, schema_version: Int, device_id: STRING,
            local: Int, offset: Int, aware: BOOLEAN,
            water_level: Int, battery_voltage: Int]

Instant == MinTime .. MaxTime

(* A validated TelemetryV1 value. *)
Reading == [schema_version: {SCHEMA_VERSION}, device_id: DeviceId,
            measured_at: Instant,
            water_level: 0 .. 100, battery_voltage: 25 .. 44]

-------------------------------------------------------------------------------
(* The idempotency key of a reading.                                       *)
Key(r) == <<r.device_id, r.measured_at>>

telemetry_topic(d) == <<"planter", "v1", d, "telemetry">>

(* None is the empty string: the code's guard rejects an empty segment. *)
device_id_from_topic(topic) ==
  IF Len(topic) = 4 /\ topic = telemetry_topic(topic[3])
  THEN topic[3] ELSE NoDevice

(* MQTT's meaning of TELEMETRY_TOPIC_FILTER: "+" is any one level, the     *)
(* empty one too.                                                          *)
MatchesFilter(topic) == Len(topic) = 4 /\ topic = telemetry_topic(topic[3])

-------------------------------------------------------------------------------
(* Mutant: the timestamp is kept as written.                               *)
BugAsWritten(p) == p.local

(* UtcDatetime: an aware timestamp is converted with astimezone(UTC).      *)
ToUtc(p) == p.local - p.offset

(* Mutant: an instant outside the range is taken as it is.                 *)
BugNeverRaises(p) == FALSE

(* astimezone raises OverflowError when the instant has no UTC datetime.   *)
(* pydantic turns only ValueError and AssertionError of a validator into a *)
(* ValidationError, so this one escapes model_validate_json, whatever the  *)
(* other fields hold.                                                      *)
ConversionRaises(p) == p.json /\ p.aware /\ ToUtc(p) \notin Instant

ValidPayload(p) ==
  /\ p.json
  /\ p.schema_version = SCHEMA_VERSION
  /\ p.device_id \in DeviceId
  /\ p.aware
  /\ p.water_level \in 0 .. 100
  /\ p.battery_voltage \in 25 .. 44

TelemetryV1(p) ==
  [schema_version  |-> p.schema_version,
   device_id       |-> p.device_id,
   measured_at     |-> ToUtc(p),
   water_level     |-> p.water_level,
   battery_voltage |-> p.battery_voltage]

-------------------------------------------------------------------------------
ValidReading(r) == [kind |-> "reading", reading |-> r]
DeadLetter(why) == [kind |-> "dead_letter", reason |-> why]
Raised          == [kind |-> "raised"]

Reason == {"topic", "payload", "mismatch"}

(* classify(topic, payload): the order of the tests is the code's.         *)
Classify(msg) ==
  LET p == msg.payload
      d == device_id_from_topic(msg.topic)
  IN  IF d = NoDevice           THEN DeadLetter("topic")
      ELSE IF ConversionRaises(p) THEN Raised
      ELSE IF ~ValidPayload(p)    THEN DeadLetter("payload")
      ELSE IF p.device_id # d     THEN DeadLetter("mismatch")
      ELSE ValidReading(TelemetryV1(p))
===============================================================================
