------------------------------ MODULE MCIngestion -----------------------------
(* Message catalogue for model-checking IngestionProperties: a cfg picks    *)
(* the messages it needs by giving Msg a value.                             *)
EXTENDS IngestionProperties

Sample(topic, id, local, offset, water) ==
  [topic |-> telemetry_topic(topic),
   payload |-> [json |-> TRUE, schema_version |-> 1, device_id |-> id,
                local |-> local, offset |-> offset, aware |-> TRUE,
                water_level |-> water, battery_voltage |-> 37]]

MCWire ==
  [m \in Msg |->
     CASE m = "early"   -> Sample("p1", "p1", 1, 0, 40)
       [] m = "late"    -> Sample("p1", "p1", 2, 0, 50)
       [] m = "respelt" -> Sample("p1", "p1", 4, 2, 60)  \* the instant of "late"
       [] m = "other"   -> Sample("p2", "p2", 1, 0, 100)
       [] m = "misplaced" -> Sample("p2", "p1", 2, 0, 50)
       [] m = "naive"   -> [Sample("p1", "p1", 2, 0, 50)
                              EXCEPT !.payload.aware = FALSE]
       [] m = "year1"   -> Sample("p1", "p1", 1, 3, 40)] \* before MinTime in UTC

\* DeadLettersPerFault counts rows by what they record.
ASSUME RejectsAreDistinct == RowsTellApart
===============================================================================
