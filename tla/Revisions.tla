------------------------------- MODULE Revisions ------------------------------
(***************************************************************************)
(* The revisions of migrations/versions, as Migration runs them: what each *)
(* statement makes and needs, and whether it may be repeated.  Columns and *)
(* SELECT lists are left out.                                              *)
(***************************************************************************)
EXTENDS Sequences

(* CREATE, of an object that must not exist. *)
Create(object, needs) ==
  [makes |-> object, needs |-> needs, guarded |-> FALSE, empty |-> FALSE]

(* IF NOT EXISTS, if_not_exists, OR REPLACE, ALTER, GRANT: repeatable. *)
Ensure(object, needs) ==
  [makes |-> object, needs |-> needs, guarded |-> TRUE, empty |-> FALSE]

Transactional(statements) == [autocommit |-> FALSE, statements |-> statements]
Autocommit(statements)    == [autocommit |-> TRUE, statements |-> statements]

m2_baseline ==
  Transactional(<<Create("telemetry", {}), Create("dead_letter", {})>>)

devices == Transactional(<<Create("devices", {})>>)

(* Mutant: no migrate_data.                                                *)
BugEmptyTableOnly ==
  Transactional(<<[Create("hypertable", {"telemetry"}) EXCEPT !.empty = TRUE]>>)

(* migrate_data => true *)
hypertable == Transactional(<<Create("hypertable", {"telemetry"})>>)

(* Mutant: the daily rollup without IF NOT EXISTS.                         *)
BugUnguardedRollup ==
  Autocommit(<<Ensure("telemetry_hourly", {"hypertable"}),
               Create("telemetry_daily", {"hypertable"}),
               Ensure("hourly_policy", {"telemetry_hourly"}),
               Ensure("daily_policy", {"telemetry_daily"})>>)

continuous_aggregates ==
  Autocommit(<<Ensure("telemetry_hourly", {"hypertable"}),
               Ensure("telemetry_daily", {"hypertable"}),
               Ensure("hourly_policy", {"telemetry_hourly"}),
               Ensure("daily_policy", {"telemetry_daily"})>>)

columnstore ==
  Autocommit(<<Ensure("columnstore", {"hypertable"}),
               Ensure("columnstore_policy", {"columnstore"})>>)

ingest_events ==
  Transactional(<<Create("ingest_events", {}),
                  Create("ingest_events_occurred_at_idx", {"ingest_events"})>>)

(* The role belongs to the cluster: it may be there before its revision.   *)
grafana_reader ==
  Transactional(<<Ensure("grafana_reader", {}),
                  Ensure("reader_grants", {"grafana_reader"})>>)

forecasts ==
  Transactional(<<Create("forecasts", {}),
                  Create("forecasts_latest", {"forecasts"}),
                  Ensure("forecasts_grant", {"grafana_reader", "forecasts_latest"})>>)

alert_events ==
  Transactional(<<Create("alert_events", {}),
                  Create("alert_events_state_idx", {"alert_events"}),
                  Ensure("alerts_grant", {"grafana_reader", "alert_events"})>>)

forecasts_latest_fix ==
  Transactional(<<Ensure("forecasts_latest_fix",
                         {"forecasts_latest", "devices", "grafana_reader"})>>)

Versions ==
  <<m2_baseline, devices, hypertable, continuous_aggregates, columnstore,
    ingest_events, grafana_reader, forecasts, alert_events, forecasts_latest_fix>>
===============================================================================
