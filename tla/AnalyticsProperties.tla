-------------------------- MODULE AnalyticsProperties -------------------------
(***************************************************************************)
(* What the analytics service promises, stated over Analytics.             *)
(***************************************************************************)
EXTENDS Analytics

(* The abstract specification, with alert_events and the pushes as its     *)
(* state. *)
Outbox == INSTANCE AlertOutbox
            WITH Decision <- [device_id: DeviceSet, kind: Kinds,
                              state: {"firing", "cleared"}, as_of: {r.at : r \in Row}],
                 decided <- [i \in DOMAIN alert_events |->
                               [device_id |-> alert_events[i].device_id,
                                kind      |-> alert_events[i].kind,
                                state     |-> alert_events[i].state,
                                as_of     |-> alert_events[i].as_of]],
                 delivered <- pushes

(* Across failures, lost answers, kills and restarts a decision is         *)
(* recorded once, before it is pushed, and pushed at most once             *)
(* (service.py, _handle_alert).                                            *)
AlertOutboxSpec == Outbox!Spec

SamePair(e, f) == e.device_id = f.device_id /\ e.kind = f.kind

(* Two firings of one (device, kind) with no clear between them.           *)
FiredAgain(i, j) ==
  /\ i < j /\ SamePair(alert_events[i], alert_events[j])
  /\ \A k \in i .. j : SamePair(alert_events[i], alert_events[k]) =>
                          alert_events[k].state = "firing"

(* They are at least a cooldown of device time apart, whatever restarts    *)
(* lie between, except where the pair also has a clear of the very instant *)
(* of the first: DISTINCT ON may then return that clear for the latest     *)
(* decision (model.py: alert_transition; db.py: _SELECT_ALERT_STATES).     *)
StandingAlertQuiet ==
  \A i, j \in DOMAIN alert_events : FiredAgain(i, j) =>
    \/ alert_events[j].as_of - alert_events[i].as_of >= Cooldown
    \/ \E k \in 1 .. i : /\ SamePair(alert_events[i], alert_events[k])
                          /\ alert_events[k].state = "cleared"
                          /\ alert_events[k].as_of = alert_events[i].as_of

(* The last step of a pass that went through all its pairs. *)
PassCompletes == now_data # None /\ pc' = "wait" /\ last_data_now' = now_data /\ last_pass_ok'

(* When a pass completes, the newest forecast row of every pair it read    *)
(* says what the model says now: a device that went dark no longer shows   *)
(* the healthy forecast it left at the same watermark (db.py:              *)
(* _INSERT_FORECAST, "the dashboard's single worst lie").  The gate is the *)
(* status, so the same holds of a late reading that changes the status at  *)
(* an unmoved watermark: it rewrites the row.  The repository denies that  *)
(* case: db.py:42-44, a late reading "still does not rewrite a forecast,   *)
(* because it moves neither the watermark nor the status";                 *)
(* docs/analytics.md:182-184, it "does not retrigger a fit".  The fit of a *)
(* pass takes the whole window, late readings included, and their values   *)
(* may well move the status.                                               *)
CompletePassIsCurrent ==
  [][PassCompletes =>
       \A p \in Pairs :
         Samples(window, now_data, PairAt(p)) # <<>> =>
           LET new   == Modelled(window, now_data, PairAt(p))
               place == <<PairAt(p).device_id, PairAt(p).metric.kind>>
               as_of == {k[3] : k \in {q \in DOMAIN forecasts' : <<q[1], q[2]>> = place}}
           IN  /\ new.as_of \in as_of /\ Largest(as_of) = new.as_of
               /\ forecasts'[place \o <<new.as_of>>].status = new.status]_avars

(* The alert counters of /metrics never run ahead of the table, though     *)
(* passes are retried over decisions already recorded (service.py,         *)
(* _handle_alert). *)
AlertsNotOvercounted ==
  LET Events(s) == {i \in DOMAIN alert_events : alert_events[i].state = s}
  IN  /\ counters["alerts_fired"] <= Cardinality(Events("firing"))
      /\ counters["alerts_cleared"] <= Cardinality(Events("cleared"))
      /\ counters["notify_failures"] <= counters["alerts_fired"]

Forecasted(r) ==
  \A kind \in Kinds :
    \E k \in DOMAIN forecasts : k[1] = r.device_id /\ k[2] = kind /\ k[3] >= r.at

(* Under FairSpec: a reading that is the fleet's newest gets its device a  *)
(* forecast at least as new, whatever passes fail in between, unless the   *)
(* process is stopped or ends (service.py, run: "a failed pass leaves it   *)
(* untouched, so the retry re-derives everything").                        *)
NewestIsForecast ==
  \A r \in Row :
    (r \in telemetry /\ r.at = data_now(telemetry))
      ~> (Forecasted(r) \/ stop \/ pc \in Ended)

-------------------------------------------------------------------------------
(* Claims of the documentation that the code does not keep.                *)

(* docs/analytics.md: a pass whose watermark has not advanced may skip     *)
(* because "unchanged data cannot change a forecast": a skipped pass would *)
(* have found every pair of the fleet already recorded.                    *)
SkipLosesNothing ==
  [][pc = "data_now" /\ pc' = "wait" /\ last_pass_ok' /\ telemetry # {} =>
       LET now == data_now(telemetry)
       IN  \A p \in Pairs :
             Samples(telemetry, now, PairAt(p)) # <<>> =>
               LET new == Modelled(telemetry, now, PairAt(p))
                   key == <<PairAt(p).device_id, PairAt(p).metric.kind, new.as_of>>
               IN  /\ key \in DOMAIN forecasts
                   /\ forecasts[key].status = new.status]_avars

(* docs/analytics.md: alerts fire on the transition and "repeat only after *)
(* a data-time cooldown"; analytics/db.py: reading the decisions from the  *)
(* table "is what makes a restart unable to re-fire a standing alert".     *)
RepeatsAfterCooldown ==
  \A i, j \in DOMAIN alert_events :
    FiredAgain(i, j) => alert_events[j].as_of - alert_events[i].as_of >= Cooldown
===============================================================================
