------------------------------- MODULE Analytics ------------------------------
(***************************************************************************)
(* The analytics service (analytics/service.py, analytics/db.py): a loop   *)
(* of passes, each of which reads the telemetry table, forecasts every     *)
(* (device, metric) and records the forecast and the alert decision, and   *)
(* may then push a notification.  It runs beside a growing telemetry       *)
(* table, across database failures, SIGTERM, SIGKILL and restarts.         *)
(*                                                                         *)
(* pc names the await the service is suspended at; an action is the        *)
(* outcome of that await and all the code up to the next one.  Every       *)
(* statement is one transaction (autocommit).  The counts of passes and    *)
(* the gauges, which nothing reads back, are left out.                     *)
(***************************************************************************)
EXTENDS Forecast

CONSTANTS Devices,      \* the device ids, in ORDER BY order
          Metrics,      \* settings.metrics(): a sequence of Metric records
          Row,          \* the telemetry rows that may be inserted
          History,      \* those already there when the service is first run
          Cooldown,     \* alert_cooldown_hours
          Ntfy,         \* whether settings.ntfy_url is set
          MaxFaults,    \* bound: database failures and kills in a behaviour
          MaxStarts     \* bound: starts of the process in a behaviour

ASSUME AnalyticsAssumption ==
  /\ Devices \in Seq({Devices[i] : i \in DOMAIN Devices})
  /\ \A i, j \in DOMAIN Devices : Devices[i] = Devices[j] => i = j
  /\ Metrics \in Seq({Metrics[i] : i \in DOMAIN Metrics})
  /\ \A i, j \in DOMAIN Metrics : Metrics[i].kind = Metrics[j].kind => i = j
  /\ \A i \in DOMAIN Metrics : Metrics[i].lookback_seconds \in Nat
  /\ Row \subseteq [device_id: {Devices[i] : i \in DOMAIN Devices}, at: Time,
                    water: Int, battery: Int]
  /\ History \subseteq Row /\ IsFiniteSet(History)
  /\ \A r, q \in History : r.device_id = q.device_id /\ r.at = q.at => r = q
  /\ Cooldown \in Nat
  /\ Ntfy \in BOOLEAN
  /\ MaxFaults \in Nat
  /\ MaxStarts \in Nat \ {0}

VARIABLES
  telemetry,        \* the rows ingestion has inserted; it deletes none
  forecasts,        \* (device, kind, as_of) -> forecast
  alert_events,     \* decisions in the order of their id
  pushes,           \* history: ids of the decisions delivered, in order
  pc, stop,
  last_data_now,    \* the watermark of the last successful pass
  now_data, window, alert_states,   \* what this pass has read
  todo,             \* (device, metric) pairs this pass has still to handle
  fc,               \* the forecast of the first of them
  event_id, error,  \* the decision being pushed and how that went
  counters, last_pass_ok,
  faults, starts

tables   == <<forecasts, alert_events>>
passVars == <<now_data, window, alert_states, todo, fc, event_id, error>>
runVars  == <<last_data_now, last_pass_ok>>
envVars  == <<telemetry, stop>>
boundVars == <<faults, starts>>
avars    == <<tables, telemetry, pushes, pc, stop, runVars, passVars, counters,
              boundVars>>

Ended     == {"exited", "crashed", "killed"}
Statement == {"insert_forecast", "insert_alert_event", "mark_notified"}
Query     == {"connect", "data_now", "load_window", "latest_alert_states"}
PC        == Ended \cup Statement \cup Query \cup {"post_ntfy", "wait"}
Counter   == {"forecasts_written", "alerts_fired", "alerts_cleared",
              "notify_failures"}

DeviceSet == {Devices[i] : i \in DOMAIN Devices}
Kinds     == {Metrics[i].kind : i \in DOMAIN Metrics}

(* for device_id in window: for metric in metrics; a pair by its positions. *)
Pairs == (DOMAIN Devices) \X (DOMAIN Metrics)
PairAt(p) == [device_id |-> Devices[p[1]], metric |-> Metrics[p[2]]]
First(S) == CHOOSE p \in S : \A q \in S : p[1] < q[1] \/ (p[1] = q[1] /\ p[2] <= q[2])

Decision == [state: {"firing", "cleared"}, as_of: Time]
Event    == [device_id: DeviceSet, kind: Kinds, state: {"firing", "cleared"},
             as_of: Time, notified: BOOLEAN]
NoForecast == no_crossing("no_data", None)
NoStates == [p \in DeviceSet \X Kinds |-> Undecided]

TypeOK ==
  /\ telemetry \subseteq Row
  /\ DOMAIN forecasts \subseteq DeviceSet \X Kinds \X Time
  /\ alert_events \in Seq(Event)
  /\ \A i \in DOMAIN pushes : pushes[i] \in DOMAIN alert_events
  /\ pc \in PC
  /\ stop \in BOOLEAN
  /\ last_data_now \in Time \cup {None}
  /\ now_data \in Time \cup {None}
  /\ window \subseteq telemetry
  /\ alert_states \in [DeviceSet \X Kinds -> Decision \cup {Undecided}]
  /\ fc = NoForecast \/ fc.as_of \in Time
  /\ todo \subseteq Pairs
  /\ event_id \in DOMAIN alert_events \cup {None}
  /\ error \in BOOLEAN
  /\ counters \in [Counter -> Nat]
  /\ last_pass_ok \in BOOLEAN
  /\ faults \in 0 .. MaxFaults
  /\ starts \in 1 .. MaxStarts

(* What a pass has read is gone when it ends. *)
ForgetPass ==
  /\ now_data' = None
  /\ window' = {}
  /\ alert_states' = NoStates
  /\ todo' = {}
  /\ fc' = NoForecast
  /\ event_id' = None
  /\ error' = FALSE

Zero == [c \in Counter |-> 0]

Init ==
  /\ telemetry = History
  /\ forecasts = [k \in {} |-> k]
  /\ alert_events = <<>>
  /\ pushes = <<>>
  /\ pc = "connect"
  /\ stop = FALSE
  /\ last_data_now = None
  /\ last_pass_ok = FALSE
  /\ now_data = None
  /\ window = {}
  /\ alert_states = NoStates
  /\ todo = {}
  /\ fc = NoForecast
  /\ event_id = None
  /\ error = FALSE
  /\ counters = Zero
  /\ faults = 0
  /\ starts = 1

Fault ==
  /\ faults < MaxFaults
  /\ faults' = faults + 1
  /\ UNCHANGED starts

-------------------------------------------------------------------------------
(* Reading the table.                                                      *)

data_now(rows) == IF rows = {} THEN None ELSE Largest({r.at : r \in rows})

(* load_window: the rows newer than the earliest cutoff of the metrics.    *)
InWindow(rows, now) ==
  {r \in rows : \E i \in DOMAIN Metrics : r.at > now - Metrics[i].lookback_seconds}

(* A pair's samples in its own window, in device-time order. *)
Samples(rows, now, pair) ==
  LET mine == {r \in rows : /\ r.device_id = pair.device_id
                            /\ r.at > now - pair.metric.lookback_seconds}
      Nth(i) == CHOOSE r \in mine : Cardinality({q \in mine : q.at < r.at}) = i - 1
  IN  [i \in 1 .. Cardinality(mine) |->
         [at |-> Nth(i).at, finite |-> TRUE, aware |-> TRUE,
          value |-> IF pair.metric.kind = "water" THEN Nth(i).water ELSE Nth(i).battery]]

Modelled(rows, now, pair) ==
  forecast(Samples(rows, now, pair), pair.metric, now,
           now - pair.metric.lookback_seconds)

(* Mutant: the previous state is not read from the table.                  *)
BugProcessMemory(device, kind) == {Undecided}

(* The rows DISTINCT ON may return: on a tie of as_of the query does not   *)
(* say which. *)
LatestDecisions(device, kind) ==
  LET mine == {i \in DOMAIN alert_events :
                 alert_events[i].device_id = device /\ alert_events[i].kind = kind}
      last == {i \in mine : \A j \in mine : alert_events[i].as_of >= alert_events[j].as_of}
  IN  IF mine = {} THEN {Undecided}
      ELSE {[state |-> alert_events[i].state, as_of |-> alert_events[i].as_of] : i \in last}

-------------------------------------------------------------------------------
(* The end of a pass, and of the process.                                  *)

(* run_pass returned w. *)
PassReturns(w) ==
  /\ last_data_now' = w
  /\ last_pass_ok' = TRUE
  /\ pc' = "wait"
  /\ ForgetPass

Ends(how) ==
  /\ pc' = how
  /\ ForgetPass
  /\ UNCHANGED runVars

(* On to the pairs in rest: forecast the first.  An exception of the model *)
(* is not one of those the loop catches. *)
Continue(rest) ==
  \/ rest = {} /\ PassReturns(now_data)
  \/ /\ rest # {}
     /\ LET modelled == Modelled(window, now_data, PairAt(First(rest)))
        IN  \/ /\ modelled.status # "raised"
               /\ pc' = "insert_forecast"
               /\ todo' = rest
               /\ fc' = modelled
               /\ event_id' = None
               /\ error' = FALSE
               /\ UNCHANGED <<runVars, now_data, window>>
            \/ /\ modelled.status = "raised"
               /\ Ends("crashed")

(* Continue, within the loop over the pairs. *)
NextPair ==
  /\ Continue(todo \ {First(todo)})
  /\ pc' = "insert_forecast" => UNCHANGED alert_states

-------------------------------------------------------------------------------
(* run_pass up to its loop.                                                *)

Connect ==
  /\ pc = "connect"
  /\ pc' = "data_now"
  /\ UNCHANGED <<tables, envVars, pushes, runVars, passVars, counters, boundVars>>

(* Nothing newer than the last successful pass saw. *)
Unmoved(now) == last_data_now # None /\ now <= last_data_now

DataNow ==
  LET now == data_now(telemetry)
  IN  /\ pc = "data_now"
      /\ IF now = None \/ Unmoved(now) THEN PassReturns(now)
         ELSE /\ pc' = "load_window"
              /\ now_data' = now
              /\ UNCHANGED <<runVars, window, alert_states, todo, fc, event_id, error>>
      /\ UNCHANGED <<tables, envVars, pushes, counters, boundVars>>

LoadWindow ==
  /\ pc = "load_window"
  /\ window' = InWindow(telemetry, now_data)
  /\ pc' = "latest_alert_states"
  /\ UNCHANGED <<tables, envVars, pushes, runVars, now_data, alert_states, todo,
                 fc, event_id, error, counters, boundVars>>

(* A pair without samples has nothing to record: the loop passes over it.  *)
LatestAlertStates ==
  /\ pc = "latest_alert_states"
  /\ Continue({p \in Pairs : Samples(window, now_data, PairAt(p)) # <<>>})
  /\ pc' = "insert_forecast" =>
       /\ alert_states' \in
            [DeviceSet \X Kinds ->
               UNION {LatestDecisions(p[1], p[2]) : p \in DeviceSet \X Kinds}]
       /\ \A p \in DeviceSet \X Kinds : alert_states'[p] \in LatestDecisions(p[1], p[2])
  /\ UNCHANGED <<tables, envVars, pushes, counters, boundVars>>

-------------------------------------------------------------------------------
(* The loop over the pairs.                                                *)

Pair == PairAt(First(todo))
Key  == <<Pair.device_id, Pair.metric.kind, fc.as_of>>

Transition ==
  alert_transition(fc, Pair.metric,
                   alert_states[<<Pair.device_id, Pair.metric.kind>>], Cooldown)

(* Mutant: ON CONFLICT DO NOTHING.                                         *)
BugDoNothing == Key \notin DOMAIN forecasts

(* The conflict clause updates a row only when its status changes. *)
Written == Key \in DOMAIN forecasts => forecasts[Key].status # fc.status

insert_forecast ==
  /\ forecasts' = IF Written
                  THEN [k \in DOMAIN forecasts \cup {Key} |->
                          IF k = Key THEN fc ELSE forecasts[k]]
                  ELSE forecasts
  /\ UNCHANGED alert_events

(* Mutant: a decision is new whatever has been recorded.                   *)
BugAlwaysNew == TRUE

(* The unique key of alert_events is free: RETURNING id gives a row. *)
NewDecision ==
  \A i \in DOMAIN alert_events :
    \/ alert_events[i].device_id # Pair.device_id
    \/ alert_events[i].kind # Pair.metric.kind
    \/ alert_events[i].as_of # fc.as_of
    \/ alert_events[i].state # Transition

insert_alert_event ==
  /\ alert_events' = IF NewDecision
                     THEN Append(alert_events,
                            [device_id |-> Pair.device_id, kind |-> Pair.metric.kind,
                             state |-> Transition, as_of |-> fc.as_of, notified |-> FALSE])
                     ELSE alert_events
  /\ UNCHANGED forecasts

mark_notified ==
  /\ alert_events' = [alert_events EXCEPT ![event_id].notified = ~error]
  /\ UNCHANGED forecasts

CountIf(condition, c) ==
  counters' = IF condition THEN [counters EXCEPT ![c] = @ + 1] ELSE counters

(* Mutant: no early return when there is no transition.                    *)
BugNoEarlyReturn ==
  /\ pc = "insert_forecast"
  /\ insert_forecast
  /\ CountIf(Written, "forecasts_written")
  /\ pc' = "insert_alert_event"
  /\ UNCHANGED <<runVars, passVars, envVars, pushes, boundVars>>

InsertForecast ==
  /\ pc = "insert_forecast"
  /\ insert_forecast
  /\ CountIf(Written, "forecasts_written")
  /\ \/ Transition = "nothing" /\ NextPair
     \/ /\ Transition # "nothing"
        /\ pc' = "insert_alert_event"
        /\ UNCHANGED <<runVars, passVars>>
  /\ UNCHANGED <<envVars, pushes, boundVars>>

(* Mutant: a decision already recorded is counted again.                   *)
BugCountFirst ==
  /\ pc = "insert_alert_event" /\ ~NewDecision
  /\ insert_alert_event
  /\ CountIf(TRUE, IF Transition = "firing" THEN "alerts_fired" ELSE "alerts_cleared")
  /\ NextPair
  /\ UNCHANGED <<envVars, pushes, boundVars>>

(* The same decision is already recorded: it neither counts nor notifies.  *)
DecisionKnown ==
  /\ pc = "insert_alert_event" /\ ~NewDecision
  /\ insert_alert_event
  /\ NextPair
  /\ UNCHANGED <<envVars, pushes, counters, boundVars>>

DecisionRecorded ==
  /\ pc = "insert_alert_event" /\ NewDecision
  /\ insert_alert_event
  /\ CountIf(TRUE, IF Transition = "firing" THEN "alerts_fired" ELSE "alerts_cleared")
  /\ \/ /\ Transition = "firing" /\ Ntfy
        /\ pc' = "post_ntfy"
        /\ event_id' = Len(alert_events')
        /\ UNCHANGED <<runVars, now_data, window, alert_states, todo, fc, error>>
     \/ /\ ~(Transition = "firing" /\ Ntfy)
        /\ NextPair
  /\ UNCHANGED <<envVars, pushes, boundVars>>

(* post_ntfy never raises.  A failure it reports, a timeout for one, may   *)
(* still have been delivered. *)
PostNtfy ==
  /\ pc = "post_ntfy"
  /\ \/ error' = FALSE /\ pushes' = Append(pushes, event_id)
     \/ error' = TRUE /\ pushes' \in {pushes, Append(pushes, event_id)}
  /\ pc' = "mark_notified"
  /\ UNCHANGED <<tables, envVars, runVars, now_data, window, alert_states, todo, fc,
                 event_id, counters, boundVars>>

MarkNotified ==
  /\ pc = "mark_notified"
  /\ mark_notified
  /\ CountIf(error, "notify_failures")
  /\ NextPair
  /\ UNCHANGED <<envVars, pushes, boundVars>>

-------------------------------------------------------------------------------
(* The loop of run().                                                      *)

WaitEnds ==
  /\ pc = "wait"
  /\ pc' = IF stop THEN "exited" ELSE "connect"
  /\ UNCHANGED <<tables, envVars, pushes, runVars, passVars, counters, boundVars>>

Execute ==
  \/ pc = "insert_forecast"    /\ insert_forecast
  \/ pc = "insert_alert_event" /\ insert_alert_event
  \/ pc = "mark_notified"      /\ mark_notified

(* Mutant: a failed pass moves the watermark.                              *)
BugFailedPassAdvances ==
  /\ pc \in Query \cup Statement
  /\ Fault
  /\ Execute \/ UNCHANGED tables
  /\ last_data_now' = now_data
  /\ last_pass_ok' = FALSE
  /\ pc' = "wait"
  /\ ForgetPass
  /\ UNCHANGED <<envVars, pushes, counters>>

(* psycopg.Error, before or after the statement in flight commits. *)
PassFails ==
  /\ pc \in Query \cup Statement
  /\ Fault
  /\ Execute \/ UNCHANGED tables
  /\ last_pass_ok' = FALSE
  /\ pc' = "wait"
  /\ ForgetPass
  /\ UNCHANGED <<envVars, pushes, last_data_now, counters>>

-------------------------------------------------------------------------------
(* The environment.                                                        *)

Ingest ==
  /\ \E r \in Row :
       /\ \A q \in telemetry : q.device_id = r.device_id => q.at # r.at
       /\ telemetry' = telemetry \cup {r}
  /\ UNCHANGED <<tables, pushes, pc, stop, runVars, passVars, counters, boundVars>>

SigTerm ==
  /\ pc \notin Ended /\ ~stop
  /\ stop' = TRUE
  /\ UNCHANGED <<tables, telemetry, pushes, pc, runVars, passVars, counters, boundVars>>

Kill ==
  /\ pc \notin Ended
  /\ Fault
  /\ Ends("killed")
  /\ UNCHANGED <<tables, envVars, pushes, counters>>

Start ==
  /\ pc \in Ended /\ starts < MaxStarts
  /\ starts' = starts + 1
  /\ pc' = "connect"
  /\ stop' = FALSE
  /\ last_data_now' = None
  /\ last_pass_ok' = FALSE
  /\ counters' = Zero
  /\ UNCHANGED <<tables, telemetry, pushes, passVars, faults>>

Service ==
  \/ Connect \/ DataNow \/ LoadWindow \/ LatestAlertStates
  \/ InsertForecast \/ DecisionKnown \/ DecisionRecorded
  \/ PostNtfy \/ MarkNotified \/ WaitEnds

Next == Service \/ PassFails \/ Ingest \/ SigTerm \/ Kill \/ Start

Spec == Init /\ [][Next]_avars

(* WF_avars(Service): the event loop runs a task that can run.  An await   *)
(* ends one way or another, so the service has a step until it has ended,   *)
(* and ENABLED <<Service>>_avars is written pc \notin Ended.                *)
FairSpec == Spec /\ ([]<>(pc \in Ended) \/ []<><<Service>>_avars)
===============================================================================
