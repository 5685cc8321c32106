# A verification project for planter-telemetry

planter-telemetry carries readings of self-watering planters from devices over
MQTT into a TimescaleDB database, forecasts from them when each planter runs
dry or flat, and alerts on the forecast. These TLA+ modules model the two
services that do this and the data they share, the simulator that stands in for
the devices, and the migrations that make the schema. TLC checks small
instances; TLAPS proves theorems for every value of the constants.

Paths of Python sources below are relative to `src/planter_telemetry/`; others
to the repository.

## 1. Inventory

| Component | State it keeps | Operations | Talks to |
|---|---|---|---|
| Message contract (`contract.py`, `ingestion/core.py`) | none | topic round trip, validation, conversion to UTC, `classify` | called by ingestion, the simulator and the CLI |
| Ingestion service (`ingestion/service.py`) | `pending` deque, aiomqtt's queue, `latest`, counters, health flags, stop event | connect, subscribe, replay, consume, drain, salvage, back off, final flush | broker (MQTT), database, `/healthz` and `/metrics` |
| Ingestion storage (`ingestion/db.py`) | tables `telemetry`, `devices`, `dead_letter`, `ingest_events` | four autocommit statements | called by the ingestion service; read by analytics and Grafana |
| Broker (mosquitto, aiomqtt, paho: not in the repository) | persistent session, subscription | queue, deliver, acknowledge, redeliver | devices, ingestion |
| Forecast model (`analytics/model.py`) | none | segment, fit, extrapolate, status, alert rule | called by the analytics service |
| Analytics service (`analytics/service.py`, `notify.py`) | watermark of the last good pass, counters, gauges, health | pass loop, forecast each pair, record, decide, push | database, ntfy |
| Analytics storage (`analytics/db.py`) | tables `forecasts`, `alert_events` | three reads, three writes | called by the analytics service |
| Simulator (`simulator/stream.py`, `dynamics.py`, `wire.py`) | per-device level, battery, deferred deque | wake, refill, defer, duplicate, corrupt, merge | called by the publisher |
| Publisher (`simulator/publisher.py`) | paho's queue and connection, the heartbeat file | connect with retries, publish, drop, log, beat, stop; paho's thread sends, resends, reconnects | broker, compose's health check |
| Capture and replay CLI (`cli/`) | a JSONL file | capture, encode, decode, pace, publish | broker |
| Migrations (`migrate.py`, `migrations/`) | schema, `alembic_version` | wait for the database, stamp, run the missing revisions | database, on every `up`, before the services |
| Compose (`docker-compose.yml`) | which containers run | order of start, reruns | all of the above |
| Health and metrics servers (`ops.py`, `*/ops.py`) | none of their own | render what the services keep | HTTP |
| Grafana, logging | none | read-only queries, formatting | - |

The behaviours that are hard to get right, and hard to test:

* **The acknowledgement window.** paho acknowledges a QoS 1 message when it
  buffers it, before the service has seen it. From then on only the service's
  memory holds the message, across database failures, reconnects, SIGTERM and
  the final flush.
* **Interleaving at awaits.** Messages arrive, links drop and SIGTERM comes at
  every await of the ingestion task.
* **Lost answers.** An autocommit statement may commit although its caller sees
  an error, so every write may be repeated.
* **Redelivery and disorder.** Duplicates, late and out-of-order readings, and
  one instant spelled with two UTC offsets.
* **Restarts.** Both services lose their memory and rely on the tables alone.
* **Reads that are not one snapshot.** An analytics pass runs several queries
  beside a growing table; its skip rule uses one number, the fleet's watermark,
  for a whole window of data.
* **Delivery as a side effect.** A decision, its push and the note that it was
  pushed are three steps.
* **Half-done migrations.** An autocommit block commits statement by statement
  and its version last; a kill in between leaves a schema no release describes.
* **A queue at its limit.** Through an outage the publisher keeps producing: the
  result of `publish` says less than its name, and the heartbeat is written a
  step after the check that allows it.
* **Numeric edges.** Staleness, truncation and horizon limits; crossings beyond
  the calendar.

`PROJECT.json` lists each hazard at its line, with the properties that cover it.

## 2. Modules

```
Contract ── Storage ──┐
   └─────── Broker ───┴─ Ingestion ── IngestionProperties ── MCIngestion
                             │                └─ instance of EffectivelyOnce
                             └─ IngestionProofs ── BacklogProofs ── DeadLetterProofs
Forecast ─┬─ ForecastSeries ─┬─ MCForecast
          │                  └─ ForecastProofs
          └─ Analytics ── AnalyticsProperties ─┬─ MCAnalytics
                                │              └─ AnalyticsProofs
                                └─ instance of AlertOutbox
Simulator ─┬─ MCSimulator
           └─ SimulatorProofs
Migration ──┬─ Deployment ── MCDeployment (with Revisions)
Publisher ──┘      ├──────── MigrationProofs (with Revisions)
                   └──────── PublisherProofs
```

### Ingestion

`Contract` is pure: topics, payloads as records of the facts validation tests,
`ToUtc`, and `Classify` with its three outcomes: a reading, a dead letter, or an
exception that escapes. `Storage` has the four tables as variables and one
action per statement; a statement is atomic because the connection is in
autocommit mode. `Broker` is external code: one persistent session that queues
routed messages, and a restart that forgets it (`persistence false`).

`Ingestion` is `service.py`. Its variable `pc` names the await at which the one
asyncio task is suspended; an action is the outcome of that await and all the
code up to the next one, since nothing else of the process can run in between.
`loop` says which of the four loops (replay, consume, drain, flush) the item in
hand belongs to. `pending` and `messages` are the code's deque and aiomqtt's
queue; `Deliver` moves a message from the session to `messages`, which is the
acknowledgement. `Proceed` is the chain of while conditions from the end of one
item to the next await. A failing write either committed or did not
(`Execute \/ UNCHANGED`). History variables: `reported` (messages counted by an
`acked_messages_dropped` line), `faults` and `starts` (bounds).

| Code | Action |
|---|---|
| `Writer.connect`, entering the client, `subscribe` | `ConnectDb`, `ConnectMqtt`, `Subscribe`, `ConnectFails`, `SubscribeFails`, `SubscribeOnDeadLink` |
| `_next_message` | `TakeMessage`, `StopNoticed`, `Disconnected` |
| `_handle_one` | `Handle` (up to the first await), `UpsertDevice`, `InsertNew`, `InsertDuplicate`, `RecordDedupe`, `InsertDeadLetter` |
| `_salvage_queue` and the reconnect handler | `WriteFails`, `Reconnect`, `BackoffEnds` |
| final flush | `ConnectFlush`, `FlushFails`, `RaiseInFlush` |
| signals, crashes, supervisor | `SigTerm`, `RaiseEndsRun`, `Kill`, `Start` |

`EffectivelyOnce` is what ingestion promises: every row of telemetry is the
reading of a message that was sent, one row per key, for ever; every reject is
a message that was sent.

### Analytics

`Forecast` is `model.py`, in exact fractions where the code uses floating
point; a crossing is rounded to a tick as `timedelta` rounds to a microsecond,
and `status = "raised"` stands for an exception. `ForecastSeries` grows a series
sample by sample, with refills, gaps and malformed samples, and moves the
fleet's clock ahead of the device; in each state the model is asked for a
forecast.

`Analytics` is `service.py` with the statements of `db.py`, in the same style:
`pc` names the await (a query, a statement, the push, the wait). `window` and
`alert_states` are what the pass has read and may be stale when used; `Ingest`
adds telemetry at any moment. The conflict clauses are `Written` (a forecast row
changes only with its status) and `NewDecision`. `LatestDecisions` returns a set
because `DISTINCT ON` does not say which of two decisions of one `as_of` it
takes. `AlertOutbox` is the abstract specification: a decision is recorded once
and stays, a push follows its decision and is never repeated, though it may be
lost.

### Simulator

`Simulator` is the generator chain of `simulator/stream.py` with the clock of
`simulator/dynamics.py`. A wake of a device is `Missed`, `Deferred` or `CheckIn`;
each first yields the deferred readings that are due (`Released`), as the release
loop does, and ends with the next jittered `measured_at`. `ahead` holds what a
generator will yield at the present wake and the merge has not taken. Generators
are lazy: `Advance` runs a stream only when the merge asks it for a head. A
random draw is a choice; draws a wake does not use are left out.

### Migrations, publisher and their deployment

`Migration` is the one-shot container of `migrate.py` over any chain of
revisions. `db` is what is committed (objects and `alembic_version`), `tx` the
same as the run's own connection sees it: a transactional revision changes `tx`
only (`RunTransactional`), an autocommit block first commits what came before it
(`EnterBlock`), then each of its statements (`Execute`), and its version is
bumped in a new transaction (`Bump`) that the next commit publishes. `Interrupt`
stands for a kill, a database that goes away and a refused statement alike: the
open transaction is rolled back. `Up` runs the container again, any number of
times. `Refused` is what PostgreSQL would not do: make what exists without a
guard, refer to what does not exist, convert a table with rows without
`migrate_data`. `Revisions` is the chain 0001 to 0010 in those terms, one
definition per file; the initial states are an empty volume, the tables of M2
without a version, and every release from 0001 on, each with or without the
cluster's role `grafana_reader` (`down -v` aside, a role may outlive a database).

`Publisher` is the main thread of `simulator/publisher.py` beside paho's network
thread. `queue` holds paho's outgoing messages, of which the first `sent` are in
flight; `link` is the connection, `"dead"` while paho has not noticed that it is
gone. The three results of `publish` are `PublishDropped` (`MQTT_ERR_QUEUE_SIZE`),
`PublishUnsent` (`MQTT_ERR_NO_CONN`, which keeps the message) and
`PublishAccepted`, which paho also answers without a connection when enough
messages are already waiting. `Check` and `Beat` are two steps because paho's
thread runs between them.

`Deployment` puts both beside the gate of `docker-compose.yml`: the services
start when migrate has succeeded, the simulator does not wait; the broker queues
for ingestion from its first subscription on and forgets at a restart.

## 3. Runs

| Run | Question | Bounds |
|---|---|---|
| `ingestion_faults` | Do the tables, the registry and the health flags stay right, and is delivery effectively once, whatever fails? | three messages of one device (early, late, and the late instant spelled with another offset), all five fault kinds, three faults, two starts |
| `ingestion_backlog` | Is an acknowledged message ever lost silently, does the service stop, is owed work done? | three messages (a reading, a misplaced one, one whose instant has no UTC datetime), four fault kinds (no broker restart), two faults, two starts |
| `forecasts` | Do forecasts keep their promises? | every series of up to five samples over five values and two gaps, the fleet up to four ticks ahead |
| `alerts` | Are alerts recorded once, pushed at most once, quiet when standing, and forecasts current? | two pods, seven rows (four there from the start), two faults, two starts |
| `simulator` | Is the fleet published in order, late by at most three wakes, and with one reading per key? | two devices of four and two wakes, two phases, two jitters |
| `deployment` | Does every rerun of migrate reach head from wherever a kill left it, is the version true at every commit, does ingestion start only at head, and is every emission accounted for? | the ten revisions of the repository, kills and reruns unbounded; three emissions, a queue of two with one in flight, two attempts to connect, one outage or broker restart |
| `drain_loss`, `subscribe_loss`, `content_crash`, `forecast_overflow`, `skip_starves`, `tied_refire` | Claims of the documentation that the code does not keep; each run finds a violation (section 6). | as small as shows it |

*Why the bounds are enough.* The ingestion task handles one message at a time,
so three messages, each published once and redelivered when its
acknowledgement is lost (which is how a repeated message looks), give every relation the code distinguishes: the item in hand and those behind
it, a reading and its duplicate, an early and a late one, a valid and an invalid
one. Two or three faults let a second failure hit the recovery from the first;
two starts give a restart over tables that already hold rows. In `alerts`, pod
"a" runs dry, rebounds, and then has a late row that turns the rebound into a
decline at the same instant; pod "b" goes dark, and one of its rows makes a
crossing beyond the calendar. So a firing, a clear, a firing at the clear's
`as_of` (the tie), a stale row over a healthy one and a crash all occur. In
`forecasts`, values and gaps are chosen so that a refill step, a gap beyond the
limit, a window edge, a flat, a rising and a falling series all occur. In
`simulator`, four wakes let a reading deferred by one wait behind one deferred by
three, equal publish times of the two devices occur, and the drawn jitter exceeds
the interval, so that its cap matters. In `deployment`, the schema needs no
bound at all; a queue of two fills with one message in flight and one behind it,
so that the third is dropped, and one outage is enough to lose an
acknowledgement, to resend, to have a message accepted without a connection and
to catch a heartbeat between its check and its touch. All actions fire; every property has a mutant, a plausible bug in a mapped
definition (`PROJECT.json`, "mutants"), that violates it.

*Deadlock* is not checked in the service runs: a process may end for good.

*Fairness.* Liveness is checked under `FairSpec`. Ingestion: weak fairness of
the task's own steps (the event loop runs a task that can run) and of delivery
by a connected broker; no fault, signal or restart is ever owed. Analytics: weak
fairness of the service's steps, written out with its enabling condition
(`pc \notin Ended`), because every await of the service ends, with an answer or
an error. Faults are bounded, so "the database eventually stays up" is the bound
`MaxFaults`; the liveness properties excuse a stop or the end of the process.
Deployment: weak fairness of the steps of a migrate container that is running
(`RunReachesHead` says that such a run ends, and a refused statement would leave
it stuck), and of paho's thread with the broker it reconnects to
(`HeldReachesIngestion`); neither the main thread of the simulator, nor kills,
outages and reruns are owed.

## 4. What is proved

| Theorem | Says | Module |
|---|---|---|
| `TypeCorrect` | `Spec => []TypeOK` of ingestion | `IngestionProofs` |
| `RegistryCoversReadings` | no reading without its registry row, whose interval contains it | `IngestionProofs` |
| `StoredForGood` | no step deletes or rewrites a stored row, or narrows the interval of a device in the registry | `IngestionProofs` |
| `InstantsAreUnique` | one row per device and instant | `IngestionProofs` |
| `DeliveryIsEffectivelyOnce` | ingestion implements `EffectivelyOnce` | `IngestionProofs` |
| `IdleOwesNothing` | the service idles only with nothing owed | `BacklogProofs` |
| `NothingIsLostSilently` | outside a kill and three named gaps, no step loses an acknowledged message without writing or reporting it | `BacklogProofs` |
| `RegistryIsExact` | while the service waits in its first life, both endpoints of every registry row are stored instants | `BacklogProofs` |
| `HealthFollowsLoops` | `/healthz` answers 200 exactly from the SUBACK until the client is left; both flags are down in every reconnect gap, the flush and after the end | `BacklogProofs` |
| `CountersFollowRows` | no served counter exceeds the rows it counts | `BacklogProofs` |
| `DeadLettersHaveFaults` | every row of a dead letter beyond its first has a fault to show for it | `DeadLetterProofs` |
| `AnalyticsTypeCorrect` | `Spec => []TypeOK` of analytics | `AnalyticsProofs` |
| `StandingAlertsStayQuiet` | two firings without a clear between them are a cooldown apart, across failures and restarts, except where the pair was also cleared at the first firing's own instant (finding 6) | `AnalyticsProofs` |
| `AlertsCounted` | the alert counters never exceed the decisions recorded | `AnalyticsProofs` |
| `PassesLeaveCurrent` | a completed pass leaves the newest forecast row of every pair with the status the model gives it now, also after a late reading at an unmoved watermark (section 6) | `AnalyticsProofs` |
| `AlertsRefineOutbox` | analytics implements `AlertOutbox` | `AnalyticsProofs` |
| `CrossingsHangTogether` | status, crossing and band of an answer agree | `ForecastProofs` |
| `OldTanksForgotten` | the answer depends on the newest segment alone | `ForecastProofs` |
| `GlitchesTolerated` | one wild value in a ramp of any length from five moves the crossing not at all, unless it makes a rise of `refill_jump` or more, which the code takes for a refill | `ForecastProofs` |
| `SlowFleetsStayFresh` | a device that keeps its pace is not stale within one check-in | `ForecastProofs` |
| `TruncationsAdmitted` | a fit the lookback cut short is marked truncated | `ForecastProofs` |
| `LateArrivesSoon` | a deferred reading is sent within three wakes | `SimulatorProofs` |
| `InstantsGrow` | `measured_at` grows from wake to wake | `SimulatorProofs` |
| `HeldIsNotSent` | no reading is both sent and held back | `SimulatorProofs` |
| `FleetPublishesInOrder` | the merged stream is ordered by `publish_at` | `SimulatorProofs` |
| `DuplicatesFollow` | a duplicate directly follows what it repeats | `SimulatorProofs` |
| `VersionsRerunnable` | the chain 0001 to 0010 is `Rerunnable` | `MigrationProofs` |
| `MigrationNeverRefused` | no statement of a rerunnable chain is refused, from any release, after any kills | `MigrationProofs` |
| `MigrationHonest` | `alembic_version` is true at every instant a kill can leave | `MigrationProofs` |
| `IngestionAfterSchema` | ingestion and its session exist only at head | `MigrationProofs` |
| `DeploymentTypeCorrect` | `Spec => []TypeOK` of the deployment | `PublisherProofs` |
| `PublisherAccounts` | an emission has arrived, is held or was logged | `PublisherProofs` |
| `PublisherBeats` | at most one heartbeat, the unconditional first one included, falls into an outage paho has noticed | `PublisherProofs` |

With these, every safety property that a passing run checks is also a theorem,
for all values of the constants that meet the named assumptions, which TLC
evaluates in the runs:

* `ContractAssumption`, `WireAssumption`, `BoundsAssumption`: any devices,
  messages, payloads, calendar, fault kinds and bounds.
* `LastTimeAssumption`, `SeriesAssumption`: any calendar, any metric whose
  thresholds are integers and whose counts and factors are positive, as the two
  records of `model.METRICS` are; any values; gaps are positive because
  `measured_at` is a key.
* `AnalyticsAssumption`: device names and metric kinds are listed once
  (`DISTINCT` and the tuple `METRICS`); the rows to come are finitely many and
  have one row per device and instant, which is the primary key of `telemetry`,
  and which `InstantsAreUnique` proves of the service that fills it.
* `SimulatorAssumption`, `PublisherAssumption`, `MigrationAssumption`: numbers
  of devices, wakes, emissions and queue limits are natural, rates are on or
  off, a chain of revisions is not empty.

Two theorems have a hypothesis beside these. The three of migration assume that
the chain is `Rerunnable`, which `VersionsRerunnable` shows of this repository's.
`DeadLettersHaveFaults` assumes `RowsTellApart`: that two rejected messages with
the same dead-letter row are one message. The property counts rows by what they
record, so without it the same rubbish published twice would be counted together;
`MCIngestion` assumes the same of its catalogue, and TLC evaluates it.

*Ingestion.* `TypeOK` is not inductive (the invariant proved is `TypeInv`),
because the code's actions take the head of `pending` and read the reading of
the item in hand. It is strengthened with the facts that make those total: at a
statement `pending` is not empty, and the item is a reading at the three reading
statements and a dead letter at the fourth. The registry invariant needs that,
while a reading is being inserted, the row of its device already covers it,
which `upsert_device` establishes one await earlier and no other action can
undo. Implementation of `EffectivelyOnce` needs that what is buffered was
published. The backlog theorem needs to know, per loop, which element of
`pending` the item in hand is (`ItemIsHead`): in the replay, consume and flush
loops it is the head, which is what makes popping the head right; in the drain
loop it is the last, which is the gap. `RegistryIsExact` uses the same fact: an
endpoint of a registry row is the instant of a stored reading or of a message of
`pending` (`ConvInv`), and a message leaves `pending` only written. A crash ends
that, since `pending` dies with the process, and so may the drain loop.
`HealthFollowsLoops` needs that every step that stays in the client keeps both
flags, and that no connection is opened while the broker's flag is up
(`HealthInv`): the flags are set at two awaits, and only the teardown drops them.
It says when the service believes itself connected, not that it is: see section 6.

*Dead letters.* The number of rows is not inductive: what a step adds to the
table it takes from somewhere. `DeadLetterProofs` bounds the *weight* of a
rejected message, its rows and all its copies in the session, the client's queue
and the deque, by one more than the faults (`WeightInv`). A fault adds one copy
or one row at most. The drain loop is the exception: it writes the newest message
and pops the oldest, so a copy of what it wrote stays, with no new fault. That
takes an older message in the deque, which only an earlier fault leaves there,
so a message that may be drained behind another has one fault to spare
(`SpareInv`). That this fault has not been spent on another copy rests on the
order of delivery: a connection delivers a message once (`FreshInv`), and one
that is buffered and still in the session is the session's head, with nothing
but its own copies buffered behind it (`OrderInv`).

*Analytics.* `AnalyticsInv` says what a pass knows at each await (`PassInv`),
that decisions of a pair are recorded in the order of their instants
(`TableInv`), that no record of a pair is newer than the newest sample the pass
has read of it (`NewestInv`: the window is read once, tables only grow by the
pass itself), that of every pair still to do what was read of `alert_events` is
still the latest (`StatesInv`), that every pair done has its row (`DoneInv`), and
that a firing is counted before its push can fail (`CountInv`). `StatesInv` is
what makes a decision over a stale read right: the one writer of the table is
the task itself. The forecast is opaque here but for the instant it is of.

*Forecasts.* `SeriesInv` orders the samples in time; everything else is algebra
of `forecast`. `RankedIs` says that every rank of a finite family is taken,
`MedianBetween` that a median lies between two members and splits the family,
`Majority` that a value shared by more than half is the median. From the last,
one glitch among n points spoils n - 1 of the n(n - 1)/2 slopes, which is less than half from five
points on. `CrossingsHangTogether` is stated as
`[](ForecastTotal => CrossingInvariant)`: where the conversion to a datetime
overflows there is no answer (finding 4), and in the run that checks
`CrossingInvariant` the calendar is long enough.

*Simulator.* `StreamInv` keeps the deque of a device in the order of wakes with
each entry due one to three wakes after its own (`DequeInv`): hence the head,
although perhaps due later than one behind it, is out in time for both. All a
stream yields at a wake has one publish time (`YieldInv`), a duplicate stands
directly behind its original (`DuplicateInv`), and nothing still to come is
older than what was published (`FrontInv`).

*Migrations.* The theorems hold for every chain that is `Rerunnable`: no object
is made by two revisions, what a statement needs is made before it, a statement
that commits alone is guarded, an unguarded one makes nothing that may outlive
the database, and the baseline is transactional. `VersionsRerunnable` shows it of
the repository's own chain, so a new revision needs that lemma and no other. The
invariant is `IInv` of `MigrationProofs`: what is committed is all of the
revisions up to the version and at most part of the next, and that only if the
next is autocommitted (`DbHonest`); the run sees the same of its own version
(`TxHonest`); in an open block both are equal and the statements before `stmt`
have been made (`Stages`). None of these is implied by the properties alone:
`NeverRefused` speaks of one statement, and needs to know what is absent.

*Publisher.* `NothingLostUnlogged` is not inductive: an acknowledgement drops the
head of paho's queue, which is right only because what is in flight has arrived
(`Prefix`). `AtMostOneStrayBeat` needs that a heartbeat decided while connected
still has none before it in the outage (`Beats`).

Model-checked only: the liveness properties (`StopEnds`, `OwedIsWritten`,
`DeadLinkNoticed`, `NewestIsForecast`, `RunReachesHead`, `HeldReachesIngestion`).
They rest on fairness and `ENABLED`, which are beyond the prover, and on the
bounds that end the faults. The runs that find a violation have nothing to prove.

## 5. What is abstracted or left out

* The text of a dead letter's reason, of a log line and of a notification.
* Values are integers, volts are tenths; floating-point error is not modelled.
* aiomqtt's internals: the queue holds what it acknowledged, and its iterator
  prefers queued messages to noticing a disconnect, as `service.py` states. That
  leaving the client does not replace an exception in flight is assumed.
* The broker's own queue limit; the length of backoff and timeouts (an action
  may happen at any time; the flush timeout is one of the ways `FlushFails`).
* The pass counts, gauges and durations of analytics, which nothing reads back.
* Metrics rendering, HTTP, dashboards, logging.
* Of a revision, columns, types, SELECT lists and the schedules of policies;
  `downgrade`, which nothing calls; `alembic upgrade --sql`. A statement is one
  object, also where `GRANT` names several. Two migrate containers at once.
* The pacing of the publisher by the wall clock, and the level, voltage and
  corrupted bytes of an emission, which decide nothing in the publisher. What
  paho holds is gone when the simulator ends, and what is published before
  ingestion's first subscription goes nowhere: both are in the model, and excuse
  `HeldReachesIngestion`.
* *Not modelled:* capture and replay (`cli/`), which are run by hand, one
  sequential pass over a file, and share no state with the services; to them a
  replayed record is a device's message. Grafana reads only.

## 6. Findings

Each has a run that TLC violates, and an entry with its quotation in
`PROJECT.json`.

1. `drain_loss`: SIGTERM during the replay of a backlog makes the drain loop pop
   older, unwritten messages. They are lost without a log line.
2. `subscribe_loss`: messages a resumed session delivers before SUBACK are lost
   if the subscribe fails.
3. `content_crash`: a timestamp with no UTC datetime ends the service.
4. `forecast_overflow`: a nearly flat fall raises `OverflowError`, which ends the
   analytics service, also after each restart (the crash is an action of
   `Analytics`, which the run `alerts` reaches).
5. `skip_starves`: the skip rule ignores late data of a device behind the fleet.
6. `tied_refire`: a late reading can turn a clear into a firing at an unmoved
   watermark. The two decisions share an `as_of`, `DISTINCT ON` may return the
   clear, and the next reading of the standing condition fires again within the
   cooldown. `StandingAlertsStayQuiet` shows that this tie is the only way.

Further disagreements between the code and its words, without a run of their own:

* *A late reading does rewrite a forecast.* `analytics/db.py:42-44` says that "a
  late out-of-order reading still does not rewrite a forecast, because it moves
  neither the watermark nor the status", and `docs/analytics.md:182-184` that it
  "does not retrigger a fit; the marginally better forecast it would enable is
  dropped". The code fits the whole window in every pass that is not skipped,
  and the conflict clause of `_INSERT_FORECAST` lets the row be rewritten when
  the status changes. A late reading may change it without moving the device's
  watermark. In the run `alerts`, the late row of pod "a" does: its rebound
  becomes a decline at the same `as_of`. `CompletePassIsCurrent`
  holds because the code rewrites the row; under the words quoted it would not.
* *`/healthz` is behind what it reports.* `docs/ingestion.md:121-122` says that
  it "returns 200 only while subscribed *and* writing", and the docstring of
  `ingestion/ops.py` has it that database and broker health "cannot diverge for
  longer than a reconnect cycle". Neither flag is dropped when a connection dies, only when the
  service leaves the client: a dead link shows once the queue's iterator raises,
  a dead database at the next write, which an idle service may not make for
  long. `HealthFollowsConnection` states what holds instead.
* *The first heartbeat is unconditional.* The docstring of `beat`
  (`simulator/publisher.py`) says "Only called while demonstrably connected";
  the call before the first emission checks nothing. `AtMostOneStrayBeat` counts
  it with the others.
* `simulator/publisher.py:121` ("paho queues the message for redelivery") is true
  of a missing connection, not of a full queue, which the comment at line 36 says
  drops the message.

A dead letter whose answer was lost is recorded again by the replay, since
`dead_letter` has no unique key; `DeadLettersHaveFaults` shows that nothing but a
fault repeats one.

## 7. Plan

1. **A sharper refinement of ingestion.** `EffectivelyOnce` says what rows may
   appear; a second abstract specification would say what each message owes (to
   be written, reported, or lost at one of the named gaps), with `BacklogSurvives`
   as its step.
2. **The publisher's stream into the broker.** `PublisherAccounts` ends at the
   broker; that the order of `FleetPublishesInOrder` survives paho's resends up
   to repetition is neither checked nor proved.
3. **Health server.** A database that is down between two statements, so that
   the time `/healthz` stays at 200 over an idle service becomes a property
   (it is not bounded by the code), and the awaits in which a client is left.

Liveness and `ENABLED` stay with TLC.
