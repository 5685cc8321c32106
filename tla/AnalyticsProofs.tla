---------------------------- MODULE AnalyticsProofs ---------------------------
(***************************************************************************)
(* What the analytics service promises, for every fleet, history, set of   *)
(* rows, cooldown and number of faults and starts.                         *)
(***************************************************************************)
EXTENDS AnalyticsProperties, FiniteSetTheorems, WellFoundedInduction, TLAPS

-----------------------------------------------------------------------------
(* Least and greatest elements. *)

LEMMA LeastNatural ==
  ASSUME NEW S \in SUBSET Nat, S # {}
  PROVE  \E x \in S : \A y \in S : x <= y
<1>1. PICK x \in S : \A y \in S : ~(<<y, x>> \in OpToRel(<, Nat))
  BY WFMin, NatLessThanWellFounded
<1>2. ASSUME NEW y \in S PROVE x <= y
  <2>1. <<y, x>> \in OpToRel(<, Nat) <=> y < x
    BY DEF OpToRel
  <2>2. ~(y < x)
    BY <2>1, <1>1, Zenon
  <2> QED
    BY <2>2
<1> QED
  BY <1>2

(* A set of times has a latest. *)
LEMMA LargestTime ==
  ASSUME NEW S \in SUBSET Time, S # {}
  PROVE  Largest(S) \in S /\ \A y \in S : Largest(S) >= y
<1>1. LastTime \in Nat
  BY LastTimeAssumption
<1> DEFINE T == {LastTime - x : x \in S}
<1>2. T \in SUBSET Nat /\ T # {}
  <2>1. \A x \in S : x \in Int /\ LastTime - x \in Nat
    BY <1>1 DEF Time
  <2> QED
    BY <2>1
<1>3. PICK m \in T : \A y \in T : m <= y
  BY <1>2, LeastNatural
<1>4. PICK x \in S : m = LastTime - x
  BY <1>3
<1>5. \A y \in S : x >= y
  <2>1. ASSUME NEW y \in S PROVE x >= y
    <3>1. LastTime - y \in T
      OBVIOUS
    <3>2. LastTime - x <= LastTime - y
      BY <3>1, <1>3, <1>4
    <3> QED
      BY <3>2, <1>1 DEF Time
  <2> QED
    BY <2>1
<1> QED
  BY <1>5 DEF Largest

(* The loop over the pairs has a first one to take. *)
LEMMA FirstPair ==
  ASSUME NEW S \in SUBSET Pairs, S # {}
  PROVE  First(S) \in S
<1>1. \A p \in Pairs : p = <<p[1], p[2]>> /\ p[1] \in Nat /\ p[2] \in Nat
  <2>1. DOMAIN Devices \subseteq Nat /\ DOMAIN Metrics \subseteq Nat
    BY AnalyticsAssumption
  <2> QED
    BY <2>1 DEF Pairs
<1> DEFINE D == {p[1] : p \in S}
<1>2. D \in SUBSET Nat /\ D # {}
  BY <1>1
<1>3. PICK d \in D : \A e \in D : d <= e
  BY <1>2, LeastNatural
<1> DEFINE M == {p[2] : p \in {q \in S : q[1] = d}}
<1>4. M \in SUBSET Nat /\ M # {}
  BY <1>1, <1>3
<1>5. PICK m \in M : \A n \in M : m <= n
  BY <1>4, LeastNatural
<1>6. PICK p \in S : p[1] = d /\ p[2] = m
  BY <1>5
<1>7. ASSUME NEW q \in S
      PROVE  p[1] < q[1] \/ (p[1] = q[1] /\ p[2] <= q[2])
  <2>1. d <= q[1] /\ d \in Nat /\ q[1] \in Nat
    BY <1>1, <1>2, <1>3
  <2>2. q[1] = d => m <= q[2]
    BY <1>5
  <2> QED
    BY <2>1, <2>2, <1>6
<1> QED
  BY <1>7 DEF First

(* Positions of pairs and their (device, kind) correspond. *)
Place(p) == <<PairAt(p).device_id, PairAt(p).metric.kind>>

LEMMA PlaceFacts ==
  ASSUME NEW p \in Pairs
  PROVE  /\ PairAt(p).device_id \in DeviceSet /\ PairAt(p).metric.kind \in Kinds
         /\ PairAt(p).metric.lookback_seconds \in Nat
         /\ Place(p) \in DeviceSet \X Kinds
         /\ \E i \in DOMAIN Metrics : PairAt(p).metric = Metrics[i]
         /\ \A q \in Pairs : Place(p) = Place(q) => p = q
<1>1. p[1] \in DOMAIN Devices /\ p[2] \in DOMAIN Metrics /\ p = <<p[1], p[2]>>
  BY DEF Pairs
<1>2. PairAt(p).device_id = Devices[p[1]] /\ PairAt(p).metric = Metrics[p[2]]
  BY DEF PairAt
<1>3. Metrics[p[2]].lookback_seconds \in Nat
  BY <1>1, AnalyticsAssumption
<1>4. ASSUME NEW q \in Pairs, Place(p) = Place(q) PROVE p = q
  <2>1. q[1] \in DOMAIN Devices /\ q[2] \in DOMAIN Metrics /\ q = <<q[1], q[2]>>
    BY DEF Pairs
  <2>2. Devices[p[1]] = Devices[q[1]] /\ Metrics[p[2]].kind = Metrics[q[2]].kind
    BY <1>4 DEF Place, PairAt
  <2>3. p[1] = q[1] /\ p[2] = q[2]
    BY <1>1, <2>1, <2>2, AnalyticsAssumption
  <2> QED
    BY <1>1, <2>1, <2>3
<1> QED
  BY <1>1, <1>2, <1>3, <1>4 DEF DeviceSet, Kinds, Place

-----------------------------------------------------------------------------
(* What the model is given and what it answers. *)

(* The rows of a pair within its metric's window. *)
Mine(rows, now, pair) ==
  {r \in rows : r.device_id = pair.device_id /\ r.at > now - pair.metric.lookback_seconds}

(* The primary key of telemetry is (device_id, measured_at). *)
Keyed(rows) == \A r, q \in rows : r.device_id = q.device_id /\ r.at = q.at => r = q

(* The last sample is the newest of the rows. *)
LEMMA SamplesFacts ==
  ASSUME NEW rows \in SUBSET Row, IsFiniteSet(rows), Keyed(rows), NEW now, NEW pair
  PROVE  LET s    == Samples(rows, now, pair)
             mine == Mine(rows, now, pair)
         IN  /\ s = <<>> <=> mine = {}
             /\ mine # {} =>
                  /\ s[Len(s)].aware
                  /\ \E r \in mine : s[Len(s)].at = r.at /\ \A q \in mine : q.at <= r.at
<1> DEFINE mine == Mine(rows, now, pair)
           below(r) == {q \in mine : q.at < r.at}
           n == Cardinality(mine)
           Nth(i) == CHOOSE r \in mine : Cardinality(below(r)) = i - 1
           value(i) == IF pair.metric.kind = "water" THEN Nth(i).water ELSE Nth(i).battery
           s == [i \in 1 .. n |-> [at |-> Nth(i).at, finite |-> TRUE, aware |-> TRUE,
                                   value |-> value(i)]]
<1>1. Samples(rows, now, pair) = s
  BY DEF Samples, Mine
<1>2. mine \in SUBSET rows
  BY DEF Mine
<1>3. IsFiniteSet(mine) /\ n \in Nat
  BY <1>2, FS_Subset, FS_CardinalityType
<1>4. DOMAIN s = 1 .. n /\ Len(s) = n
  <2> DEFINE X == {s[i] : i \in 1 .. n}
  <2>1. \A i \in 1 .. n : s[i] \in X
    OBVIOUS
  <2>2. DOMAIN s = 1 .. n /\ s = [i \in 1 .. n |-> s[i]]
    OBVIOUS
  <2> HIDE DEF X, s, n
  <2>3. s \in [1 .. n -> X]
    BY <2>1, <2>2
  <2>4. s \in Seq(X) /\ Len(s) = n
    BY <2>3, <1>3
  <2> QED
    BY <2>2, <2>4
<1>5. s = <<>> <=> n = 0
  <2> HIDE DEF s, n
  <2> QED
    BY <1>3, <1>4
<1>6. n = 0 <=> mine = {}
  BY <1>3, FS_EmptySet
<1>7. ASSUME mine # {}
      PROVE  /\ s[Len(s)].aware
             /\ \E r \in mine : s[Len(s)].at = r.at /\ \A q \in mine : q.at <= r.at
  <2>1. n \in 1 .. n
    BY <1>3, <1>6, <1>7
  <2>2. s[Len(s)].aware /\ s[Len(s)].at = Nth(n).at
    <3>1. s[n].aware /\ s[n].at = Nth(n).at
      <4> HIDE DEF Nth, value, n
      <4> QED
        BY <2>1
    <3> HIDE DEF s, n, Nth
    <3> QED
      BY <3>1, <1>4
  <2>3. \A r \in mine : r.at \in Time
    BY <1>2, AnalyticsAssumption
  <2> DEFINE times == {r.at : r \in mine}
  <2>4. times \in SUBSET Time /\ times # {}
    BY <2>3, <1>7
  <2>5. Largest(times) \in times /\ \A y \in times : Largest(times) >= y
    BY <2>4, LargestTime
  <2>6. PICK r \in mine : r.at = Largest(times)
    BY <2>5
  <2>7. \A q \in mine : q.at <= r.at
    <3>1. ASSUME NEW q \in mine PROVE q.at <= r.at
      <4>1. q.at \in times /\ r.at >= q.at /\ q.at \in Int /\ r.at \in Int
        BY <2>3, <2>5, <2>6 DEF Time
      <4> QED
        BY <4>1
    <3> QED
      BY <3>1
  <2>8. below(r) = mine \ {r}
    <3>1. ASSUME NEW q \in mine PROVE q.at < r.at <=> q # r
      <4>1. q.at = r.at => q = r
        <5>1. q.device_id = r.device_id
          BY DEF Mine
        <5> QED
          BY <5>1, <1>2 DEF Keyed
      <4> QED
        BY <4>1, <2>3, <2>7 DEF Time
    <3> QED
      BY <3>1
  <2>9. Cardinality(below(r)) = n - 1
    <3>1. Cardinality(mine \ {r}) = n - 1
      BY <1>3, <2>6, FS_RemoveElement
    <3> HIDE DEF below, n, mine
    <3> QED
      BY <2>8, <3>1
  <2>10. Nth(n) \in mine /\ Cardinality(below(Nth(n))) = n - 1
    <3> HIDE DEF below, n
    <3> QED
      BY <2>9
  <2>11. Nth(n) = r
    <3> DEFINE x == Nth(n)
    <3> HIDE DEF Nth
    <3>1. below(x) \in SUBSET (mine \ {x})
      BY <2>3, <2>10 DEF Time
    <3>2. IsFiniteSet(mine \ {x}) /\ Cardinality(mine \ {x}) = n - 1
      BY <2>10, <1>3, FS_RemoveElement
    <3>3. below(x) = mine \ {x}
      BY <3>1, <3>2, <2>10, FS_Subset
    <3>4. ~(r.at < x.at)
      BY <2>7, <2>10, <2>3 DEF Time
    <3>5. r \notin below(x)
      BY <3>4
    <3> QED
      BY <3>3, <3>5
  <2> QED
    BY <2>2, <2>7, <2>11
<1> HIDE DEF s, mine
<1> QED
  BY <1>1, <1>5, <1>6, <1>7 DEF mine

(* Every answer about samples that carry their offset is dated by the      *)
(* newest of them. *)
LEMMA ForecastDated ==
  ASSUME NEW s, s # <<>>, s[Len(s)].aware, NEW metric, NEW now, NEW start
  PROVE  LET f == forecast(s, metric, now, start)
         IN  f.status = "raised" \/ f.as_of = s[Len(s)].at
<1>1. ASSUME NEW status, NEW at, NEW t, NEW e, NEW l, NEW c
      PROVE  Dated(status, at, t, e, l, c).as_of = at /\ no_crossing(status, at).as_of = at
  BY DEF Dated, no_crossing
<1>2. Overflow.status = "raised"
  BY DEF Overflow, no_crossing, Dated
<1>3. ASSUME NEW x
      PROVE  LET f == Extrapolated(x, s, metric, start)
             IN  f.status = "raised" \/ f.as_of = s[Len(s)].at
  BY <1>1, <1>2 DEF Extrapolated
<1> DEFINE newest  == s[Len(s)]
           segment == NewestSegment(s, metric)
           first   == Largest({1, Len(segment) - metric.max_fit_points + 1})
           fitted  == SubSeq(segment, first, Len(segment))
           f       == forecast(s, metric, now, start)
<1>4. \/ f = no_crossing("invalid_series", IF newest.aware THEN newest.at ELSE None)
      \/ f = no_crossing("stale", newest.at)
      \/ f = Dated("at_or_below_target", newest.at, newest.at, newest.at, newest.at, FALSE)
      \/ f = no_crossing("insufficient_points", newest.at)
      \/ f = no_crossing("insufficient_span", newest.at)
      \/ f = Extrapolated(fitted, s, metric, start)
  BY Zenon DEF forecast
<1> HIDE DEF f, fitted
<1>5. newest.aware /\ newest.at = s[Len(s)].at
  OBVIOUS
<1> HIDE DEF newest
<1>6. CASE f = Extrapolated(fitted, s, metric, start)
  BY <1>3, <1>6, <1>5 DEF f
<1>7. CASE f # Extrapolated(fitted, s, metric, start)
  <2>1. f.as_of = newest.at
    <3>1. (IF newest.aware THEN newest.at ELSE None) = newest.at
      BY <1>5
    <3>2. /\ no_crossing("invalid_series", newest.at).as_of = newest.at
          /\ no_crossing("stale", newest.at).as_of = newest.at
          /\ no_crossing("insufficient_points", newest.at).as_of = newest.at
          /\ no_crossing("insufficient_span", newest.at).as_of = newest.at
          /\ Dated("at_or_below_target", newest.at, newest.at, newest.at, newest.at, FALSE).as_of
               = newest.at
      BY DEF no_crossing, Dated
    <3> QED
      BY <1>4, <1>7, <3>1, <3>2
  <2> QED
    BY <2>1, <1>5 DEF f
<1> QED
  BY <1>6, <1>7

LEMMA ModelledDated ==
  ASSUME NEW rows \in SUBSET Row, IsFiniteSet(rows), Keyed(rows), NEW now, NEW pair,
         Samples(rows, now, pair) # <<>>, Modelled(rows, now, pair).status # "raised"
  PROVE  \E r \in Mine(rows, now, pair) :
           /\ Modelled(rows, now, pair).as_of = r.at
           /\ \A q \in Mine(rows, now, pair) : q.at <= r.at
<1> DEFINE s == Samples(rows, now, pair)
<1>1. s[Len(s)].aware
      /\ \E r \in Mine(rows, now, pair) :
           s[Len(s)].at = r.at /\ \A q \in Mine(rows, now, pair) : q.at <= r.at
  BY SamplesFacts
<1>2. Modelled(rows, now, pair).as_of = s[Len(s)].at
  <2> HIDE DEF s
  <2>1. Modelled(rows, now, pair) =
          forecast(s, pair.metric, now, now - pair.metric.lookback_seconds)
    BY DEF Modelled, s
  <2>2. s # <<>>
    BY DEF s
  <2> QED
    BY <2>1, <2>2, <1>1, ForecastDated
<1> QED
  BY <1>1, <1>2
-----------------------------------------------------------------------------
(* The inductive invariant.                                                *)

Loop == {"insert_forecast", "insert_alert_event", "post_ntfy", "mark_notified"}

RowInv ==
  /\ telemetry \subseteq Row /\ IsFiniteSet(telemetry) /\ Keyed(telemetry)
  /\ window \subseteq telemetry

TypeInv == TypeOK /\ RowInv /\ pushes \in Seq(Nat)

SamplesOf(p)  == Samples(window, now_data, PairAt(p))
ModelledOf(p) == Modelled(window, now_data, PairAt(p))
MineOf(p)     == Mine(window, now_data, PairAt(p))
KeyOf(p)      == <<PairAt(p).device_id, PairAt(p).metric.kind, ModelledOf(p).as_of>>

(* What a pass knows at each of its awaits. *)
PassInv ==
  /\ pc \in Ended \cup {"connect", "data_now", "wait"} => now_data = None
  /\ pc \in Loop => /\ todo # {}
                   /\ \A p \in todo : SamplesOf(p) # <<>>
                   /\ fc = ModelledOf(First(todo)) /\ fc.status # "raised"
  /\ pc \in Loop \ {"insert_forecast"} => Transition # "nothing"
  /\ pc \in {"post_ntfy", "mark_notified"} =>
       event_id = Len(alert_events) /\ alert_events[event_id].state = "firing"
  /\ pc = "post_ntfy" => \A j \in DOMAIN pushes : pushes[j] # event_id

(* Every record is dated by a row of its device, and the decisions of a    *)
(* pair are recorded in the order of their instants. *)
TableInv ==
  /\ \A k \in DOMAIN forecasts :
       \E r \in telemetry : r.device_id = k[1] /\ r.at = k[3]
  /\ \A i \in DOMAIN alert_events :
       \E r \in telemetry : r.device_id = alert_events[i].device_id /\ r.at = alert_events[i].as_of
  /\ \A i, j \in DOMAIN alert_events :
       i < j /\ SamePair(alert_events[i], alert_events[j]) =>
         alert_events[i].as_of <= alert_events[j].as_of

(* No record of a pair is newer than the newest sample the pass has of it. *)
NewestInv ==
  pc \in Loop \cup {"latest_alert_states"} =>
    \A p \in Pairs : MineOf(p) # {} =>
      /\ \A k \in DOMAIN forecasts : <<k[1], k[2]>> = Place(p) =>
           \E r \in MineOf(p) : k[3] <= r.at
      /\ \A i \in DOMAIN alert_events :
           <<alert_events[i].device_id, alert_events[i].kind>> = Place(p) =>
             \E r \in MineOf(p) : alert_events[i].as_of <= r.at

(* The pairs whose decision is still open: what was read of them is still  *)
(* what the table says. *)
Open == IF pc \in {"insert_forecast", "insert_alert_event"} THEN todo ELSE todo \ {First(todo)}

StatesInv ==
  pc \in Loop => \A p \in Open :
    alert_states[Place(p)] \in LatestDecisions(PairAt(p).device_id, PairAt(p).metric.kind)

(* The pairs whose forecast is written: the table has what the model says. *)
Done == IF pc = "insert_forecast" THEN Pairs \ todo ELSE (Pairs \ todo) \cup {First(todo)}

IsCurrent(p) ==
  /\ ModelledOf(p).status # "raised"
  /\ KeyOf(p) \in DOMAIN forecasts
  /\ forecasts[KeyOf(p)].status = ModelledOf(p).status

DoneInv == pc \in Loop => \A p \in Done : SamplesOf(p) # <<>> => IsCurrent(p)

(* A firing is counted before its push can fail. *)
CountInv ==
  /\ AlertsNotOvercounted
  /\ pc \in {"post_ntfy", "mark_notified"} =>
       counters["notify_failures"] < counters["alerts_fired"]

AnalyticsInv ==
  /\ TypeInv /\ PassInv /\ TableInv /\ NewestInv /\ StatesInv /\ StandingAlertQuiet
  /\ DoneInv /\ CountInv
-----------------------------------------------------------------------------
(* The steps, by what they do to the pass and to the tables.               *)

TableStep ==
  \/ UNCHANGED tables
  \/ pc = "insert_forecast"    /\ insert_forecast
  \/ pc = "insert_alert_event" /\ insert_alert_event
  \/ pc = "mark_notified"      /\ mark_notified

Continues(rest) ==
  /\ rest # {} /\ pc' = "insert_forecast" /\ todo' = rest
  /\ fc' = ModelledOf(First(rest)) /\ fc'.status # "raised"
  /\ event_id' = None /\ error' = FALSE
  /\ UNCHANGED <<runVars, now_data, window>>

(* Nothing of the service moves; rows may arrive. *)
Idles == UNCHANGED <<tables, pushes, pc, runVars, passVars>>

(* The pass ends, with the statement in flight or without. *)
Leaves ==
  /\ TableStep /\ ForgetPass /\ pc' \in Ended \cup {"wait"}
  /\ last_data_now' \in {now_data, last_data_now, data_now(telemetry)} /\ last_pass_ok' \in BOOLEAN
  /\ UNCHANGED <<telemetry, pushes>>

(* A step before the window is read. *)
Prepares ==
  /\ UNCHANGED <<tables, telemetry, pushes, window, alert_states, todo, fc, event_id, error>>
  /\ last_data_now' \in {None, last_data_now} /\ last_pass_ok' \in BOOLEAN
  /\ \/ pc' \in {"connect", "data_now", "exited"} /\ pc \in Ended \cup {"connect", "wait"}
        /\ UNCHANGED now_data
     \/ pc = "data_now" /\ pc' = "load_window" /\ now_data' = data_now(telemetry) /\ now_data' # None

Enters ==
  /\ pc = "latest_alert_states"
  /\ Continues({p \in Pairs : SamplesOf(p) # <<>>})
  /\ alert_states' \in
       [DeviceSet \X Kinds -> UNION {LatestDecisions(p[1], p[2]) : p \in DeviceSet \X Kinds}]
  /\ \A p \in DeviceSet \X Kinds : alert_states'[p] \in LatestDecisions(p[1], p[2])
  /\ UNCHANGED <<tables, telemetry, pushes>>

Decides ==
  /\ pc = "insert_forecast" /\ insert_forecast
  /\ Transition # "nothing" /\ pc' = "insert_alert_event"
  /\ UNCHANGED <<telemetry, pushes, runVars, passVars>>

Moves ==
  /\ Continues(todo \ {First(todo)})
  /\ \/ pc = "insert_forecast"    /\ insert_forecast /\ Transition = "nothing"
     \/ pc = "insert_alert_event" /\ insert_alert_event
     \/ pc = "mark_notified"      /\ mark_notified
  /\ UNCHANGED <<telemetry, pushes, alert_states>>

Fires ==
  /\ pc = "insert_alert_event" /\ NewDecision /\ insert_alert_event
  /\ Transition = "firing" /\ pc' = "post_ntfy" /\ event_id' = Len(alert_events')
  /\ UNCHANGED <<telemetry, pushes, runVars, now_data, window, alert_states, todo, fc, error>>

LEMMA ContinueFacts ==
  ASSUME NEW rest, Continue(rest)
  PROVE  \/ /\ ForgetPass /\ pc' \in Ended \cup {"wait"} /\ pc' # "insert_forecast"
            /\ last_data_now' \in {now_data, last_data_now} /\ last_pass_ok' \in {TRUE, last_pass_ok}
         \/ Continues(rest)
<1>1. CASE rest = {} /\ PassReturns(now_data)
  BY <1>1 DEF PassReturns
<1>2. CASE rest # {}
  <2> DEFINE modelled == Modelled(window, now_data, PairAt(First(rest)))
  <2>1. CASE modelled.status # "raised"
    BY <1>2, <2>1 DEF Continue, Continues, ModelledOf, PassReturns, Ends
  <2>2. CASE modelled.status = "raised"
    <3>1. Ends("crashed")
      BY <1>2, <2>2 DEF Continue
    <3> QED
      BY <3>1 DEF Ends, Ended, runVars
  <2> QED
    BY <2>1, <2>2
<1> QED
  BY <1>1, <1>2 DEF Continue

LEMMA NextPairFacts ==
  ASSUME NextPair
  PROVE  \/ /\ ForgetPass /\ pc' \in Ended \cup {"wait"}
            /\ last_data_now' \in {now_data, last_data_now} /\ last_pass_ok' \in {TRUE, last_pass_ok}
         \/ Continues(todo \ {First(todo)}) /\ UNCHANGED alert_states
<1>1. Continue(todo \ {First(todo)}) /\ (pc' = "insert_forecast" => UNCHANGED alert_states)
  BY DEF NextPair
<1>2. Continues(todo \ {First(todo)}) => pc' = "insert_forecast"
  BY DEF Continues
<1> QED
  BY <1>1, <1>2, ContinueFacts

LEMMA Steps ==
  ASSUME TypeInv, [Next]_avars
  PROVE  \/ Idles \/ Leaves \/ Prepares \/ LoadWindow \/ Enters
         \/ Decides \/ Moves \/ Fires \/ PostNtfy
<1>0. last_pass_ok \in BOOLEAN
  BY DEF TypeInv, TypeOK
<1>1. CASE Connect \/ WaitEnds \/ Start
  <2>1. Prepares
    BY <1>0, <1>1 DEF Connect, WaitEnds, Start, Prepares, tables, envVars, runVars, passVars
  <2> QED
    BY <2>1
<1>2. CASE DataNow
  <2>1. CASE PassReturns(data_now(telemetry)) /\ UNCHANGED <<tables, envVars, pushes>>
    BY <2>1 DEF PassReturns, Leaves, TableStep, envVars
  <2>2. CASE ~PassReturns(data_now(telemetry))
    <3>1. Prepares
      BY <1>0, <1>2, <2>2 DEF DataNow, Prepares, tables, envVars, runVars
    <3> QED
      BY <3>1
  <2> QED
    BY <1>2, <2>1, <2>2 DEF DataNow
<1>3. CASE LatestAlertStates
  <2>1. CASE Continues({p \in Pairs : Samples(window, now_data, PairAt(p)) # <<>>})
    <3>1. Enters
      BY <1>3, <2>1 DEF LatestAlertStates, Enters, Continues, SamplesOf, envVars
    <3> QED
      BY <3>1
  <2>2. CASE /\ ForgetPass /\ pc' \in Ended \cup {"wait"}
             /\ last_data_now' \in {now_data, last_data_now} /\ last_pass_ok' \in {TRUE, last_pass_ok}
    <3>1. Leaves
      BY <1>0, <1>3, <2>2 DEF LatestAlertStates, Leaves, TableStep, envVars
    <3> QED
      BY <3>1
  <2> QED
    BY <1>3, <2>1, <2>2, ContinueFacts DEF LatestAlertStates
<1>4. ASSUME NextPair, UNCHANGED <<telemetry, pushes>>,
             \/ pc = "insert_forecast"    /\ insert_forecast /\ Transition = "nothing"
             \/ pc = "insert_alert_event" /\ insert_alert_event
             \/ pc = "mark_notified"      /\ mark_notified
      PROVE  Leaves \/ Moves
  <2>1. CASE /\ ForgetPass /\ pc' \in Ended \cup {"wait"}
             /\ last_data_now' \in {now_data, last_data_now} /\ last_pass_ok' \in {TRUE, last_pass_ok}
    <3>1. Leaves
      BY <1>0, <1>4, <2>1 DEF Leaves, TableStep
    <3> QED
      BY <3>1
  <2>2. CASE Continues(todo \ {First(todo)}) /\ UNCHANGED alert_states
    <3>1. Moves
      BY <1>4, <2>2 DEF Moves
    <3> QED
      BY <3>1
  <2> QED
    BY <1>4, <2>1, <2>2, NextPairFacts
<1>5. CASE InsertForecast
  <2>1. CASE Transition = "nothing" /\ NextPair
    BY <1>4, <1>5, <2>1 DEF InsertForecast, envVars
  <2>2. CASE Transition # "nothing" /\ pc' = "insert_alert_event" /\ UNCHANGED <<runVars, passVars>>
    <3>1. Decides
      BY <1>5, <2>2 DEF InsertForecast, Decides, envVars
    <3> QED
      BY <3>1
  <2> QED
    BY <1>5, <2>1, <2>2 DEF InsertForecast
<1>6. CASE DecisionKnown
  BY <1>4, <1>6 DEF DecisionKnown, envVars
<1>7. CASE DecisionRecorded
  <2>1. CASE NextPair
    BY <1>4, <1>7, <2>1 DEF DecisionRecorded, envVars
  <2>2. CASE ~NextPair
    <3>1. Fires
      BY <1>7, <2>2 DEF DecisionRecorded, Fires, envVars
    <3> QED
      BY <3>1
  <2> QED
    BY <2>1, <2>2
<1>8. CASE MarkNotified
  BY <1>4, <1>8 DEF MarkNotified, envVars
<1>9. CASE PassFails \/ Kill
  <2>1. Leaves
    BY <1>0, <1>9 DEF PassFails, Kill, Ends, Leaves, TableStep, Execute, envVars, runVars, Ended
  <2> QED
    BY <2>1
<1>10. CASE Ingest \/ SigTerm \/ UNCHANGED avars
  <2>1. Idles
    BY <1>10 DEF Ingest, SigTerm, avars, Idles, tables, passVars, runVars, envVars
  <2> QED
    BY <2>1
<1> QED
  BY <1>1, <1>2, <1>3, <1>5, <1>6, <1>7, <1>8, <1>9, <1>10 DEF Next, Service
-----------------------------------------------------------------------------
(* Types.                                                                  *)

LEMMA WindowFacts ==
  ASSUME TypeInv
  PROVE  /\ window \in SUBSET Row /\ IsFiniteSet(window) /\ Keyed(window)
         /\ \A r \in Row : r.at \in Time /\ r.device_id \in DeviceSet
<1>1. window \subseteq telemetry /\ telemetry \subseteq Row /\ IsFiniteSet(telemetry) /\ Keyed(telemetry)
  BY DEF TypeInv, RowInv
<1>2. IsFiniteSet(window)
  BY <1>1, FS_Subset
<1>3. \A r \in Row : r.at \in Time /\ r.device_id \in DeviceSet
  BY AnalyticsAssumption DEF DeviceSet
<1> QED
  BY <1>1, <1>2, <1>3 DEF Keyed

LEMMA EventFacts ==
  ASSUME TypeInv
  PROVE  /\ Len(alert_events) \in Nat /\ DOMAIN alert_events = 1 .. Len(alert_events)
         /\ \A i \in DOMAIN alert_events :
              /\ alert_events[i] \in Event /\ alert_events[i].as_of \in Time
              /\ alert_events[i].state \in {"firing", "cleared"}
<1>1. alert_events \in Seq(Event)
  BY DEF TypeInv, TypeOK
<1>2. \A i \in DOMAIN alert_events : alert_events[i] \in Event
  BY <1>1
<1> QED
  BY <1>1, <1>2 DEF Event

(* The pass's own samples of a pair, and the instant its forecast bears.   *)
LEMMA PairFacts ==
  ASSUME TypeInv, NEW p \in Pairs
  PROVE  /\ SamplesOf(p) # <<>> <=> MineOf(p) # {}
         /\ SamplesOf(p) # <<>> /\ ModelledOf(p).status # "raised" =>
              \E r \in MineOf(p) :
                /\ ModelledOf(p).as_of = r.at
                /\ \A q \in MineOf(p) : q.at <= r.at
                /\ r \in window /\ r \in telemetry /\ r \in Row
                /\ r.device_id = PairAt(p).device_id /\ r.at \in Time
<1>1. SamplesOf(p) = <<>> <=> MineOf(p) = {}
  BY WindowFacts, SamplesFacts DEF SamplesOf, MineOf
<1>2. ASSUME SamplesOf(p) # <<>>, ModelledOf(p).status # "raised"
      PROVE  \E r \in MineOf(p) :
                /\ ModelledOf(p).as_of = r.at
                /\ \A q \in MineOf(p) : q.at <= r.at
                /\ r \in window /\ r \in telemetry /\ r \in Row
                /\ r.device_id = PairAt(p).device_id /\ r.at \in Time
  <2>1. PICK r \in MineOf(p) : ModelledOf(p).as_of = r.at /\ \A q \in MineOf(p) : q.at <= r.at
    BY <1>2, WindowFacts, ModelledDated DEF SamplesOf, ModelledOf, MineOf
  <2>2. r \in window /\ r.device_id = PairAt(p).device_id
    BY DEF MineOf, Mine
  <2>3. r \in telemetry /\ r \in Row /\ r.at \in Time
    BY <2>2, WindowFacts DEF TypeInv, RowInv
  <2> QED
    BY <2>1, <2>2, <2>3
<1> QED
  BY <1>1, <1>2

(* The pair in hand. *)
LEMMA HeadFacts ==
  ASSUME TypeInv, PassInv, pc \in Loop
  PROVE  LET p == First(todo)
         IN  /\ p \in todo /\ p \in Pairs /\ Pair = PairAt(p) /\ SamplesOf(p) # <<>>
             /\ fc = ModelledOf(p) /\ fc.status # "raised"
             /\ Key = KeyOf(p) /\ Key \in DeviceSet \X Kinds \X Time
             /\ <<Key[1], Key[2]>> = Place(p) /\ Key[3] = fc.as_of
             /\ \E r \in MineOf(p) :
                  /\ fc.as_of = r.at
                  /\ \A q \in MineOf(p) : q.at <= r.at
                  /\ r \in telemetry /\ r \in Row /\ r.device_id = Pair.device_id /\ r.at \in Time
<1> DEFINE p == First(todo)
<1>1. todo \in SUBSET Pairs /\ todo # {} /\ SamplesOf(p) # <<>> /\ fc = ModelledOf(p) /\ fc.status # "raised"
  <2>1. todo \subseteq Pairs /\ todo # {}
    BY DEF TypeInv, TypeOK, PassInv
  <2>2. First(todo) \in todo
    BY <2>1, FirstPair
  <2> QED
    BY <2>1, <2>2 DEF PassInv
<1>2. p \in todo /\ p \in Pairs
  BY <1>1, FirstPair
<1>3. Pair = PairAt(p)
  BY DEF Pair
<1>4. PICK r \in MineOf(p) :
        /\ fc.as_of = r.at
        /\ \A q \in MineOf(p) : q.at <= r.at
        /\ r \in telemetry /\ r \in Row /\ r.device_id = Pair.device_id /\ r.at \in Time
  BY <1>1, <1>2, <1>3, PairFacts
<1>5. Key = KeyOf(p)
  BY <1>1, <1>3 DEF Key, KeyOf
<1>6. Key = <<PairAt(p).device_id, PairAt(p).metric.kind, fc.as_of>>
  BY <1>3 DEF Key
<1>7. PairAt(p).device_id \in DeviceSet /\ PairAt(p).metric.kind \in Kinds
  BY <1>2, PlaceFacts
<1> HIDE DEF p
<1>8. <<Key[1], Key[2]>> = Place(p) /\ Key[3] = fc.as_of /\ Key \in DeviceSet \X Kinds \X Time
  BY <1>4, <1>6, <1>7 DEF Place
<1> QED
  BY <1>1, <1>2, <1>3, <1>4, <1>5, <1>8 DEF p

LEMMA TransitionValues ==
  Transition \in {"firing", "cleared", "nothing"}
BY DEF Transition, alert_transition

(* What a statement does to the two tables. *)
LEMMA TableTypes ==
  ASSUME TypeInv, PassInv, TableStep
  PROVE  /\ DOMAIN forecasts' \subseteq DeviceSet \X Kinds \X Time
         /\ alert_events' \in Seq(Event)
         /\ DOMAIN alert_events \subseteq DOMAIN alert_events'
<1>1. DOMAIN forecasts \subseteq DeviceSet \X Kinds \X Time /\ alert_events \in Seq(Event)
      /\ error \in BOOLEAN /\ event_id \in DOMAIN alert_events \cup {None}
  BY DEF TypeInv, TypeOK
<1>2. CASE UNCHANGED tables
  BY <1>1, <1>2 DEF tables
<1>3. CASE pc = "insert_forecast" /\ insert_forecast
  <2>1. pc \in Loop
    BY <1>3 DEF Loop
  <2>2. Key \in DeviceSet \X Kinds \X Time
    BY <2>1, HeadFacts
  <2>3. DOMAIN forecasts' \subseteq DOMAIN forecasts \cup {Key}
    BY <1>3 DEF insert_forecast
  <2> QED
    BY <1>1, <1>3, <2>2, <2>3 DEF insert_forecast
<1>4. CASE pc = "insert_alert_event" /\ insert_alert_event
  <2>1. pc \in Loop /\ pc \in Loop \ {"insert_forecast"}
    BY <1>4 DEF Loop
  <2>2. PICK p \in Pairs : Pair = PairAt(p)
    BY <2>1, HeadFacts
  <2>3. Pair.device_id \in DeviceSet /\ Pair.metric.kind \in Kinds
    BY <2>2, PlaceFacts
  <2>4. fc.as_of \in Time
    BY <2>1, HeadFacts
  <2>5. Transition \in {"firing", "cleared"}
    BY <2>1, TransitionValues DEF PassInv
  <2> DEFINE e == [device_id |-> Pair.device_id, kind |-> Pair.metric.kind,
                   state |-> Transition, as_of |-> fc.as_of, notified |-> FALSE]
  <2>6. e \in Event
    BY <2>3, <2>4, <2>5 DEF Event
  <2>7. alert_events' = alert_events \/ alert_events' = Append(alert_events, e)
    BY <1>4 DEF insert_alert_event
  <2> HIDE DEF e
  <2>8. alert_events' \in Seq(Event) /\ DOMAIN alert_events \subseteq DOMAIN alert_events'
    BY <1>1, <2>6, <2>7
  <2> QED
    BY <1>1, <1>4, <2>8 DEF insert_alert_event
<1>5. CASE pc = "mark_notified" /\ mark_notified
  <2>1. event_id = Len(alert_events)
    BY <1>5 DEF PassInv
  <2>2. event_id \in DOMAIN alert_events
    BY <1>1, <2>1 DEF None
  <2>3. alert_events' = [alert_events EXCEPT ![event_id].notified = ~error]
    BY <1>5 DEF mark_notified
  <2>4. alert_events[event_id] \in Event /\ (~error) \in BOOLEAN
    <3>1. alert_events[event_id] \in Event
      BY <1>1, <2>2
    <3>2. (~error) \in BOOLEAN
      BY Zenon
    <3> QED
      BY <3>1, <3>2, Zenon
  <2>5. [alert_events[event_id] EXCEPT !.notified = ~error] \in Event
    BY <2>4 DEF Event
  <2>6. alert_events' \in Seq(Event) /\ DOMAIN alert_events' = DOMAIN alert_events
    BY <1>1, <2>2, <2>3, <2>5
  <2> QED
    BY <1>1, <1>5, <2>6 DEF mark_notified
<1> QED
  BY <1>2, <1>3, <1>4, <1>5 DEF TableStep

LEMMA LatestFacts ==
  ASSUME TypeInv, NEW d, NEW k
  PROVE  \A v \in LatestDecisions(d, k) :
           \/ v = Undecided /\ \A i \in DOMAIN alert_events :
                                 alert_events[i].device_id # d \/ alert_events[i].kind # k
           \/ \E m \in DOMAIN alert_events :
                /\ alert_events[m].device_id = d /\ alert_events[m].kind = k
                /\ v = [state |-> alert_events[m].state, as_of |-> alert_events[m].as_of]
                /\ \A i \in DOMAIN alert_events :
                     alert_events[i].device_id = d /\ alert_events[i].kind = k =>
                       alert_events[m].as_of >= alert_events[i].as_of
<1> DEFINE mine == {i \in DOMAIN alert_events :
                      alert_events[i].device_id = d /\ alert_events[i].kind = k}
           last == {i \in mine : \A j \in mine : alert_events[i].as_of >= alert_events[j].as_of}
<1>1. LatestDecisions(d, k) =
        IF mine = {} THEN {Undecided}
        ELSE {[state |-> alert_events[i].state, as_of |-> alert_events[i].as_of] : i \in last}
  BY DEF LatestDecisions
<1> TAKE v \in LatestDecisions(d, k)
<1>2. CASE mine = {}
  BY <1>1, <1>2
<1>3. CASE mine # {}
  <2>1. PICK m \in last : v = [state |-> alert_events[m].state, as_of |-> alert_events[m].as_of]
    BY <1>1, <1>3
  <2> QED
    BY <2>1
<1> QED
  BY <1>2, <1>3

LEMMA LatestType ==
  ASSUME TypeInv, NEW d, NEW k
  PROVE  LatestDecisions(d, k) \subseteq Decision \cup {Undecided}
<1>1. alert_events \in Seq(Event)
  BY DEF TypeInv, TypeOK
<1>2. ASSUME NEW m \in DOMAIN alert_events
      PROVE  [state |-> alert_events[m].state, as_of |-> alert_events[m].as_of] \in Decision
  <2>1. alert_events[m] \in Event
    BY <1>1
  <2> QED
    BY <2>1 DEF Event, Decision
<1> QED
  BY <1>2, LatestFacts

LEMMA DataNowType ==
  ASSUME TypeInv
  PROVE  data_now(telemetry) \in Time \cup {None}
<1>1. CASE telemetry = {}
  BY <1>1 DEF data_now
<1>2. CASE telemetry # {}
  <2> DEFINE times == {r.at : r \in telemetry}
  <2>1. times \in SUBSET Time /\ times # {}
    BY <1>2, WindowFacts DEF TypeInv, RowInv
  <2>2. Largest(times) \in times
    BY <2>1, LargestTime
  <2> QED
    BY <1>2, <2>1, <2>2 DEF data_now
<1> QED
  BY <1>1, <1>2

(* The variables of the pass keep their types. *)
PassType ==
  /\ pc \in PC
  /\ last_data_now \in Time \cup {None}
  /\ now_data \in Time \cup {None}
  /\ alert_states \in [DeviceSet \X Kinds -> Decision \cup {Undecided}]
  /\ fc = NoForecast \/ fc.as_of \in Time
  /\ todo \subseteq Pairs
  /\ error \in BOOLEAN
  /\ last_pass_ok \in BOOLEAN

LEMMA PassTypes ==
  ASSUME TypeInv, PassInv, [Next]_avars
  PROVE  PassType' /\ event_id' \in DOMAIN alert_events' \cup {None} /\ window' \subseteq telemetry'
<1>0. /\ PassType /\ event_id \in DOMAIN alert_events \cup {None} /\ window \subseteq telemetry
      /\ telemetry \subseteq telemetry'
  BY DEF TypeInv, TypeOK, RowInv, PassType, Next, Service, Connect, DataNow, LoadWindow,
         LatestAlertStates, InsertForecast, DecisionKnown, DecisionRecorded, PostNtfy,
         MarkNotified, WaitEnds, PassFails, Ingest, SigTerm, Kill, Start, envVars, avars
<1>1. data_now(telemetry) \in Time \cup {None}
  BY DataNowType
<1>2. NoStates \in [DeviceSet \X Kinds -> Decision \cup {Undecided}]
  BY DEF NoStates
<1>3. ASSUME NEW rest \in SUBSET Pairs, Continues(rest), \A p \in rest : SamplesOf(p) # <<>>,
             alert_states' \in [DeviceSet \X Kinds -> Decision \cup {Undecided}], UNCHANGED telemetry
      PROVE  PassType' /\ event_id' \in DOMAIN alert_events' \cup {None} /\ window' \subseteq telemetry'
  <2>1. /\ rest # {} /\ pc' = "insert_forecast" /\ todo' = rest
        /\ fc' = ModelledOf(First(rest)) /\ fc'.status # "raised"
        /\ event_id' = None /\ error' = FALSE
        /\ UNCHANGED <<runVars, now_data, window>>
    BY <1>3 DEF Continues
  <2>2. First(rest) \in rest /\ First(rest) \in Pairs
    BY <2>1, FirstPair
  <2>3. fc'.as_of \in Time
    BY <1>3, <2>1, <2>2, PairFacts
  <2> QED
    BY <1>0, <1>3, <2>1, <2>3 DEF PassType, PC, Statement, runVars
<1>4. CASE Idles
  BY <1>0, <1>4 DEF Idles, PassType, runVars, passVars, tables
<1>5. CASE Leaves
  BY <1>0, <1>1, <1>2, <1>5 DEF Leaves, ForgetPass, PassType, PC
<1>6. CASE Prepares
  BY <1>0, <1>1, <1>6 DEF Prepares, PassType, PC, Query, Ended, tables
<1>7. CASE LoadWindow
  BY <1>0, <1>7 DEF LoadWindow, InWindow, PassType, PC, Query, tables, envVars, runVars
<1>8. CASE Enters
  <2>1. alert_states' \in [DeviceSet \X Kinds -> Decision \cup {Undecided}]
    <3>1. UNION {LatestDecisions(p[1], p[2]) : p \in DeviceSet \X Kinds} \subseteq Decision \cup {Undecided}
      BY LatestType
    <3> QED
      BY <1>8, <3>1 DEF Enters
  <2> QED
    BY <1>3, <1>8, <2>1 DEF Enters
<1>9. CASE Decides
  BY <1>0, <1>9 DEF Decides, insert_forecast, PassType, PC, Statement, runVars, passVars
<1>10. CASE Moves
  <2>1. pc \in Loop
    BY <1>10 DEF Moves, Loop
  <2>2. todo \ {First(todo)} \in SUBSET Pairs /\ \A p \in todo \ {First(todo)} : SamplesOf(p) # <<>>
    BY <1>0, <2>1 DEF PassInv, PassType
  <2> QED
    BY <1>0, <1>3, <1>10, <2>2 DEF Moves, PassType
<1>11. CASE Fires
  <2>1. TableStep
    BY <1>11 DEF Fires, TableStep
  <2>2. alert_events' \in Seq(Event) /\ alert_events \in Seq(Event)
    BY <2>1, TableTypes DEF TypeInv, TypeOK
  <2>3. alert_events' # <<>>
    BY <1>11, <2>2 DEF Fires, insert_alert_event
  <2>4. Len(alert_events') \in DOMAIN alert_events'
    BY <2>2, <2>3
  <2> QED
    BY <1>0, <1>11, <2>4 DEF Fires, PassType, PC, runVars
<1>12. CASE PostNtfy
  <2>1. error' \in BOOLEAN
    BY <1>12 DEF PostNtfy
  <2> QED
    BY <1>0, <1>12, <2>1 DEF PostNtfy, PassType, PC, Statement, tables, envVars, runVars
<1> QED
  BY <1>4, <1>5, <1>6, <1>7, <1>8, <1>9, <1>10, <1>11, <1>12, Steps

(* Only the statement in flight writes to the tables. *)
LEMMA TableSteps ==
  ASSUME TypeInv, [Next]_avars
  PROVE  TableStep
BY Steps DEF Idles, Leaves, Prepares, LoadWindow, Enters, Decides, Moves, Fires, PostNtfy,
             TableStep, tables

LEMMA RowTypes ==
  ASSUME TypeInv, [Next]_avars
  PROVE  /\ telemetry' \subseteq Row /\ IsFiniteSet(telemetry') /\ Keyed(telemetry')
         /\ telemetry \subseteq telemetry'
<1>0. telemetry \subseteq Row /\ IsFiniteSet(telemetry) /\ Keyed(telemetry)
  BY DEF TypeInv, RowInv
<1>1. CASE UNCHANGED telemetry
  BY <1>0, <1>1
<1>2. CASE Ingest
  <2>1. PICK r \in Row : /\ \A q \in telemetry : q.device_id = r.device_id => q.at # r.at
                         /\ telemetry' = telemetry \cup {r}
    BY <1>2 DEF Ingest
  <2>2. IsFiniteSet(telemetry')
    BY <1>0, <2>1, FS_AddElement
  <2>3. Keyed(telemetry')
    BY <1>0, <2>1 DEF Keyed
  <2> QED
    BY <1>0, <2>1, <2>2, <2>3
<1> QED
  BY <1>1, <1>2
     DEF Next, Service, Connect, DataNow, LoadWindow, LatestAlertStates, InsertForecast,
         DecisionKnown, DecisionRecorded, PostNtfy, MarkNotified, WaitEnds, PassFails, SigTerm,
         Kill, Start, envVars, avars

LEMMA PushTypes ==
  ASSUME TypeInv, PassInv, [Next]_avars
  PROVE  pushes' \in Seq(Nat) /\ \A i \in DOMAIN pushes' : pushes'[i] \in DOMAIN alert_events'
<1>0. /\ pushes \in Seq(Nat) /\ \A i \in DOMAIN pushes : pushes[i] \in DOMAIN alert_events
      /\ alert_events \in Seq(Event) /\ event_id \in DOMAIN alert_events \cup {None}
  BY DEF TypeInv, TypeOK
<1>1. DOMAIN alert_events \subseteq DOMAIN alert_events'
  BY TableSteps, TableTypes
<1>2. CASE UNCHANGED pushes
  BY <1>0, <1>1, <1>2
<1>3. CASE PostNtfy
  <2>1. event_id = Len(alert_events) /\ alert_events' = alert_events
    BY <1>3 DEF PostNtfy, PassInv, tables
  <2>2. event_id \in DOMAIN alert_events /\ event_id \in Nat
    BY <1>0, <2>1 DEF None
  <2>3. pushes' = pushes \/ pushes' = Append(pushes, event_id)
    BY <1>3 DEF PostNtfy
  <2>4. CASE pushes' = Append(pushes, event_id)
    <3>1. /\ pushes' \in Seq(Nat) /\ DOMAIN pushes' = 1 .. Len(pushes) + 1
          /\ \A i \in 1 .. Len(pushes) : pushes'[i] = pushes[i]
          /\ pushes'[Len(pushes) + 1] = event_id
      BY <1>0, <2>2, <2>4
    <3>2. DOMAIN pushes = 1 .. Len(pushes) /\ Len(pushes) \in Nat
      BY <1>0
    <3>3. ASSUME NEW i \in DOMAIN pushes' PROVE pushes'[i] \in DOMAIN alert_events'
      <4>1. i \in DOMAIN pushes \/ i = Len(pushes) + 1
        BY <3>1, <3>2
      <4>2. CASE i \in DOMAIN pushes
        BY <1>0, <2>1, <3>1, <3>2, <4>2
      <4>3. CASE i = Len(pushes) + 1
        BY <2>1, <2>2, <3>1, <4>3
      <4> QED
        BY <4>1, <4>2, <4>3
    <3> QED
      BY <3>1, <3>3
  <2> QED
    BY <1>0, <2>1, <2>3, <2>4
<1> QED
  BY <1>2, <1>3, Steps DEF Idles, Leaves, Prepares, LoadWindow, Enters, Decides, Moves, Fires

LEMMA BoundTypes ==
  ASSUME TypeInv, [Next]_avars
  PROVE  /\ stop' \in BOOLEAN /\ counters' \in [Counter -> Nat]
         /\ faults' \in 0 .. MaxFaults /\ starts' \in 1 .. MaxStarts
<1>0. /\ stop \in BOOLEAN /\ counters \in [Counter -> Nat]
      /\ faults \in 0 .. MaxFaults /\ starts \in 1 .. MaxStarts
  BY DEF TypeInv, TypeOK
<1>1. stop' \in BOOLEAN
  BY <1>0 DEF Next, Service, Connect, DataNow, LoadWindow, LatestAlertStates, InsertForecast,
         DecisionKnown, DecisionRecorded, PostNtfy, MarkNotified, WaitEnds, PassFails, SigTerm,
         Ingest, Kill, Start, envVars, avars
<1>2. counters' \in [Counter -> Nat]
  <2>1. ASSUME NEW condition, NEW c, CountIf(condition, c)
        PROVE  counters' \in [Counter -> Nat]
    <3>1. [counters EXCEPT ![c] = @ + 1] \in [Counter -> Nat]
      <4>1. CASE c \in Counter
        <5>1. counters[c] + 1 \in Nat
          BY <1>0, <4>1
        <5> QED
          BY <1>0, <5>1
      <4>2. CASE c \notin Counter
        BY <1>0, <4>2
      <4> QED
        BY <4>1, <4>2
    <3> QED
      BY <1>0, <2>1, <3>1 DEF CountIf
  <2>2. Zero \in [Counter -> Nat]
    BY DEF Zero
  <2> QED
    BY <1>0, <2>1, <2>2
     DEF Next, Service, Connect, DataNow, LoadWindow, LatestAlertStates, InsertForecast,
         DecisionKnown, DecisionRecorded, PostNtfy, MarkNotified, WaitEnds, PassFails, SigTerm,
         Ingest, Kill, Start, avars
<1>3. faults' \in 0 .. MaxFaults /\ starts' \in 1 .. MaxStarts
  <2>1. /\ faults' = faults \/ (faults < MaxFaults /\ faults' = faults + 1)
        /\ starts' = starts \/ (starts < MaxStarts /\ starts' = starts + 1)
    BY DEF Next, Service, Connect, DataNow, LoadWindow, LatestAlertStates, InsertForecast,
           DecisionKnown, DecisionRecorded, PostNtfy, MarkNotified, WaitEnds, PassFails, SigTerm,
           Ingest, Kill, Start, avars, boundVars, Fault
  <2>2. MaxFaults \in Nat /\ MaxStarts \in Nat
    BY AnalyticsAssumption
  <2> QED
    BY <1>0, <2>1, <2>2
<1> QED
  BY <1>1, <1>2, <1>3

LEMMA TypeStep ==
  ASSUME TypeInv, PassInv, [Next]_avars
  PROVE  TypeInv'
<1>1. /\ DOMAIN forecasts' \subseteq DeviceSet \X Kinds \X Time
      /\ alert_events' \in Seq(Event)
  BY TableSteps, TableTypes
<1> QED
  BY <1>1, PassTypes, RowTypes, PushTypes, BoundTypes DEF TypeInv, TypeOK, RowInv, PassType
-----------------------------------------------------------------------------
(* The pass.                                                               *)

(* What a pass reads of a pair changes with its window only. *)
LEMMA SameWindow ==
  ASSUME UNCHANGED <<window, now_data>>, NEW p
  PROVE  /\ SamplesOf(p)' = SamplesOf(p) /\ ModelledOf(p)' = ModelledOf(p)
         /\ MineOf(p)' = MineOf(p) /\ KeyOf(p)' = KeyOf(p)
BY DEF SamplesOf, ModelledOf, MineOf, KeyOf

(* A new decision is the last row of the table. *)
LEMMA Recorded ==
  ASSUME TypeInv, PassInv, pc = "insert_alert_event", insert_alert_event
  PROVE  LET e == [device_id |-> Pair.device_id, kind |-> Pair.metric.kind,
                   state |-> Transition, as_of |-> fc.as_of, notified |-> FALSE]
         IN  /\ e \in Event /\ alert_events \in Seq(Event)
             /\ \/ ~NewDecision /\ alert_events' = alert_events
                \/ /\ NewDecision /\ alert_events' = Append(alert_events, e)
                   /\ Len(alert_events') = Len(alert_events) + 1
                   /\ DOMAIN alert_events' = DOMAIN alert_events \cup {Len(alert_events) + 1}
                   /\ Len(alert_events) + 1 \notin DOMAIN alert_events
                   /\ alert_events'[Len(alert_events) + 1] = e
                   /\ \A i \in DOMAIN alert_events : alert_events'[i] = alert_events[i]
<1> DEFINE e == [device_id |-> Pair.device_id, kind |-> Pair.metric.kind,
                 state |-> Transition, as_of |-> fc.as_of, notified |-> FALSE]
<1>1. alert_events \in Seq(Event)
  BY DEF TypeInv, TypeOK
<1>2. pc \in Loop /\ pc \in Loop \ {"insert_forecast"}
  BY DEF Loop
<1>3. Pair.device_id \in DeviceSet /\ Pair.metric.kind \in Kinds /\ fc.as_of \in Time
  BY <1>2, HeadFacts, PlaceFacts
<1>4. Transition \in {"firing", "cleared"}
  BY <1>2, TransitionValues DEF PassInv
<1>5. e \in Event
  BY <1>3, <1>4 DEF Event
<1>6. \/ ~NewDecision /\ alert_events' = alert_events
      \/ NewDecision /\ alert_events' = Append(alert_events, e)
  BY DEF insert_alert_event
<1> HIDE DEF e
<1>7. CASE NewDecision /\ alert_events' = Append(alert_events, e)
  <2>1. /\ Len(alert_events') = Len(alert_events) + 1 /\ Len(alert_events) \in Nat
        /\ DOMAIN alert_events' = 1 .. Len(alert_events) + 1
        /\ DOMAIN alert_events = 1 .. Len(alert_events)
        /\ alert_events'[Len(alert_events) + 1] = e
        /\ \A i \in 1 .. Len(alert_events) : alert_events'[i] = alert_events[i]
    BY <1>1, <1>5, <1>7
  <2>2. 1 .. Len(alert_events) + 1 = (1 .. Len(alert_events)) \cup {Len(alert_events) + 1}
    BY <2>1
  <2> QED
    BY <1>1, <1>5, <1>7, <2>1, <2>2 DEF e
<1> QED
  BY <1>1, <1>5, <1>6, <1>7 DEF e

(* Going on to the pairs in rest, which all have samples. *)
LEMMA ContinuesPass ==
  ASSUME TypeInv, NEW rest \in SUBSET Pairs, Continues(rest), \A p \in rest : SamplesOf(p) # <<>>
  PROVE  PassInv'
<1>1. UNCHANGED <<window, now_data>> /\ todo' = rest /\ rest # {} /\ pc' = "insert_forecast"
      /\ fc' = ModelledOf(First(rest)) /\ fc'.status # "raised"
  BY DEF Continues
<1>2. \A p : SamplesOf(p)' = SamplesOf(p) /\ ModelledOf(p)' = ModelledOf(p)
  BY <1>1, SameWindow
<1>3. (First(todo))' = First(rest)
  BY <1>1
<1>4. fc' = (ModelledOf(First(todo)))'
  BY <1>1, <1>2, <1>3
<1>5. \A p \in todo' : SamplesOf(p)' # <<>>
  BY <1>1, <1>2
<1> QED
  BY <1>1, <1>4, <1>5 DEF PassInv, Ended

LEMMA PassStep ==
  ASSUME TypeInv, PassInv, [Next]_avars
  PROVE  PassInv'
<1>1. ASSUME UNCHANGED <<now_data, window, alert_states, todo, fc>>
      PROVE  /\ \A p : SamplesOf(p)' = SamplesOf(p) /\ ModelledOf(p)' = ModelledOf(p)
             /\ Transition' = Transition /\ First(todo)' = First(todo)
             /\ fc' = fc /\ todo' = todo
  BY <1>1, SameWindow DEF Transition, Pair
<1>2. CASE Idles
  BY <1>1, <1>2 DEF Idles, passVars, tables, PassInv
<1>3. CASE Leaves
  BY <1>3 DEF Leaves, ForgetPass, PassInv, Ended, Loop
<1>4. CASE Prepares
  BY <1>4 DEF Prepares, PassInv, Ended, Loop
<1>5. CASE LoadWindow
  BY <1>5 DEF LoadWindow, PassInv, Ended, Loop
<1>6. CASE Enters
  <2>1. \A p \in {q \in Pairs : SamplesOf(q) # <<>>} : SamplesOf(p) # <<>>
    OBVIOUS
  <2> QED
    BY <1>6, <2>1, ContinuesPass DEF Enters
<1>7. CASE Decides
  <2>1. pc = "insert_forecast" /\ pc' = "insert_alert_event"
        /\ UNCHANGED <<now_data, window, alert_states, todo, fc>> /\ Transition # "nothing"
    BY <1>7 DEF Decides, passVars
  <2> QED
    BY <1>1, <2>1 DEF PassInv, Loop, Ended
<1>8. CASE Moves
  <2>1. pc \in Loop
    BY <1>8 DEF Moves, Loop
  <2>2. todo \ {First(todo)} \in SUBSET Pairs /\ \A p \in todo \ {First(todo)} : SamplesOf(p) # <<>>
    BY <2>1 DEF PassInv, TypeInv, TypeOK
  <2> QED
    BY <1>8, <2>2, ContinuesPass DEF Moves
<1>9. CASE Fires
  <2>1. /\ pc = "insert_alert_event" /\ insert_alert_event /\ NewDecision /\ Transition = "firing"
        /\ pc' = "post_ntfy" /\ event_id' = Len(alert_events')
        /\ UNCHANGED <<pushes, now_data, window, alert_states, todo, fc>>
    BY <1>9 DEF Fires
  <2>2. /\ event_id' = Len(alert_events) + 1 /\ event_id' \notin DOMAIN alert_events
        /\ alert_events'[event_id'].state = "firing"
    BY <2>1, Recorded
  <2>3. \A j \in DOMAIN pushes' : pushes'[j] # event_id'
    BY <2>1, <2>2 DEF TypeInv, TypeOK
  <2> QED
    BY <1>1, <2>1, <2>2, <2>3 DEF PassInv, Loop, Ended
<1>10. CASE PostNtfy
  <2>1. /\ pc = "post_ntfy" /\ pc' = "mark_notified"
        /\ UNCHANGED <<now_data, window, alert_states, todo, fc, event_id, alert_events>>
    BY <1>10 DEF PostNtfy, tables
  <2> QED
    BY <1>1, <2>1 DEF PassInv, Loop, Ended
<1> QED
  BY <1>2, <1>3, <1>4, <1>5, <1>6, <1>7, <1>8, <1>9, <1>10, Steps
-----------------------------------------------------------------------------
(* The tables.                                                             *)

SameDecision(e, f) ==
  e.device_id = f.device_id /\ e.kind = f.kind /\ e.state = f.state /\ e.as_of = f.as_of

(* The decision of the pair in hand. *)
IsHead(e) ==
  /\ e.device_id = Pair.device_id /\ e.kind = Pair.metric.kind
  /\ e.state = Transition /\ e.as_of = fc.as_of

Records ==
  /\ pc = "insert_alert_event" /\ NewDecision
  /\ DOMAIN alert_events' = DOMAIN alert_events \cup {Len(alert_events) + 1}
  /\ Len(alert_events) + 1 \notin DOMAIN alert_events
  /\ IsHead(alert_events'[Len(alert_events) + 1])

(* A statement adds at most the row of the pair in hand, and decisions     *)
(* stay. *)
LEMMA TableEffect ==
  ASSUME TypeInv, PassInv, TableStep
  PROVE  /\ \A k \in DOMAIN forecasts' : k \in DOMAIN forecasts \/ (pc = "insert_forecast" /\ k = Key)
         /\ \A i \in DOMAIN alert_events : SameDecision(alert_events'[i], alert_events[i])
         /\ DOMAIN alert_events' = DOMAIN alert_events \/ Records
<1>1. CASE UNCHANGED tables
  BY <1>1 DEF tables, SameDecision
<1>2. CASE pc = "insert_forecast" /\ insert_forecast
  BY <1>2 DEF insert_forecast, SameDecision
<1>3. CASE pc = "insert_alert_event" /\ insert_alert_event
  BY <1>3, Recorded DEF SameDecision, IsHead, Records, insert_alert_event
<1>4. CASE pc = "mark_notified" /\ mark_notified
  <2>1. alert_events \in Seq(Event) /\ UNCHANGED forecasts
        /\ alert_events' = [alert_events EXCEPT ![event_id].notified = ~error]
    BY <1>4 DEF TypeInv, TypeOK, mark_notified
  <2>2. DOMAIN alert_events' = DOMAIN alert_events
    BY <2>1
  <2>3. ASSUME NEW i \in DOMAIN alert_events
        PROVE  SameDecision(alert_events'[i], alert_events[i])
    <3>1. alert_events[i] \in Event
      BY <2>1
    <3>2. alert_events'[i] = alert_events[i]
          \/ alert_events'[i] = [alert_events[i] EXCEPT !.notified = ~error]
      BY <2>1
    <3> QED
      BY <3>1, <3>2 DEF Event, SameDecision
  <2> QED
    BY <2>1, <2>2, <2>3
<1> QED
  BY <1>1, <1>2, <1>3, <1>4 DEF TableStep

(* Nothing recorded of the pair in hand is newer than its forecast.        *)
LEMMA HeadIsNewest ==
  ASSUME TypeInv, PassInv, TableInv, NewestInv, pc \in Loop
  PROVE  /\ \A k \in DOMAIN forecasts : <<k[1], k[2]>> = Place(First(todo)) => k[3] <= fc.as_of
         /\ \A i \in DOMAIN alert_events :
              alert_events[i].device_id = Pair.device_id /\ alert_events[i].kind = Pair.metric.kind =>
                alert_events[i].as_of <= fc.as_of
<1> DEFINE p == First(todo)
<1>1. p \in Pairs /\ Pair = PairAt(p)
  BY HeadFacts
<1>2. PICK r \in MineOf(p) : fc.as_of = r.at /\ \A q \in MineOf(p) : q.at <= r.at
  BY HeadFacts
<1>3. \A q \in MineOf(p) : q.at \in Time
  BY WindowFacts DEF MineOf, Mine
<1>4. /\ \A k \in DOMAIN forecasts : <<k[1], k[2]>> = Place(p) => \E q \in MineOf(p) : k[3] <= q.at
      /\ \A i \in DOMAIN alert_events :
           <<alert_events[i].device_id, alert_events[i].kind>> = Place(p) =>
             \E q \in MineOf(p) : alert_events[i].as_of <= q.at
  BY <1>1, <1>2 DEF NewestInv
<1>5. ASSUME NEW t \in Time, NEW q \in MineOf(p), t <= q.at
      PROVE  t <= fc.as_of
  BY <1>2, <1>3, <1>5 DEF Time
<1>6. ASSUME NEW k \in DOMAIN forecasts, <<k[1], k[2]>> = Place(p)
      PROVE  k[3] <= fc.as_of
  <2>1. k[3] \in Time
    BY DEF TypeInv, TypeOK
  <2> HIDE DEF p
  <2> QED
    BY <2>1, <1>4, <1>5, <1>6
<1>7. ASSUME NEW i \in DOMAIN alert_events,
             alert_events[i].device_id = Pair.device_id, alert_events[i].kind = Pair.metric.kind
      PROVE  alert_events[i].as_of <= fc.as_of
  <2>1. alert_events[i].as_of \in Time
    BY EventFacts
  <2>2. <<alert_events[i].device_id, alert_events[i].kind>> = Place(p)
    BY <1>1, <1>7 DEF Place
  <2> HIDE DEF p
  <2> QED
    BY <2>1, <2>2, <1>4, <1>5
<1> QED
  BY <1>6, <1>7

LEMMA TableInvStep ==
  ASSUME TypeInv, PassInv, TableInv, NewestInv, [Next]_avars
  PROVE  TableInv'
<1>0. telemetry \subseteq telemetry' /\ TableStep
  BY RowTypes, TableSteps
<1>1. ASSUME NEW k \in DOMAIN forecasts'
      PROVE  \E r \in telemetry' : r.device_id = k[1] /\ r.at = k[3]
  <2>1. CASE k \in DOMAIN forecasts
    BY <1>0, <2>1 DEF TableInv
  <2>2. CASE pc = "insert_forecast" /\ k = Key
    <3>1. pc \in Loop
      BY <2>2 DEF Loop
    <3>2. PICK r \in telemetry : fc.as_of = r.at /\ r.device_id = Pair.device_id
      BY <3>1, HeadFacts
    <3>3. Key[1] = Pair.device_id /\ Key[3] = fc.as_of
      BY DEF Key
    <3> QED
      BY <1>0, <2>2, <3>2, <3>3
  <2> QED
    BY <1>0, <2>1, <2>2, TableEffect
<1>2. \A i \in DOMAIN alert_events : SameDecision(alert_events'[i], alert_events[i])
  BY <1>0, TableEffect
<1>3. CASE DOMAIN alert_events' = DOMAIN alert_events
  <2>1. \A i \in DOMAIN alert_events' :
          \E r \in telemetry' : r.device_id = alert_events'[i].device_id /\ r.at = alert_events'[i].as_of
    BY <1>0, <1>2, <1>3 DEF TableInv, SameDecision
  <2>2. \A i, j \in DOMAIN alert_events' :
          i < j /\ SamePair(alert_events'[i], alert_events'[j]) =>
            alert_events'[i].as_of <= alert_events'[j].as_of
    BY <1>2, <1>3 DEF TableInv, SameDecision, SamePair
  <2> QED
    BY <1>1, <2>1, <2>2 DEF TableInv
<1>4. CASE Records
  <2> DEFINE n == Len(alert_events) + 1
  <2>1. pc \in Loop
    BY <1>4 DEF Records, Loop
  <2>2. PICK r \in telemetry : fc.as_of = r.at /\ r.device_id = Pair.device_id
    BY <2>1, HeadFacts
  <2>3. /\ DOMAIN alert_events' = DOMAIN alert_events \cup {n} /\ n \notin DOMAIN alert_events
        /\ IsHead(alert_events'[n])
    BY <1>4 DEF Records
  <2>4. \A i \in DOMAIN alert_events : i < n /\ i \in Nat
    BY DEF TypeInv, TypeOK
  <2>5. n \in Nat
    BY DEF TypeInv, TypeOK
  <2> HIDE DEF n
  <2>6. \A i \in DOMAIN alert_events' :
          \E q \in telemetry' : q.device_id = alert_events'[i].device_id /\ q.at = alert_events'[i].as_of
    BY <1>0, <1>2, <2>2, <2>3 DEF TableInv, SameDecision, IsHead
  <2>7. ASSUME NEW i \in DOMAIN alert_events', NEW j \in DOMAIN alert_events',
               i < j, SamePair(alert_events'[i], alert_events'[j])
        PROVE  alert_events'[i].as_of <= alert_events'[j].as_of
    <3>1. CASE i \in DOMAIN alert_events /\ j \in DOMAIN alert_events
      BY <1>2, <2>7, <3>1 DEF TableInv, SameDecision, SamePair
    <3>2. CASE i \in DOMAIN alert_events /\ j = n
      BY <1>2, <2>1, <2>3, <2>7, <3>2, HeadIsNewest DEF SameDecision, SamePair, IsHead
    <3>3. CASE i = n
      BY <2>3, <2>4, <2>5, <2>7, <3>3
    <3> QED
      BY <2>3, <3>1, <3>2, <3>3
  <2> QED
    BY <1>1, <2>6, <2>7 DEF TableInv
<1> QED
  BY <1>0, <1>3, <1>4, TableEffect

LEMMA NewestStep ==
  ASSUME TypeInv, PassInv, TableInv, NewestInv, [Next]_avars
  PROVE  NewestInv'
<1>1. ASSUME UNCHANGED <<window, now_data>>, pc \in Loop \cup {"latest_alert_states"},
             pc = "latest_alert_states" => UNCHANGED tables
      PROVE  NewestInv'
  <2>1. \A p : MineOf(p)' = MineOf(p) /\ Place(p)' = Place(p)
    BY <1>1, SameWindow DEF Place, PairAt
  <2>2. CASE pc = "latest_alert_states"
    <3>1. UNCHANGED <<forecasts, alert_events>>
      BY <1>1, <2>2 DEF tables
    <3> QED
      BY <2>1, <2>2, <3>1 DEF NewestInv
  <2>3. CASE pc \in Loop
    <3> DEFINE h == First(todo)
    <3>1. h \in Pairs /\ Pair = PairAt(h) /\ <<Key[1], Key[2]>> = Place(h) /\ Key[3] = fc.as_of
      BY <2>3, HeadFacts
    <3>2. PICK r \in MineOf(h) : fc.as_of = r.at /\ r.at \in Time
      BY <2>3, HeadFacts
    <3>3. /\ \A k \in DOMAIN forecasts' : k \in DOMAIN forecasts \/ k = Key
          /\ \A i \in DOMAIN alert_events : SameDecision(alert_events'[i], alert_events[i])
          /\ \A i \in DOMAIN alert_events' : i \in DOMAIN alert_events \/ IsHead(alert_events'[i])
      BY TableSteps, TableEffect DEF Records
    <3>4. \A p \in Pairs : Place(h) = Place(p) => p = h
      BY <3>1, PlaceFacts
    <3> HIDE DEF h
    <3>5. fc.as_of <= r.at
      BY <3>2 DEF Time
    <3>6. ASSUME NEW p \in Pairs, MineOf(p) # {}, NEW k \in DOMAIN forecasts',
                 <<k[1], k[2]>> = Place(p)
          PROVE  \E q \in MineOf(p) : k[3] <= q.at
      <4>1. CASE k \in DOMAIN forecasts
        BY <2>3, <3>6, <4>1 DEF NewestInv
      <4>2. CASE k = Key
        <5>1. p = h
          BY <3>1, <3>4, <3>6, <4>2
        <5> QED
          BY <3>1, <3>2, <3>5, <4>2, <5>1
      <4> QED
        BY <3>3, <4>1, <4>2
    <3>7. ASSUME NEW p \in Pairs, MineOf(p) # {}, NEW i \in DOMAIN alert_events',
                 <<alert_events'[i].device_id, alert_events'[i].kind>> = Place(p)
          PROVE  \E q \in MineOf(p) : alert_events'[i].as_of <= q.at
      <4>1. CASE i \in DOMAIN alert_events
        <5>1. /\ alert_events'[i].device_id = alert_events[i].device_id
              /\ alert_events'[i].kind = alert_events[i].kind
              /\ alert_events'[i].as_of = alert_events[i].as_of
          BY <3>3, <4>1 DEF SameDecision
        <5> QED
          BY <2>3, <3>7, <4>1, <5>1 DEF NewestInv
      <4>2. CASE IsHead(alert_events'[i])
        <5>1. <<alert_events'[i].device_id, alert_events'[i].kind>> = Place(h)
              /\ alert_events'[i].as_of = fc.as_of
          BY <3>1, <4>2 DEF IsHead, Place
        <5>2. p = h
          BY <3>4, <3>7, <5>1
        <5> QED
          BY <3>2, <3>5, <5>1, <5>2
      <4> QED
        BY <3>3, <4>1, <4>2
    <3> QED
      BY <2>1, <3>6, <3>7 DEF NewestInv
  <2> QED
    BY <1>1, <2>2, <2>3
<1>2. CASE LoadWindow
  <2>1. /\ window' = InWindow(telemetry, now_data) /\ UNCHANGED <<forecasts, alert_events, telemetry, now_data>>
    BY <1>2 DEF LoadWindow, tables, envVars
  <2>2. now_data' \in Int
    BY <2>1 DEF TypeInv, TypeOK, Time, None
  <2>3. ASSUME NEW p \in Pairs, NEW q \in MineOf(p)', NEW r \in telemetry,
               r.device_id = PairAt(p).device_id
        PROVE  \E m \in MineOf(p)' : r.at <= m.at
    <3>1. PairAt(p).metric.lookback_seconds \in Nat
          /\ \E i \in DOMAIN Metrics : PairAt(p).metric = Metrics[i]
      BY PlaceFacts
    <3>2. /\ q \in telemetry /\ q.at > now_data' - PairAt(p).metric.lookback_seconds
          /\ q.at \in Time /\ r.at \in Time
      BY <2>1, WindowFacts DEF MineOf, Mine, InWindow, TypeInv, RowInv
    <3>3. CASE r.at > now_data' - PairAt(p).metric.lookback_seconds
      <4>1. r \in MineOf(p)'
        BY <2>1, <2>3, <3>1, <3>3 DEF MineOf, Mine, InWindow
      <4>2. r.at <= r.at
        BY <3>2 DEF Time
      <4> QED
        BY <4>1, <4>2
    <3>4. CASE ~(r.at > now_data' - PairAt(p).metric.lookback_seconds)
      <4> DEFINE cutoff == now_data' - PairAt(p).metric.lookback_seconds
      <4>1. cutoff \in Int
        BY <2>2, <3>1
      <4> HIDE DEF cutoff
      <4>2. r.at <= q.at
        BY <4>1, <3>2, <3>4 DEF cutoff, Time
      <4> QED
        BY <4>2
    <3> QED
      BY <3>3, <3>4
  <2>4. ASSUME NEW p \in Pairs, MineOf(p)' # {}, NEW k \in DOMAIN forecasts',
               <<k[1], k[2]>> = Place(p)
        PROVE  \E m \in MineOf(p)' : k[3] <= m.at
    <3>1. PICK r \in telemetry : r.device_id = k[1] /\ r.at = k[3]
      BY <2>1 DEF TableInv
    <3>2. r.device_id = PairAt(p).device_id
      BY <2>4, <3>1 DEF Place
    <3> QED
      BY <2>3, <2>4, <3>1, <3>2
  <2>5. ASSUME NEW p \in Pairs, MineOf(p)' # {}, NEW i \in DOMAIN alert_events',
               <<alert_events'[i].device_id, alert_events'[i].kind>> = Place(p)
        PROVE  \E m \in MineOf(p)' : alert_events'[i].as_of <= m.at
    <3>1. PICK r \in telemetry : r.device_id = alert_events'[i].device_id /\ r.at = alert_events'[i].as_of
      BY <2>1 DEF TableInv
    <3>2. r.device_id = PairAt(p).device_id
      BY <2>5, <3>1 DEF Place
    <3> QED
      BY <2>3, <2>5, <3>1, <3>2
  <2> QED
    BY <2>4, <2>5 DEF NewestInv, Place, PairAt
<1>3. CASE Idles
  <2>1. UNCHANGED <<forecasts, alert_events, pc, window, now_data>>
    BY <1>3 DEF Idles, tables, passVars
  <2> QED
    BY <1>1, <2>1 DEF NewestInv, tables
<1>4. CASE Leaves \/ Prepares
  BY <1>4 DEF Leaves, Prepares, NewestInv, Ended, Loop
<1>5. CASE Enters \/ Decides \/ Moves \/ Fires \/ PostNtfy
  BY <1>1, <1>5 DEF Enters, Decides, Moves, Fires, PostNtfy, Continues, Loop, passVars
<1> QED
  BY <1>2, <1>3, <1>4, <1>5, Steps
-----------------------------------------------------------------------------
(* The decisions.                                                          *)

(* Writing to the head of the loop leaves the latest decisions of the      *)
(* other pairs as they were, and only a new decision changes its own.      *)
LEMMA LatestUnchanged ==
  ASSUME TypeInv, PassInv, TableStep, NEW d, NEW k,
         \/ DOMAIN alert_events' = DOMAIN alert_events
         \/ d # Pair.device_id \/ k # Pair.metric.kind
  PROVE  LatestDecisions(d, k)' = LatestDecisions(d, k)
<1> DEFINE mine == {i \in DOMAIN alert_events :
                      alert_events[i].device_id = d /\ alert_events[i].kind = k}
           last == {i \in mine : \A j \in mine : alert_events[i].as_of >= alert_events[j].as_of}
           value(i) == [state |-> alert_events[i].state, as_of |-> alert_events[i].as_of]
<1>1. /\ LatestDecisions(d, k) = IF mine = {} THEN {Undecided} ELSE {value(i) : i \in last}
      /\ LatestDecisions(d, k)' = IF mine' = {} THEN {Undecided} ELSE {value(i)' : i \in last'}
  BY DEF LatestDecisions
<1>2. /\ \A i \in DOMAIN alert_events : SameDecision(alert_events'[i], alert_events[i])
      /\ DOMAIN alert_events \subseteq DOMAIN alert_events'
      /\ \A i \in DOMAIN alert_events' :
           \/ i \in DOMAIN alert_events
           \/ alert_events'[i].device_id # d \/ alert_events'[i].kind # k
  BY TableEffect DEF Records, IsHead
<1>3. mine' = mine
  BY <1>2 DEF SameDecision
<1>4. \A i \in mine : /\ alert_events'[i].as_of = alert_events[i].as_of
                      /\ alert_events'[i].state = alert_events[i].state
  BY <1>2 DEF SameDecision
<1> DEFINE last2 == {i \in mine : \A j \in mine : alert_events'[i].as_of >= alert_events'[j].as_of}
<1>5. last' = last2
  BY <1>3
<1>6. last2 = last
  BY <1>4
<1>7. \A i \in last : value(i)' = value(i)
  BY <1>4
<1> HIDE DEF mine, value, last, last2
<1> QED
  BY <1>1, <1>3, <1>5, <1>6, <1>7

LEMMA StatesStep ==
  ASSUME TypeInv, PassInv, StatesInv, [Next]_avars
  PROVE  StatesInv'
<1> DEFINE Read(p) == alert_states[Place(p)] \in
                        LatestDecisions(PairAt(p).device_id, PairAt(p).metric.kind)
<1>0. TableStep
  BY TableSteps
<1>1. ASSUME NEW p \in Pairs, UNCHANGED alert_states, Read(p), pc \in Loop,
             DOMAIN alert_events' = DOMAIN alert_events \/ p # First(todo)
      PROVE  Read(p)'
  <2>1. \/ DOMAIN alert_events' = DOMAIN alert_events
        \/ PairAt(p).device_id # Pair.device_id \/ PairAt(p).metric.kind # Pair.metric.kind
    <3>1. First(todo) \in Pairs /\ Pair = PairAt(First(todo))
      BY <1>1, HeadFacts
    <3>2. Place(p) = Place(First(todo)) => p = First(todo)
      BY <3>1, PlaceFacts
    <3> QED
      BY <1>1, <3>1, <3>2 DEF Place
  <2>2. LatestDecisions(PairAt(p).device_id, PairAt(p).metric.kind)'
          = LatestDecisions(PairAt(p).device_id, PairAt(p).metric.kind)
    BY <1>0, <2>1, LatestUnchanged DEF PairAt
  <2> QED
    BY <1>1, <2>2 DEF Place, PairAt
<1>2. todo \subseteq Pairs
  BY DEF TypeInv, TypeOK
<1>3. CASE Idles
  <2>1. UNCHANGED <<pc, todo, alert_states, alert_events>>
    BY <1>3 DEF Idles, passVars, tables
  <2>2. Open' = Open
    BY <2>1 DEF Open
  <2>3. \A p \in Open : Read(p)' <=> Read(p)
    <3>1. ASSUME NEW p
          PROVE  LatestDecisions(PairAt(p).device_id, PairAt(p).metric.kind)'
                   = LatestDecisions(PairAt(p).device_id, PairAt(p).metric.kind)
      BY <1>0, <2>1, LatestUnchanged DEF PairAt
    <3> QED
      BY <2>1, <3>1 DEF Place, PairAt
  <2> QED
    BY <2>1, <2>2, <2>3 DEF StatesInv
<1>4. CASE Leaves \/ Prepares \/ LoadWindow
  BY <1>4 DEF Leaves, Prepares, LoadWindow, StatesInv, Ended, Loop
<1>5. CASE Enters
  <2>1. todo' \subseteq Pairs /\ Open' = todo'
    BY <1>5 DEF Enters, Continues, Open
  <2>2. ASSUME NEW p \in Pairs
        PROVE  alert_states'[Place(p)] \in LatestDecisions(PairAt(p).device_id, PairAt(p).metric.kind)
    <3>1. Place(p) \in DeviceSet \X Kinds /\ Place(p)[1] = PairAt(p).device_id
          /\ Place(p)[2] = PairAt(p).metric.kind
      BY PlaceFacts DEF Place
    <3> QED
      BY <1>5, <3>1 DEF Enters
  <2>3. ASSUME NEW p \in Pairs
        PROVE  LatestDecisions(PairAt(p).device_id, PairAt(p).metric.kind)'
                 = LatestDecisions(PairAt(p).device_id, PairAt(p).metric.kind)
    <3>1. UNCHANGED alert_events
      BY <1>5 DEF Enters, tables
    <3> QED
      BY <1>0, <3>1, LatestUnchanged DEF PairAt
  <2> QED
    BY <2>1, <2>2, <2>3 DEF StatesInv, Place, PairAt
<1>6. CASE Decides
  <2>1. /\ pc \in Loop /\ Open' = todo /\ Open = todo /\ UNCHANGED alert_states
        /\ DOMAIN alert_events' = DOMAIN alert_events
    BY <1>6 DEF Decides, passVars, Open, Loop, insert_forecast
  <2>2. \A p \in todo : Read(p)
    BY <2>1 DEF StatesInv
  <2>3. \A p \in todo : Read(p)'
    BY <1>1, <1>2, <2>1, <2>2
  <2> QED
    BY <2>1, <2>3 DEF StatesInv
<1>7. CASE Moves \/ Fires \/ PostNtfy
  <2>1. pc \in Loop /\ UNCHANGED alert_states /\ Open' = todo \ {First(todo)}
    BY <1>7 DEF Moves, Fires, PostNtfy, Continues, Open, Loop
  <2>2. \A p \in todo \ {First(todo)} : Read(p)
    BY <2>1 DEF StatesInv, Open
  <2>3. \A p \in todo \ {First(todo)} : Read(p)'
    BY <1>1, <1>2, <2>1, <2>2
  <2> QED
    BY <2>1, <2>3 DEF StatesInv
<1> QED
  BY <1>3, <1>4, <1>5, <1>6, <1>7, Steps

LEMMA QuietStep ==
  ASSUME TypeInv, PassInv, TableInv, StatesInv, StandingAlertQuiet, [Next]_avars
  PROVE  StandingAlertQuiet'
<1> DEFINE Quiet(i, j) ==
      \/ alert_events[j].as_of - alert_events[i].as_of >= Cooldown
      \/ \E k \in 1 .. i : /\ SamePair(alert_events[i], alert_events[k])
                            /\ alert_events[k].state = "cleared"
                            /\ alert_events[k].as_of = alert_events[i].as_of
<1>0. PICK n : n = Len(alert_events) + 1
  OBVIOUS
<1>1. /\ \A i \in DOMAIN alert_events : SameDecision(alert_events'[i], alert_events[i])
      /\ DOMAIN alert_events' = DOMAIN alert_events \/ Records
  BY TableSteps, TableEffect
<1>2. /\ DOMAIN alert_events = 1 .. Len(alert_events) /\ Len(alert_events) \in Nat
      /\ \A i \in DOMAIN alert_events : alert_events[i].as_of \in Time
  BY EventFacts
<1>3. \A i \in DOMAIN alert_events : i \in 1 .. Len(alert_events) /\ 1 .. i \subseteq DOMAIN alert_events
  BY <1>2
<1>4. ASSUME NEW i \in DOMAIN alert_events, NEW j \in DOMAIN alert_events, FiredAgain(i, j)'
      PROVE  Quiet(i, j)'
  <2>1. \A k \in i .. j : k \in DOMAIN alert_events
    BY <1>2
  <2>2. FiredAgain(i, j)
    BY <1>1, <1>4, <2>1 DEF FiredAgain, SamePair, SameDecision
  <2>3. Quiet(i, j)
    BY <2>2 DEF StandingAlertQuiet
  <2> QED
    BY <1>1, <1>3, <2>3 DEF SamePair, SameDecision
<1>5. ASSUME Records, NEW i \in DOMAIN alert_events, FiredAgain(i, n)'
      PROVE  Quiet(i, n)'
  <2> DEFINE h == First(todo)
             before == alert_states[<<Pair.device_id, Pair.metric.kind>>]
  <2>1. pc \in Loop /\ pc = "insert_alert_event" /\ IsHead(alert_events'[n])
    BY <1>0, <1>5 DEF Records, Loop
  <2>2. h \in todo /\ h \in Pairs /\ Pair = PairAt(h) /\ fc.as_of \in Time
    BY <2>1, HeadFacts
  <2>3. before \in LatestDecisions(Pair.device_id, Pair.metric.kind)
    BY <2>1, <2>2 DEF StatesInv, Open, Place
  <2>4. /\ i < n /\ SamePair(alert_events'[i], alert_events'[n])
        /\ \A k \in i .. n : SamePair(alert_events'[i], alert_events'[k]) =>
                               alert_events'[k].state = "firing"
    BY <1>5 DEF FiredAgain
  <2>5. n \in i .. n /\ \A k \in DOMAIN alert_events : k >= i => k \in i .. n
    BY <1>0, <1>2
  <2>6. Transition = "firing"
    BY <2>1, <2>4, <2>5 DEF IsHead
  <2>7. before.state \in {"none", "cleared"} \/ fc.as_of - before.as_of >= Cooldown
    BY <2>6 DEF Transition, alert_transition
  <2>8. alert_events[i].device_id = Pair.device_id /\ alert_events[i].kind = Pair.metric.kind
    BY <1>1, <2>1, <2>4 DEF SamePair, SameDecision, IsHead
  <2>9. PICK m \in DOMAIN alert_events :
          /\ alert_events[m].device_id = Pair.device_id /\ alert_events[m].kind = Pair.metric.kind
          /\ before = [state |-> alert_events[m].state, as_of |-> alert_events[m].as_of]
          /\ alert_events[m].as_of >= alert_events[i].as_of
    BY <2>3, <2>8, LatestFacts
  <2> HIDE DEF h, before
  <2>10. /\ before.state = alert_events[m].state /\ before.as_of = alert_events[m].as_of
         /\ alert_events[m].state # "none"
    BY <2>9, EventFacts
  <2>11. CASE fc.as_of - alert_events[m].as_of >= Cooldown
    <3>1. fc.as_of - alert_events[i].as_of >= Cooldown
      BY <1>2, <2>2, <2>9, <2>11, AnalyticsAssumption DEF Time
    <3> QED
      BY <1>1, <2>1, <3>1 DEF SameDecision, IsHead
  <2>12. CASE alert_events[m].state = "cleared"
    <3>1. ~(m >= i)
      <4>1. alert_events'[m].state = "cleared" /\ SamePair(alert_events'[i], alert_events'[m])
        BY <1>1, <2>8, <2>9, <2>12 DEF SameDecision, SamePair
      <4> QED
        BY <4>1, <2>4, <2>5
    <3>2. m < i /\ m \in 1 .. i
      BY <1>2, <3>1
    <3>3. alert_events[m].as_of <= alert_events[i].as_of
      BY <3>2, <2>8, <2>9 DEF TableInv, SamePair
    <3>4. alert_events[m].as_of = alert_events[i].as_of
      BY <1>2, <2>9, <3>3 DEF Time
    <3> QED
      BY <1>1, <2>8, <2>9, <2>12, <3>2, <3>4 DEF SameDecision, SamePair
  <2> QED
    BY <2>7, <2>10, <2>11, <2>12
<1>6. \A i : ~FiredAgain(n, i)' \/ i \notin DOMAIN alert_events' \/ i \notin DOMAIN alert_events \cup {n}
  <2>1. ASSUME NEW i \in DOMAIN alert_events \cup {n} PROVE ~(n < i)
    BY <1>0, <1>2
  <2> QED
    BY <2>1 DEF FiredAgain
<1>7. ASSUME NEW i \in DOMAIN alert_events', NEW j \in DOMAIN alert_events', FiredAgain(i, j)'
      PROVE  Quiet(i, j)'
  <2>1. DOMAIN alert_events' = DOMAIN alert_events \/ (Records /\ DOMAIN alert_events' = DOMAIN alert_events \cup {n})
    BY <1>0, <1>1 DEF Records
  <2> QED
    BY <1>4, <1>5, <1>6, <1>7, <2>1
<1> QED
  BY <1>7 DEF StandingAlertQuiet
-----------------------------------------------------------------------------
(* The forecasts of the pairs a pass has handled.                          *)

(* The pairs handled once the statement in flight has committed. *)
Handled(p) == p \in Done \/ (p = First(todo) /\ pc = "insert_forecast" /\ insert_forecast)

LEMMA CurrentAfter ==
  ASSUME TypeInv, PassInv, DoneInv, TableStep, pc \in Loop,
         NEW p \in Pairs, Handled(p), SamplesOf(p) # <<>>
  PROVE  /\ ModelledOf(p).status # "raised"
         /\ KeyOf(p) \in DOMAIN forecasts'
         /\ forecasts'[KeyOf(p)].status = ModelledOf(p).status
<1> DEFINE h == First(todo)
<1>1. /\ h \in todo /\ h \in Pairs /\ fc = ModelledOf(h) /\ fc.status # "raised" /\ Key = KeyOf(h)
      /\ <<Key[1], Key[2]>> = Place(h)
  BY HeadFacts
<1>2. ASSUME p = h, pc = "insert_forecast", insert_forecast
      PROVE  Key \in DOMAIN forecasts' /\ forecasts'[Key].status = fc.status
  BY <1>2 DEF insert_forecast, Written
<1>3. CASE p = h /\ pc = "insert_forecast" /\ insert_forecast
  BY <1>1, <1>2, <1>3
<1>4. CASE p \in Done
  <2>1. IsCurrent(p)
    BY <1>4 DEF DoneInv
  <2>2. CASE forecasts' = forecasts
    BY <2>1, <2>2 DEF IsCurrent
  <2>3. CASE pc = "insert_forecast" /\ insert_forecast
    <3>1. p # h
      BY <1>1, <1>4, <2>3 DEF Done
    <3>2. KeyOf(p) # Key
      <4>1. <<KeyOf(p)[1], KeyOf(p)[2]>> = Place(p)
        BY DEF KeyOf, Place
      <4>2. Place(p) # Place(h)
        BY <1>1, <3>1, PlaceFacts
      <4> QED
        BY <1>1, <4>1, <4>2
    <3> HIDE DEF h
    <3>3. KeyOf(p) \in DOMAIN forecasts' /\ forecasts'[KeyOf(p)] = forecasts[KeyOf(p)]
      BY <2>1, <2>3, <3>2 DEF insert_forecast, IsCurrent
    <3> QED
      BY <2>1, <3>3 DEF IsCurrent
  <2> QED
    BY <2>2, <2>3 DEF TableStep, tables, insert_alert_event, mark_notified
<1> QED
  BY <1>3, <1>4 DEF Handled

LEMMA DoneStep ==
  ASSUME TypeInv, PassInv, DoneInv, [Next]_avars
  PROVE  DoneInv'
<1>1. TableStep
  BY TableSteps
<1>2. ASSUME UNCHANGED <<window, now_data>>, pc \in Loop,
             \A p \in Pairs : p \in Done' => Handled(p)
      PROVE  DoneInv'
  <2>1. \A p : SamplesOf(p)' = SamplesOf(p) /\ ModelledOf(p)' = ModelledOf(p) /\ KeyOf(p)' = KeyOf(p)
    BY <1>2, SameWindow
  <2>2. todo \subseteq Pairs /\ First(todo) \in Pairs
    BY <1>2, HeadFacts DEF TypeInv, TypeOK
  <2>3. ASSUME NEW p \in Pairs, p \in Done', SamplesOf(p) # <<>>
        PROVE  IsCurrent(p)'
    <3>1. Handled(p)
      BY <1>2, <2>3
    <3>2. /\ ModelledOf(p).status # "raised" /\ KeyOf(p) \in DOMAIN forecasts'
          /\ forecasts'[KeyOf(p)].status = ModelledOf(p).status
      BY <1>1, <1>2, <2>3, <3>1, CurrentAfter
    <3> QED
      BY <2>1, <3>2 DEF IsCurrent
  <2>4. ASSUME pc' \in Loop, NEW p \in Done' PROVE p \in Pairs
    <3>1. todo' \subseteq Pairs /\ (todo' # {} => First(todo)' \in Pairs)
      <4>1. PassType'
        BY TypeStep, PassTypes
      <4>2. todo' \subseteq Pairs
        BY <4>1 DEF PassType
      <4>3. \A S \in SUBSET Pairs : S # {} => First(S) \in Pairs
        BY FirstPair
      <4> QED
        BY <4>2, <4>3
    <3>2. todo' # {}
      BY <2>4, PassStep DEF PassInv
    <3> QED
      BY <2>4, <3>1, <3>2 DEF Done, Pairs
  <2> QED
    BY <2>1, <2>3, <2>4 DEF DoneInv
<1>3. CASE Idles
  <2>1. UNCHANGED <<pc, todo, window, now_data, forecasts>>
    BY <1>3 DEF Idles, passVars, tables
  <2>2. \A p : SamplesOf(p)' = SamplesOf(p) /\ ModelledOf(p)' = ModelledOf(p) /\ KeyOf(p)' = KeyOf(p)
    BY <2>1, SameWindow
  <2>3. Done' = Done
    BY <2>1 DEF Done, Pairs
  <2> QED
    BY <2>1, <2>2, <2>3 DEF DoneInv, IsCurrent
<1>4. CASE Leaves \/ Prepares \/ LoadWindow
  BY <1>4 DEF Leaves, Prepares, LoadWindow, DoneInv, Ended, Loop
<1>5. CASE Enters
  <2>1. UNCHANGED <<window, now_data>> /\ pc' = "insert_forecast"
        /\ todo' = {p \in Pairs : SamplesOf(p) # <<>>}
    BY <1>5 DEF Enters, Continues
  <2>2. \A p : SamplesOf(p)' = SamplesOf(p)
    BY <2>1, SameWindow
  <2>3. \A p \in Done' : SamplesOf(p) = <<>>
    BY <2>1 DEF Done, Pairs
  <2> QED
    BY <2>2, <2>3 DEF DoneInv
<1>6. CASE Decides
  <2>1. /\ pc \in Loop /\ UNCHANGED <<window, now_data, todo>> /\ insert_forecast
        /\ pc = "insert_forecast" /\ pc' = "insert_alert_event"
    BY <1>6 DEF Decides, passVars, Loop
  <2>2. \A p \in Pairs : p \in Done' => Handled(p)
    BY <2>1 DEF Done, Handled, Pairs
  <2> QED
    BY <1>2, <2>1, <2>2
<1>7. CASE Moves
  <2>1. /\ pc \in Loop /\ UNCHANGED <<window, now_data>> /\ pc' = "insert_forecast"
        /\ todo' = todo \ {First(todo)} /\ (pc = "insert_forecast" => insert_forecast)
    BY <1>7 DEF Moves, Continues, Loop
  <2>2. \A p \in Pairs : p \in Done' => Handled(p)
    BY <2>1 DEF Done, Handled, Pairs
  <2> QED
    BY <1>2, <2>1, <2>2
<1>8. CASE Fires \/ PostNtfy
  <2>1. /\ pc \in Loop \ {"insert_forecast"} /\ UNCHANGED <<window, now_data, todo>>
        /\ pc' # "insert_forecast"
    BY <1>8 DEF Fires, PostNtfy, Loop
  <2>2. \A p \in Pairs : p \in Done' => Handled(p)
    BY <2>1 DEF Done, Handled, Pairs
  <2> QED
    BY <1>2, <2>1, <2>2
<1> QED
  BY <1>3, <1>4, <1>5, <1>6, <1>7, <1>8, Steps
-----------------------------------------------------------------------------
(* The counters.                                                           *)

Events(s) == {i \in DOMAIN alert_events : alert_events[i].state = s}

LEMMA EventsCounted ==
  ASSUME TypeInv, PassInv, TableStep, NEW s
  PROVE  /\ Cardinality(Events(s)) \in Nat /\ Cardinality(Events(s)') \in Nat
         /\ Cardinality(Events(s)) <= Cardinality(Events(s)')
         /\ Records /\ s = Transition => Cardinality(Events(s)') = Cardinality(Events(s)) + 1
<1>1. IsFiniteSet(Events(s))
  <2>1. Events(s) \subseteq 1 .. Len(alert_events) /\ Len(alert_events) \in Nat
    BY EventFacts DEF Events
  <2>2. IsFiniteSet(1 .. Len(alert_events))
    BY <2>1, FS_Interval
  <2> QED
    BY <2>1, <2>2, FS_Subset
<1>2. /\ \A i \in DOMAIN alert_events : SameDecision(alert_events'[i], alert_events[i])
      /\ DOMAIN alert_events' = DOMAIN alert_events \/ Records
  BY TableEffect
<1>3. CASE DOMAIN alert_events' = DOMAIN alert_events
  <2>1. Events(s)' = Events(s)
    BY <1>2, <1>3 DEF Events, SameDecision
  <2>2. ~Records
    BY <1>3 DEF Records
  <2> QED
    BY <1>1, <2>1, <2>2, FS_CardinalityType
<1>4. CASE Records
  <2>1. PICK n : n = Len(alert_events) + 1
    OBVIOUS
  <2>2. /\ DOMAIN alert_events' = DOMAIN alert_events \cup {n} /\ n \notin DOMAIN alert_events
        /\ alert_events'[n].state = Transition
    BY <1>4, <2>1 DEF Records, IsHead
  <2>3. Events(s)' = IF s = Transition THEN Events(s) \cup {n} ELSE Events(s)
    BY <1>2, <2>2 DEF Events, SameDecision
  <2>4. n \notin Events(s)
    BY <2>2 DEF Events
  <2>5. /\ IsFiniteSet(Events(s) \cup {n})
        /\ Cardinality(Events(s) \cup {n}) = Cardinality(Events(s)) + 1
    BY <1>1, <2>4, FS_AddElement
  <2>6. Cardinality(Events(s)) \in Nat
    BY <1>1, FS_CardinalityType
  <2> QED
    BY <2>3, <2>5, <2>6
<1> QED
  BY <1>2, <1>3, <1>4

LEMMA CountStep ==
  ASSUME TypeInv, PassInv, CountInv, [Next]_avars
  PROVE  CountInv'
<1> DEFINE f == counters["alerts_fired"]
           c == counters["alerts_cleared"]
           n == counters["notify_failures"]
           Pushing == {"post_ntfy", "mark_notified"}
<1>0. TableStep /\ counters \in [Counter -> Nat]
  BY TableSteps DEF TypeInv, TypeOK
<1>1. f \in Nat /\ c \in Nat /\ n \in Nat
  BY <1>0 DEF Counter
<1>2. /\ f <= Cardinality(Events("firing")) /\ c <= Cardinality(Events("cleared")) /\ n <= f
      /\ pc \in Pushing => n < f
  BY DEF CountInv, AlertsNotOvercounted, Events
<1>3. /\ Cardinality(Events("firing")) \in Nat /\ Cardinality(Events("firing")') \in Nat
      /\ Cardinality(Events("firing")) <= Cardinality(Events("firing")')
      /\ Cardinality(Events("cleared")) \in Nat /\ Cardinality(Events("cleared")') \in Nat
      /\ Cardinality(Events("cleared")) <= Cardinality(Events("cleared")')
  BY <1>0, EventsCounted
<1>4. SUFFICES
        /\ f' <= Cardinality(Events("firing")') /\ c' <= Cardinality(Events("cleared")') /\ n' <= f'
        /\ pc' \in Pushing => n' < f'
  BY DEF CountInv, AlertsNotOvercounted, Events
<1>5. ASSUME UNCHANGED counters, pc' \in Pushing => pc \in Pushing
      PROVE  /\ f' <= Cardinality(Events("firing")') /\ c' <= Cardinality(Events("cleared")') /\ n' <= f'
             /\ pc' \in Pushing => n' < f'
  BY <1>1, <1>2, <1>3, <1>5
<1>6. CASE InsertForecast
  <2>1. f' = f /\ c' = c /\ n' = n
    BY <1>0, <1>6 DEF InsertForecast, CountIf, Counter
  <2>2. pc' \notin Pushing
    BY <1>6, NextPairFacts DEF InsertForecast, Continues, Ended
  <2> QED
    BY <1>1, <1>2, <1>3, <2>1, <2>2
<1>7. CASE DecisionRecorded
  <2>1. pc = "insert_alert_event" /\ insert_alert_event /\ NewDecision
        /\ CountIf(TRUE, IF Transition = "firing" THEN "alerts_fired" ELSE "alerts_cleared")
    BY <1>7 DEF DecisionRecorded
  <2>2. Records /\ Transition # "nothing"
    <3>1. pc \in Loop \ {"insert_forecast"}
      BY <2>1 DEF Loop
    <3> QED
      BY <2>1, <3>1, Recorded DEF Records, IsHead, PassInv
  <2>3. CASE Transition = "firing"
    <3>1. Cardinality(Events("firing")') = Cardinality(Events("firing")) + 1
      BY <1>0, <2>2, <2>3, EventsCounted
    <3>2. f' = f + 1 /\ c' = c /\ n' = n
      BY <1>0, <2>1, <2>3 DEF CountIf, Counter
    <3> QED
      BY <1>1, <1>2, <1>3, <3>1, <3>2
  <2>4. CASE Transition # "firing"
    <3>1. Transition = "cleared"
      BY <2>2, <2>4, TransitionValues
    <3>2. Cardinality(Events("cleared")') = Cardinality(Events("cleared")) + 1
      BY <1>0, <2>2, <3>1, EventsCounted
    <3>3. f' = f /\ c' = c + 1 /\ n' = n
      BY <1>0, <2>1, <2>4 DEF CountIf, Counter
    <3>4. pc' \notin Pushing
      BY <1>7, <2>4, NextPairFacts DEF DecisionRecorded, Continues, Ended
    <3> QED
      BY <1>1, <1>2, <1>3, <3>2, <3>3, <3>4
  <2> QED
    BY <2>3, <2>4
<1>8. CASE MarkNotified
  <2>1. pc \in Pushing /\ CountIf(error, "notify_failures")
    BY <1>8 DEF MarkNotified
  <2>2. f' = f /\ c' = c /\ n' \in {n, n + 1}
    BY <1>0, <2>1 DEF CountIf, Counter
  <2>3. pc' \notin Pushing
    BY <1>8, NextPairFacts DEF MarkNotified, Continues, Ended
  <2> QED
    BY <1>1, <1>2, <1>3, <2>1, <2>2, <2>3
<1>9. CASE Start
  <2>1. f' = 0 /\ c' = 0 /\ n' = 0 /\ pc' = "connect"
    BY <1>9 DEF Start, Zero, Counter
  <2> QED
    BY <1>3, <2>1
<1>10. CASE Connect \/ DataNow \/ LoadWindow \/ LatestAlertStates \/ PostNtfy \/ WaitEnds
  <2>1. UNCHANGED counters /\ (pc' \in Pushing => pc \in Pushing)
    BY <1>10, ContinueFacts
       DEF Connect, DataNow, LoadWindow, LatestAlertStates, PostNtfy, WaitEnds, PassReturns,
           Continues, Ended
  <2> QED
    BY <1>5, <2>1
<1>11. CASE DecisionKnown
  <2>1. UNCHANGED counters /\ pc' \notin Pushing
    BY <1>11, NextPairFacts DEF DecisionKnown, Continues, Ended
  <2> QED
    BY <1>5, <2>1
<1>12. CASE PassFails \/ Kill
  <2>1. UNCHANGED counters /\ pc' \notin Pushing
    BY <1>12 DEF PassFails, Kill, Ends
  <2> QED
    BY <1>5, <2>1
<1>13. CASE Ingest \/ SigTerm \/ UNCHANGED avars
  <2>1. UNCHANGED counters /\ pc' = pc
    BY <1>13 DEF Ingest, SigTerm, avars
  <2> QED
    BY <1>5, <2>1
<1> QED
  BY <1>6, <1>7, <1>8, <1>9, <1>10, <1>11, <1>12, <1>13 DEF Next, Service
-----------------------------------------------------------------------------
(* The theorems.                                                           *)

LEMMA InitInv == Init => AnalyticsInv
<1> SUFFICES ASSUME Init PROVE AnalyticsInv
  OBVIOUS
<1>1. TypeInv
  <2>1. NoStates \in [DeviceSet \X Kinds -> Decision \cup {Undecided}]
    BY DEF NoStates
  <2>2. Zero \in [Counter -> Nat]
    BY DEF Zero
  <2>3. DOMAIN forecasts = {} /\ alert_events = <<>> /\ pushes = <<>>
    BY DEF Init
  <2>4. faults \in 0 .. MaxFaults /\ starts \in 1 .. MaxStarts
    BY AnalyticsAssumption DEF Init
  <2>5. telemetry \subseteq Row /\ IsFiniteSet(telemetry) /\ Keyed(telemetry)
    BY AnalyticsAssumption DEF Init, Keyed
  <2>6. /\ alert_events \in Seq(Event) /\ pushes \in Seq(Nat) /\ DOMAIN pushes = {}
        /\ DOMAIN forecasts \subseteq DeviceSet \X Kinds \X Time
    BY <2>3
  <2>7. pc \in PC /\ stop \in BOOLEAN /\ error \in BOOLEAN /\ last_pass_ok \in BOOLEAN
    BY DEF Init, PC, Query
  <2> QED
    BY <2>1, <2>2, <2>4, <2>5, <2>6, <2>7 DEF Init, TypeInv, TypeOK, RowInv
<1>2. PassInv /\ NewestInv /\ StatesInv /\ DoneInv
  BY DEF Init, PassInv, NewestInv, StatesInv, DoneInv, Loop, Ended
<1>3. TableInv /\ StandingAlertQuiet
  <2>1. DOMAIN forecasts = {} /\ DOMAIN alert_events = {}
    BY DEF Init
  <2> QED
    BY <2>1 DEF TableInv, StandingAlertQuiet
<1>4. CountInv
  <2>1. \A s : {i \in DOMAIN alert_events : alert_events[i].state = s} = {}
    BY DEF Init
  <2>2. Cardinality({}) = 0
    BY FS_EmptySet
  <2>3. /\ counters["alerts_fired"] = 0 /\ counters["alerts_cleared"] = 0
        /\ counters["notify_failures"] = 0
    BY DEF Init, Zero, Counter
  <2>4. AlertsNotOvercounted
    BY <2>1, <2>2, <2>3 DEF AlertsNotOvercounted
  <2> QED
    BY <2>4 DEF Init, CountInv
<1> QED
  BY <1>1, <1>2, <1>3, <1>4 DEF AnalyticsInv

(* Each part of the invariant of a pass is kept by every step of the        *)
(* service and of its environment. *)
THEOREM AnalyticsInvariant == Spec => []AnalyticsInv
<1>1. AnalyticsInv /\ [Next]_avars => AnalyticsInv'
  <2> SUFFICES ASSUME AnalyticsInv, [Next]_avars PROVE AnalyticsInv'
    OBVIOUS
  <2>1. /\ TypeInv /\ PassInv /\ TableInv /\ NewestInv /\ StatesInv /\ StandingAlertQuiet
        /\ DoneInv /\ CountInv
    BY DEF AnalyticsInv
  <2> QED
    BY <2>1, TypeStep, PassStep, TableInvStep, NewestStep, StatesStep, QuietStep, DoneStep,
       CountStep DEF AnalyticsInv
<1> QED
  BY InitInv, <1>1, PTL DEF Spec

(* The tables, the pass and the counters of the service keep their types.  *)
THEOREM AnalyticsTypeCorrect == Spec => []TypeOK
<1>1. AnalyticsInv => TypeOK
  BY DEF AnalyticsInv, TypeInv
<1> QED
  BY AnalyticsInvariant, <1>1, PTL

(* alert_transition and the read-back of alert_events: two firings of a    *)
(* pair without a clear between them are a cooldown of device time apart,  *)
(* across failures, kills and restarts, save for a clear at the first's    *)
(* own instant.                                                            *)
THEOREM StandingAlertsStayQuiet == Spec => []StandingAlertQuiet
<1>1. AnalyticsInv => StandingAlertQuiet
  BY DEF AnalyticsInv
<1> QED
  BY AnalyticsInvariant, <1>1, PTL

(* _handle_alert: the counters of /metrics count no decision the table     *)
(* does not have, and no failed push of a decision they do not count.      *)
THEOREM AlertsCounted == Spec => []AlertsNotOvercounted
<1>1. AnalyticsInv => AlertsNotOvercounted
  BY DEF AnalyticsInv, CountInv
<1> QED
  BY AnalyticsInvariant, <1>1, PTL

-----------------------------------------------------------------------------
(* A completed pass.                                                       *)

LEMMA LargestIs ==
  ASSUME NEW S \in SUBSET Time, NEW x \in S, \A y \in S : y <= x
  PROVE  Largest(S) = x
<1>1. Largest(S) \in S /\ \A y \in S : Largest(S) >= y
  BY LargestTime
<1>2. Largest(S) <= x /\ Largest(S) >= x
  BY <1>1
<1>3. x \in Time /\ Largest(S) \in Time
  BY <1>1
<1> QED
  BY <1>2, <1>3 DEF Time

(* A pass completes when it has found nothing to forecast, or has handled  *)
(* every pair. *)
LEMMA CompletedPass ==
  ASSUME TypeInv, PassInv, Next, PassCompletes
  PROVE  \/ \A p \in Pairs : SamplesOf(p) = <<>>
         \/ pc \in Loop /\ \A p \in Pairs : Handled(p)
<1>1. now_data # None /\ pc' = "wait" /\ last_pass_ok'
  BY DEF PassCompletes
<1>2. pc \notin Ended \cup {"connect", "data_now", "wait"}
  BY <1>1 DEF PassInv
<1>3. ASSUME NEW rest, Continue(rest) PROVE rest = {}
  BY <1>1, <1>3 DEF Continue, Ends
<1>4. CASE LatestAlertStates
  BY <1>3, <1>4 DEF LatestAlertStates, SamplesOf
<1>5. ASSUME NextPair, pc \in Loop, pc = "insert_forecast" => insert_forecast
      PROVE  pc \in Loop /\ \A p \in Pairs : Handled(p)
  <2>1. todo \ {First(todo)} = {}
    BY <1>3, <1>5 DEF NextPair
  <2>2. \A p \in Pairs : p \in todo => p = First(todo)
    BY <2>1
  <2> QED
    BY <1>5, <2>2 DEF Handled, Done
<1>6. CASE InsertForecast \/ DecisionKnown \/ DecisionRecorded \/ MarkNotified
  BY <1>1, <1>5, <1>6
     DEF InsertForecast, DecisionKnown, DecisionRecorded, MarkNotified, Loop
<1>7. ~(Connect \/ DataNow \/ LoadWindow \/ PostNtfy \/ WaitEnds \/ Ingest \/ SigTerm \/ Kill \/ Start)
  BY <1>1, <1>2 DEF Connect, DataNow, LoadWindow, PostNtfy, WaitEnds, Ingest, SigTerm, Kill, Start,
                    Ends, Ended
<1>8. ~PassFails
  BY <1>1 DEF PassFails
<1> QED
  BY <1>4, <1>6, <1>7, <1>8 DEF Next, Service

LEMMA Triple ==
  ASSUME NEW a, NEW b, NEW c
  PROVE  <<a, b>> \o <<c>> = <<a, b, c>>
<1> DEFINE X == {a, b, c}
<1>1. <<a, b>> \in Seq(X) /\ <<c>> \in Seq(X) /\ <<a, b, c>> \in Seq(X)
  OBVIOUS
<1>2. Len(<<a, b>>) = 2 /\ Len(<<c>>) = 1
  OBVIOUS
<1> DEFINE s == <<a, b>> \o <<c>>
<1>3. s \in Seq(X) /\ Len(s) = 3
  BY <1>1, <1>2
<1>4. s[1] = a /\ s[2] = b /\ s[3] = c
  BY <1>1, <1>2
<1> HIDE DEF s
<1>5. s = <<a, b, c>>
  BY <1>1, <1>3, <1>4
<1> QED
  BY <1>5 DEF s

LEMMA CompleteIsCurrent ==
  ASSUME AnalyticsInv, Next, PassCompletes, NEW p \in Pairs, SamplesOf(p) # <<>>
  PROVE  LET new   == ModelledOf(p)
             as_of == {k[3] : k \in {q \in DOMAIN forecasts' : <<q[1], q[2]>> = Place(p)}}
         IN  /\ new.as_of \in as_of /\ Largest(as_of) = new.as_of
             /\ forecasts'[Place(p) \o <<new.as_of>>].status = new.status
<1> DEFINE new   == ModelledOf(p)
           as_of == {k[3] : k \in {q \in DOMAIN forecasts' : <<q[1], q[2]>> = Place(p)}}
<1>0. TypeInv /\ PassInv /\ TableInv /\ NewestInv /\ DoneInv /\ TableStep
  BY TableSteps DEF AnalyticsInv
<1>1. pc \in Loop /\ Handled(p)
  BY <1>0, CompletedPass
<1>2. /\ new.status # "raised" /\ KeyOf(p) \in DOMAIN forecasts'
      /\ forecasts'[KeyOf(p)].status = new.status
  BY <1>0, <1>1, CurrentAfter
<1>3. Place(p) \o <<new.as_of>> = KeyOf(p)
  <2>1. \A a, b, c : <<a, b>> \o <<c>> = <<a, b, c>>
    BY Triple
  <2> HIDE DEF new
  <2> QED
    BY <2>1 DEF Place, KeyOf, new
<1>4. <<KeyOf(p)[1], KeyOf(p)[2]>> = Place(p) /\ KeyOf(p)[3] = new.as_of
  BY DEF Place, KeyOf
<1>5. new.as_of \in as_of
  BY <1>2, <1>4
<1>6. PICK r \in MineOf(p) : /\ new.as_of = r.at /\ r.at \in Time
                             /\ \A q \in MineOf(p) : q.at <= r.at
  BY <1>0, <1>2, PairFacts
<1>7. as_of \in SUBSET Time
  BY <1>0, TableTypes
<1>8. ASSUME NEW k \in DOMAIN forecasts', <<k[1], k[2]>> = Place(p)
      PROVE  k[3] <= new.as_of
  <2>0. k[3] \in Time /\ \A q \in MineOf(p) : q.at \in Time
    BY <1>0, TableTypes, WindowFacts DEF MineOf, Mine
  <2>1. CASE k \in DOMAIN forecasts
    <3>1. PICK q \in MineOf(p) : k[3] <= q.at
      BY <1>0, <1>1, <1>6, <1>8, <2>1 DEF NewestInv
    <3> HIDE DEF new
    <3> QED
      BY <1>6, <2>0, <3>1 DEF Time
  <2>2. CASE pc = "insert_forecast" /\ k = Key
    <3>1. First(todo) \in Pairs /\ fc = ModelledOf(First(todo))
          /\ <<Key[1], Key[2]>> = Place(First(todo)) /\ Key[3] = fc.as_of
      BY <1>0, <1>1, HeadFacts
    <3>2. p = First(todo)
      BY <1>8, <2>2, <3>1, PlaceFacts
    <3>3. k[3] = new.as_of
      BY <2>2, <3>1, <3>2
    <3> QED
      BY <2>0, <3>3 DEF Time
  <2> QED
    BY <1>0, <2>1, <2>2, TableEffect
<1>9. Largest(as_of) = new.as_of
  <2>1. \A t \in as_of : t <= new.as_of
    BY <1>8
  <2> HIDE DEF as_of, new
  <2> QED
    BY <1>5, <1>7, <2>1, LargestIs
<1> QED
  BY <1>2, <1>3, <1>5, <1>9

(* _INSERT_FORECAST: once a pass has completed, the newest forecast row of *)
(* every pair it read says what the model says of that pair now, also      *)
(* where a late reading has changed the status at an unmoved watermark.    *)
THEOREM PassesLeaveCurrent == Spec => CompletePassIsCurrent
<1> DEFINE Current ==
      PassCompletes =>
       \A p \in Pairs :
         Samples(window, now_data, PairAt(p)) # <<>> =>
           LET new   == Modelled(window, now_data, PairAt(p))
               place == <<PairAt(p).device_id, PairAt(p).metric.kind>>
               as_of == {k[3] : k \in {q \in DOMAIN forecasts' : <<q[1], q[2]>> = place}}
           IN  /\ new.as_of \in as_of /\ Largest(as_of) = new.as_of
               /\ forecasts'[place \o <<new.as_of>>].status = new.status
<1>1. AnalyticsInv /\ Next => Current
  BY CompleteIsCurrent DEF SamplesOf, ModelledOf, Place
<1>2. AnalyticsInv /\ [Next]_avars => [Current]_avars
  BY <1>1
<1>3. CompletePassIsCurrent <=> [][Current]_avars
  BY DEF CompletePassIsCurrent
<1> HIDE DEF Current
<1> QED
  BY AnalyticsInvariant, <1>2, <1>3, PTL DEF Spec

-----------------------------------------------------------------------------
(* The alert outbox.                                                       *)

OutboxDecision == [device_id: DeviceSet, kind: Kinds, state: {"firing", "cleared"},
                   as_of: {r.at : r \in Row}]
AsDecision(e) == [device_id |-> e.device_id, kind |-> e.kind, state |-> e.state, as_of |-> e.as_of]
Decided == [i \in DOMAIN alert_events |-> AsDecision(alert_events[i])]

LEMMA OutboxStep ==
  ASSUME AnalyticsInv, [Next]_avars
  PROVE  Outbox!Next \/ UNCHANGED <<Decided, pushes>>
<1>0. TypeInv /\ PassInv /\ TableInv /\ TableStep
  BY TableSteps DEF AnalyticsInv
<1>1. /\ \A i \in DOMAIN alert_events : SameDecision(alert_events'[i], alert_events[i])
      /\ DOMAIN alert_events' = DOMAIN alert_events \/ Records
  BY <1>0, TableEffect
<1>2. DOMAIN alert_events' = DOMAIN alert_events => UNCHANGED Decided
  BY <1>1 DEF SameDecision, Decided, AsDecision
<1>3. UNCHANGED pushes \/ PostNtfy
  BY <1>0, Steps DEF Idles, Leaves, Prepares, LoadWindow, Enters, Decides, Moves, Fires
<1>4. CASE Records
  <2>1. PICK n : n = Len(alert_events) + 1
    OBVIOUS
  <2>2. /\ DOMAIN alert_events' = DOMAIN alert_events \cup {n} /\ n \notin DOMAIN alert_events
        /\ IsHead(alert_events'[n]) /\ pc = "insert_alert_event" /\ NewDecision
    BY <1>4, <2>1 DEF Records
  <2>3. UNCHANGED pushes
    BY <1>3, <2>2 DEF PostNtfy
  <2>4. PICK d : d = AsDecision(alert_events'[n])
    OBVIOUS
  <2>5. /\ d = [device_id |-> Pair.device_id, kind |-> Pair.metric.kind, state |-> Transition,
                as_of |-> fc.as_of]
    BY <2>2, <2>4 DEF IsHead, AsDecision
  <2>6. d \in OutboxDecision
    <3>1. pc \in Loop /\ pc \in Loop \ {"insert_forecast"}
      BY <2>2 DEF Loop
    <3>2. Pair.device_id \in DeviceSet /\ Pair.metric.kind \in Kinds
      BY <1>0, <3>1, HeadFacts, PlaceFacts
    <3>3. Transition \in {"firing", "cleared"}
      BY <1>0, <3>1, TransitionValues DEF PassInv
    <3>4. fc.as_of \in {r.at : r \in Row}
      BY <1>0, <3>1, HeadFacts
    <3> QED
      BY <2>5, <3>2, <3>3, <3>4 DEF OutboxDecision
  <2>7. \A i \in DOMAIN Decided : Decided[i] # d
    BY <2>2, <2>5 DEF NewDecision, Decided, AsDecision
  <2>8. Decided' = Append(Decided, d)
    <3>1. DOMAIN alert_events = 1 .. Len(alert_events) /\ Len(alert_events) \in Nat
      BY <1>0, EventFacts
    <3>2. Decided \in Seq({Decided[i] : i \in DOMAIN Decided}) /\ Len(Decided) = Len(alert_events)
      <4>1. DOMAIN Decided = 1 .. Len(alert_events) /\ Decided = [i \in DOMAIN Decided |-> Decided[i]]
        BY <3>1 DEF Decided
      <4> DEFINE X == {Decided[i] : i \in DOMAIN Decided}
      <4>2. \A i \in DOMAIN Decided : Decided[i] \in X
        OBVIOUS
      <4> HIDE DEF X
      <4>3. Decided \in [1 .. Len(alert_events) -> X]
        BY <4>1, <4>2
      <4>4. Decided \in Seq(X) /\ Len(Decided) = Len(alert_events)
        BY <4>3, <3>1
      <4> QED
        BY <4>4 DEF X
    <3>3. Append(Decided, d) = [i \in 1 .. Len(Decided) + 1 |->
                                  IF i = Len(Decided) + 1 THEN d ELSE Decided[i]]
      <4> DEFINE X == {Decided[i] : i \in DOMAIN Decided} \cup {d}
                 a == Append(Decided, d)
                 b == [i \in 1 .. Len(Decided) + 1 |->
                         IF i = Len(Decided) + 1 THEN d ELSE Decided[i]]
      <4>1. Decided \in Seq(X) /\ d \in X /\ Len(Decided) \in Nat
        BY <3>2
      <4> HIDE DEF X
      <4>2. a \in Seq(X) /\ Len(a) = Len(Decided) + 1 /\ a[Len(Decided) + 1] = d
            /\ \A i \in 1 .. Len(Decided) : a[i] = Decided[i]
        BY <4>1
      <4>3. b \in Seq(X) /\ Len(b) = Len(Decided) + 1 /\ b[Len(Decided) + 1] = d
            /\ \A i \in 1 .. Len(Decided) : b[i] = Decided[i]
        BY <4>1
      <4> HIDE DEF a, b
      <4>4. \A i \in 1 .. Len(Decided) + 1 : a[i] = b[i]
        BY <4>1, <4>2, <4>3
      <4>5. a = b
        BY <4>1, <4>2, <4>3, <4>4
      <4> QED
        BY <4>5 DEF a, b
    <3>4. 1 .. Len(alert_events) + 1 = DOMAIN alert_events \cup {n}
      BY <2>1, <3>1
    <3>5. Decided' = [i \in DOMAIN alert_events \cup {n} |->
                        IF i = n THEN d ELSE Decided[i]]
      BY <1>1, <2>2, <2>4 DEF Decided, AsDecision, SameDecision
    <3> QED
      BY <2>1, <3>2, <3>3, <3>4, <3>5
  <2>9. Outbox!Decide(d)
    BY <2>3, <2>7, <2>8 DEF Outbox!Decide, Decided, AsDecision
  <2> QED
    BY <2>6, <2>9 DEF Outbox!Next, OutboxDecision
<1>5. CASE PostNtfy /\ pushes' # pushes
  <2>1. /\ pc = "post_ntfy" /\ pushes' = Append(pushes, event_id) /\ UNCHANGED alert_events
    BY <1>5 DEF PostNtfy, tables
  <2>2. /\ event_id \in DOMAIN alert_events /\ alert_events[event_id].state = "firing"
        /\ \A j \in DOMAIN pushes : pushes[j] # event_id
    BY <1>0, <2>1, EventFacts DEF PassInv, TypeInv, TypeOK, None
  <2>3. event_id \in DOMAIN Decided /\ Decided[event_id].state = "firing" /\ UNCHANGED Decided
    BY <2>1, <2>2 DEF Decided, AsDecision
  <2>4. Outbox!Deliver(event_id)
    BY <2>1, <2>2, <2>3 DEF Outbox!Deliver, Decided, AsDecision
  <2> QED
    BY <2>3, <2>4 DEF Outbox!Next, Decided, AsDecision
<1> QED
  BY <1>1, <1>2, <1>3, <1>4, <1>5 DEF PostNtfy, tables, Decided

(* _handle_alert implements the outbox: every run of the service, under    *)
(* failures, lost answers, kills and restarts, records each decision once, *)
(* and pushes it at most once, after recording it.                         *)
THEOREM AlertsRefineOutbox == Spec => AlertOutboxSpec
<1>1. Init => Outbox!Init
  <2> SUFFICES ASSUME Init PROVE Outbox!Init
    OBVIOUS
  <2>1. alert_events = <<>> /\ pushes = <<>>
    BY DEF Init
  <2>2. [i \in DOMAIN alert_events |->
          [device_id |-> alert_events[i].device_id, kind |-> alert_events[i].kind,
           state |-> alert_events[i].state, as_of |-> alert_events[i].as_of]] = <<>>
    BY <2>1
  <2> QED
    BY <2>1, <2>2 DEF Outbox!Init
<1>2. AnalyticsInv /\ [Next]_avars => [Outbox!Next]_(Outbox!ovars)
  BY OutboxStep DEF Outbox!ovars, Decided, AsDecision
<1> QED
  BY AnalyticsInvariant, <1>1, <1>2, PTL DEF Spec, AlertOutboxSpec, Outbox!Spec
===============================================================================
