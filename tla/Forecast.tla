-------------------------------- MODULE Forecast ------------------------------
(***************************************************************************)
(* The forecasting core (analytics/model.py): a device's samples in, a     *)
(* dated crossing or an honest status out, and the alert rule.  All pure.  *)
(*                                                                         *)
(* Times are ticks since some first instant, values are integers.  What    *)
(* the code computes in floating point is computed here exactly, as        *)
(* fractions; a crossing time is rounded to a tick as timedelta rounds to  *)
(* a microsecond.  A sample may be malformed: not a finite number, or      *)
(* without a UTC offset.                                                   *)
(***************************************************************************)
EXTENDS Integers, Sequences, FiniteSets

CONSTANT LastTime     \* the last instant a Python datetime can hold

ASSUME LastTimeAssumption == LastTime \in Nat

None == -1            \* no time, no value
Time == 0 .. LastTime

Largest(S)  == CHOOSE x \in S : \A y \in S : x >= y
Smallest(S) == CHOOSE x \in S : \A y \in S : x <= y

(* Fractions with a positive denominator. *)
Q(n, d)      == [n |-> n, d |-> d]
Leq(p, q)    == p.n * q.d <= q.n * p.d
Less(p, q)   == p.n * q.d < q.n * p.d
Minus(p, q)  == Q(p.n * q.d - q.n * p.d, p.d * q.d)
Times(p, k)  == Q(p.n * k, p.d)
Mean(p, q)   == Q(p.n * q.d + q.n * p.d, 2 * p.d * q.d)

-------------------------------------------------------------------------------
(* statistics.median, over a finite family v of fractions.                 *)

(* The element of rank k, from 0, in sorted order. *)
Ranked(v, k) ==
  CHOOSE x \in {v[i] : i \in DOMAIN v} :
    /\ Cardinality({i \in DOMAIN v : Less(v[i], x)}) <= k
    /\ Cardinality({i \in DOMAIN v : Leq(v[i], x)}) > k

median(v) ==
  LET m == Cardinality(DOMAIN v)
  IN  IF m % 2 = 1 THEN Ranked(v, m \div 2)
      ELSE Mean(Ranked(v, m \div 2 - 1), Ranked(v, m \div 2))

-------------------------------------------------------------------------------
(* Series.                                                                 *)

Pairwise(s) == 1 .. Len(s) - 1      \* i stands for (s[i], s[i + 1])
Gap(s, i)   == s[i + 1].at - s[i].at

ValidSeries(s) ==
  /\ \A i \in DOMAIN s : s[i].finite /\ s[i].aware
  /\ \A i \in Pairwise(s) : Gap(s, i) > 0

(* The median gap, for a series that has one. *)
HasCadence(s)      == \E i \in Pairwise(s) : Gap(s, i) > 0
cadence_seconds(s) == median([i \in {j \in Pairwise(s) : Gap(s, j) > 0} |->
                                Q(Gap(s, i), 1)])

(* Whether a duration exceeds gap_factor cadences. *)
ExceedsGapLimit(s, duration, factor) ==
  HasCadence(s) /\ Less(Times(cadence_seconds(s), factor), Q(duration, 1))

(* split_segments, as the positions where a segment starts: at a refill,   *)
(* and after an implausible gap.                                           *)
SegmentStarts(s, metric) ==
  {1} \cup {i + 1 : i \in {j \in Pairwise(s) :
                     \/ s[j + 1].value - s[j].value >= metric.refill_jump
                     \/ ExceedsGapLimit(s, Gap(s, j), metric.gap_factor)}}

-------------------------------------------------------------------------------
(* theil_sen.                                                              *)

MinFitPoints == 3

Slope(a, b) == Q(b.value - a.value, b.at - a.at)

Slopes(s) ==
  [p \in {q \in (DOMAIN s) \X (DOMAIN s) : q[1] < q[2] /\ s[q[1]].at # s[q[2]].at}
     |-> Slope(s[p[1]], s[p[2]])]

(* The confidence interval's half-width over the sorted slopes of n points *)
(* is z * sqrt(n(n-1)(2n+5)/18), with z the normal quantile at 97.5 %.     *)
SpreadAtMost(n, x) == x >= 0 /\ x * x * 180000 >= 38415 * n * (n - 1) * (2 * n + 5)

RankLow(n, m)  == Largest({0} \cup {k \in 0 .. m - 1 : SpreadAtMost(n, m - 2 * k)})
RankHigh(n, m) == Smallest({m - 1} \cup {k \in 0 .. m - 1 : SpreadAtMost(n, 2 * k - m)})

(* Mutant: the anchor's own value instead of the fitted one.               *)
BugNoIntercept(s, slope) == Q(s[Len(s)].value, 1)

(* The fitted value at the newest sample. *)
Intercept(s, slope) ==
  median([i \in DOMAIN s |->
            Minus(Q(s[i].value, 1), Times(slope, s[i].at - s[Len(s)].at))])

theil_sen(s) ==
  LET v == Slopes(s)
      m == Cardinality(DOMAIN v)
  IN  [slope |-> median(v),
       low   |-> Ranked(v, RankLow(Len(s), m)),
       high  |-> Ranked(v, RankHigh(Len(s), m)),
       value_at_anchor |-> Intercept(s, median(v))]

-------------------------------------------------------------------------------
(* _crossing.                                                              *)

(* Half to even, as timedelta rounds. *)
Rounded(q) ==
  LET f == q.n \div q.d
      r == 2 * (q.n % q.d)
  IN  IF r < q.d \/ (r = q.d /\ f % 2 = 0) THEN f ELSE f + 1

Never(slope) == slope.n >= 0

(* Mutant: no clamp at the anchor.                                         *)
BugUnclamped(value_now, target, slope) ==
  LET above == Minus(value_now, Q(target, 1))
  IN  Rounded(Q(above.n * slope.d, above.d * (-slope.n)))

(* Ticks from the anchor until a falling line reaches target. *)
HoursAhead(value_now, target, slope) ==
  LET above == Minus(value_now, Q(target, 1))
  IN  IF above.n <= 0 THEN 0
      ELSE Rounded(Q(above.n * slope.d, above.d * (-slope.n)))

crossing(value_now, target, slope, anchor) ==
  IF Never(slope) THEN None
  ELSE anchor + HoursAhead(value_now, target, slope)

-------------------------------------------------------------------------------
(* forecast.                                                               *)

CROSSING_STATUSES == {"ok", "beyond_horizon", "at_or_below_target"}

Status == CROSSING_STATUSES \cup
  {"no_data", "stale", "invalid_series", "insufficient_points",
   "insufficient_span", "not_depleting"}

(* A Forecast; "raised" stands for an exception instead of a value.        *)
Dated(status, as_of, at, earliest, latest, truncated) ==
  [status |-> status, as_of |-> as_of, crosses_at |-> at,
   crosses_at_earliest |-> earliest, crosses_at_latest |-> latest,
   truncated |-> truncated]

no_crossing(status, as_of) == Dated(status, as_of, None, None, None, FALSE)

Overflow == no_crossing("raised", None)

(* Mutant: the staleness limit does not adapt to the cadence.              *)
BugFixedLimit(s, metric, now) == now - s[Len(s)].at > metric.stale_after_seconds

(* Older than the floor and than gap_factor of the device's own cadences.  *)
IsStale(s, metric, now) ==
  LET age == now - s[Len(s)].at
  IN  /\ age > metric.stale_after_seconds
      /\ HasCadence(s) => ExceedsGapLimit(s, age, metric.gap_factor)

(* Mutant: too short a newest segment falls back to the one before it.     *)
BugFallBack(s, metric) ==
  LET starts == SegmentStarts(s, metric)
      newest == Largest(starts)
      before == Largest({1} \cup (starts \ {newest}))
  IN  IF Len(s) - newest + 1 < metric.min_points
      THEN SubSeq(s, before, newest - 1) ELSE SubSeq(s, newest, Len(s))

NewestSegment(s, metric) == SubSeq(s, Largest(SegmentStarts(s, metric)), Len(s))

(* Mutant: only a sample on the very edge counts.                          *)
BugNoSlack(s, metric, window_start) ==
  /\ SegmentStarts(s, metric) = {1}
  /\ s[1].at <= window_start + 1

(* Whether the lookback edge, not the device's history, chose where the    *)
(* newest segment starts. *)
Truncated(s, metric, window_start) ==
  /\ SegmentStarts(s, metric) = {1}
  /\ IF HasCadence(s) THEN ~ExceedsGapLimit(s, s[1].at - window_start, metric.gap_factor)
     ELSE s[1].at <= window_start

(* The line through the newest segment, extrapolated. *)
Extrapolated(fit_samples, s, metric, window_start) ==
  LET fit    == theil_sen(fit_samples)
      anchor == s[Len(s)].at
      At(slope) == crossing(fit.value_at_anchor, metric.target, slope, anchor)
      dates  == {At(fit.slope), At(fit.low), At(fit.high)}
      cut    == Truncated(s, metric, window_start)
  IN  IF At(fit.slope) = None
      THEN Dated("not_depleting", anchor, None, None, None, cut)
      ELSE IF \E t \in dates : t > LastTime THEN Overflow
      ELSE Dated(IF At(fit.slope) - anchor > metric.max_horizon_seconds
                 THEN "beyond_horizon" ELSE "ok",
                 anchor, At(fit.slope), At(fit.low), At(fit.high), cut)

(* forecast(samples, metric, now_data_time, window_start); the order of    *)
(* the tests is the code's. *)
forecast(s, metric, now, window_start) ==
  IF s = <<>> THEN no_crossing("no_data", None)
  ELSE LET newest == s[Len(s)]
       IN  IF ~ValidSeries(s)
           THEN no_crossing("invalid_series",
                            IF newest.aware THEN newest.at ELSE None)
           ELSE IF IsStale(s, metric, now) THEN no_crossing("stale", newest.at)
           ELSE IF newest.value <= metric.target
           THEN Dated("at_or_below_target", newest.at, newest.at, newest.at,
                      newest.at, FALSE)
           ELSE LET segment == NewestSegment(s, metric)
                    first   == Largest({1, Len(segment) - metric.max_fit_points + 1})
                    fitted  == SubSeq(segment, first, Len(segment))
                IN  IF Len(segment) < metric.min_points
                    THEN no_crossing("insufficient_points", newest.at)
                    ELSE IF newest.at - fitted[1].at < metric.min_span_seconds
                    THEN no_crossing("insufficient_span", newest.at)
                    ELSE IF Len(fitted) < MinFitPoints
                    THEN no_crossing("insufficient_points", newest.at)
                    ELSE Extrapolated(fitted, s, metric, window_start)

-------------------------------------------------------------------------------
(* alert_transition.                                                       *)

(* The latest recorded decision of a (device, kind): a state and its as_of. *)
Undecided == [state |-> "none", as_of |-> None]

(* clear_factor = 1.5. *)
Recovered(horizon, metric) == 2 * horizon > 3 * metric.alert_horizon_seconds

Horizon(fc) == Largest({fc.crosses_at - fc.as_of, 0})

alert_transition(fc, metric, previous, cooldown) ==
  IF fc.crosses_at = None \/ fc.as_of = None THEN "nothing"
  ELSE IF Horizon(fc) <= metric.alert_horizon_seconds
  THEN IF \/ previous.state \in {"none", "cleared"}
          \/ fc.as_of - previous.as_of >= cooldown
       THEN "firing" ELSE "nothing"
  ELSE IF previous.state = "firing" /\ Recovered(Horizon(fc), metric)
  THEN "cleared" ELSE "nothing"
===============================================================================
