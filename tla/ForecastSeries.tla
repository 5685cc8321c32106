----------------------------- MODULE ForecastSeries ---------------------------
(***************************************************************************)
(* One device's series as it grows sample by sample, the fleet's newest    *)
(* instant as it moves with it or ahead of it, and the forecast the        *)
(* service asks of model.py in each such state.                            *)
(***************************************************************************)
EXTENDS Forecast

CONSTANTS Metric,       \* the record of model.Metric
          Values,       \* the values a device reports
          Gaps,         \* the times between two of its reports
          MaxSamples,   \* bound: samples in a series
          MaxAhead      \* bound: how far the fleet runs ahead of the device

ASSUME SeriesAssumption ==
  /\ Values \subseteq Int
  /\ Gaps \subseteq Nat \ {0}
  /\ {Metric.target, Metric.refill_jump, Metric.min_points,
      Metric.min_span_seconds, Metric.max_horizon_seconds} \subseteq Int
  /\ {Metric.lookback_seconds, Metric.stale_after_seconds} \subseteq Nat
  /\ {Metric.max_fit_points, Metric.gap_factor} \subseteq Nat \ {0}
  /\ {MaxSamples, MaxAhead} \subseteq Nat

VARIABLES samples, now

svars == <<samples, now>>

Newest == samples[Len(samples)]

Sample(at, v) == [at |-> at, value |-> v, finite |-> TRUE, aware |-> TRUE]

Init ==
  /\ \E v \in Values : samples = <<Sample(1, v)>>
  /\ now = 1

Grow(sample) ==
  /\ Len(samples) < MaxSamples
  /\ ValidSeries(samples)
  /\ samples' = Append(samples, sample)
  /\ now' = Largest({now, sample.at})

Report ==
  \E v \in Values, g \in Gaps : Grow(Sample(Newest.at + g, v))

(* A sample the database could not hold: twice the same instant, not a     *)
(* number, or without an offset.                                           *)
MalformedReport ==
  \/ Grow(Sample(Newest.at, Newest.value))
  \/ Grow([Sample(Newest.at + 1, Newest.value) EXCEPT !.finite = FALSE])
  \/ Grow([Sample(Newest.at + 1, Newest.value) EXCEPT !.aware = FALSE])

FleetReports ==
  /\ now < Newest.at + MaxAhead
  /\ now' = now + 1
  /\ UNCHANGED samples

Next == Report \/ MalformedReport \/ FleetReports

Spec == Init /\ [][Next]_svars

-------------------------------------------------------------------------------
(* What run_pass hands to the model.                                       *)

WindowStart == now - Metric.lookback_seconds

(* s.at > window_start, of samples that come in order of time.             *)
Recent == {i \in DOMAIN samples : samples[i].at > WindowStart}
Window == SubSeq(samples, Smallest(Recent \cup {Len(samples) + 1}), Len(samples))

Fc == forecast(Window, Metric, now, WindowStart)

HasFit(fc) == fc.status \in {"ok", "beyond_horizon", "not_depleting"}

-------------------------------------------------------------------------------

(* A forecast names a crossing exactly in the three statuses that promise  *)
(* one, never in the past of the newest sample, and inside its own band;   *)
(* the late end is open when the shallowest slope does not fall            *)
(* (model.py: Status, _crossing, forecast).                                *)
CrossingInvariant ==
  LET fc == Fc
  IN  /\ fc.status \in Status
      /\ fc.crosses_at # None <=> fc.status \in CROSSING_STATUSES
      /\ fc.crosses_at # None =>
           /\ fc.as_of <= fc.crosses_at_earliest
           /\ fc.crosses_at_earliest <= fc.crosses_at
           /\ fc.crosses_at_latest # None => fc.crosses_at <= fc.crosses_at_latest

(* Nothing measured before the last refill or gap is used: with the older  *)
(* values replaced by any other from which the newest segment still steps  *)
(* up, the forecast is the same (model.py, forecast: "never a fallback to  *)
(* the one before it").                                                    *)
OldTankForgotten ==
  ValidSeries(Window) /\ Window # <<>> =>
    LET start == Largest(SegmentStarts(Window, Metric))
        fc    == Fc
        Older(v) == [i \in DOMAIN Window |->
                       IF i < start THEN [Window[i] EXCEPT !.value = v] ELSE Window[i]]
    IN  start > 1 =>
          \A v \in Values :
            Window[start].value - v >= Metric.refill_jump =>
              forecast(Older(v), Metric, now, WindowStart) = fc

(* The line from i through j, in a series, holds at k. *)
Collinear(s, i, j, k) ==
  (s[k].value - s[i].value) * (s[j].at - s[i].at)
    = (s[j].value - s[i].value) * (s[k].at - s[i].at)

(* On a falling ramp with at most one glitch among five points or more, the *)
(* crossing is that of the ramp (model.py, theil_sen: "the median of       *)
(* pairwise slopes tolerates ~29 % contamination and still answers         *)
(* correctly").  The glitch may be any point, but not of any size: a rise  *)
(* of refill_jump or more is a refill to the code, splits the segment      *)
(* (SegmentStarts), and is not tolerated.                                  *)
GlitchTolerated ==
  Len(Window) >= 5 /\ Fc.status \in {"ok", "beyond_horizon"}
    /\ SegmentStarts(Window, Metric) = {1} /\ Len(Window) <= Metric.max_fit_points =>
    \A i, j \in DOMAIN Window :
      LET a == Window[i]
          b == Window[j]
          ramp == {k \in DOMAIN Window : Collinear(Window, i, j, k)}
      IN  i < j /\ Cardinality(ramp) >= Len(Window) - 1 =>
            Fc.crosses_at = crossing(Minus(Q(a.value, 1),
                                           Times(Slope(a, b), a.at - Fc.as_of)),
                                     Metric.target, Slope(a, b), Fc.as_of)

(* A device that keeps its own regular pace is not called dark for being   *)
(* up to one of its own check-ins behind the fleet (model.py, forecast:    *)
(* "on a slow fleet every other device is legitimately one cadence behind  *)
(* it").                                                                   *)
SlowFleetNotStale ==
  \A g \in Gaps :
    /\ Len(Window) >= 2
    /\ ValidSeries(Window)
    /\ \A i \in Pairwise(Window) : Gap(Window, i) = g
    /\ now - Newest.at <= g
    => Fc.status # "stale"

(* A fit whose segment the lookback window has cut short says so: if the   *)
(* sample before the window belongs to the same segment, the fit is marked *)
(* truncated (model.py, forecast: "At the edge is one gap-limit of slack").*)
TruncationAdmitted ==
  LET cut == Len(samples) - Len(Window)
      fc  == Fc
  IN  /\ HasFit(fc)
      /\ SegmentStarts(Window, Metric) = {1}
      /\ cut > 0
      /\ ~ExceedsGapLimit(Window, Window[1].at - samples[cut].at, Metric.gap_factor)
      => fc.truncated

(* model.py: "Total by construction": a malformed series is an answer, not *)
(* an exception, and analytics/service.py treats any other exception as a  *)
(* bug "that should crash loudly".                                         *)
ForecastTotal == Fc.status # "raised"
===============================================================================
