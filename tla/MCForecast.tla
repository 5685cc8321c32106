------------------------------- MODULE MCForecast -----------------------------
(* A metric small enough for every gate of forecast() to be passed and      *)
(* failed by series of five samples.                                        *)
EXTENDS ForecastSeries

MCMetric ==
  [kind |-> "water", target |-> 1, refill_jump |-> 3, min_points |-> 3,
   min_span_seconds |-> 3, max_fit_points |-> 5, lookback_seconds |-> 7,
   gap_factor |-> 2, stale_after_seconds |-> 1, max_horizon_seconds |-> 4,
   alert_horizon_seconds |-> 2]
===============================================================================
