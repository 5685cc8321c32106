SPECIFICATION Spec
CONSTANTS
  LastTime = 10000
  Metric <- MCMetric
  Values = {1, 3, 4, 5, 6}
  Gaps = {1, 3}
  MaxSamples = 5
  MaxAhead = 4
INVARIANTS
  CrossingInvariant
  OldTankForgotten
  GlitchTolerated
  SlowFleetNotStale
  TruncationAdmitted
\* A series stops growing at its bound.
CHECK_DEADLOCK FALSE
