SPECIFICATION Spec
CONSTANTS
  LastTime = 30
  Metric <- MCMetric
  Values = {1, 2, 3, 5, 6}
  Gaps = {1, 3}
  MaxSamples = 5
  MaxAhead = 4
INVARIANT ForecastTotal
CHECK_DEADLOCK FALSE
