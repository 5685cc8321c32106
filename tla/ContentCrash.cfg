SPECIFICATION Spec
CONSTANTS
  DeviceId = {"p1"}
  MinTime = 0
  MaxTime = 2
  Msg = {"year1"}
  Wire <- MCWire
  FaultKinds = {"db"}
  MaxFaults = 0
  MaxStarts = 1
INVARIANT NeverCrashesOnContent
CHECK_DEADLOCK FALSE
