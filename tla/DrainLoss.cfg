SPECIFICATION Spec
CONSTANTS
  DeviceId = {"p1"}
  MinTime = 0
  MaxTime = 2
  Msg = {"early", "late"}
  Wire <- MCWire
  FaultKinds = {"db"}
  MaxFaults = 2
  MaxStarts = 1
PROPERTY DrainKeepsBacklog
CHECK_DEADLOCK FALSE
