SPECIFICATION Spec
CONSTANTS
  DeviceId = {"p1"}
  MinTime = 0
  MaxTime = 2
  Msg = {"late"}
  Wire <- MCWire
  FaultKinds = {"link"}
  MaxFaults = 2
  MaxStarts = 1
PROPERTY SubscribeKeepsQueue
CHECK_DEADLOCK FALSE
