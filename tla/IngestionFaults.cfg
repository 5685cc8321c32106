SPECIFICATION Spec
CONSTANTS
  DeviceId = {"p1"}
  MinTime = 0
  MaxTime = 4
  Msg = {"early", "late", "respelt"}
  Wire <- MCWire
  FaultKinds = {"db", "link", "ack", "broker", "kill"}
  MaxFaults = 3
  MaxStarts = 2
INVARIANTS
  RegistryCovers
  RegistryConverges
  OneRowPerInstant
  NothingOwedWhenIdle
  HealthFollowsConnection
PROPERTIES
  NothingTakenBack
  EffectivelyOnceSpec
\* The process may stop for good: after the last start nothing is owed.
CHECK_DEADLOCK FALSE
