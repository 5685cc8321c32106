SPECIFICATION Spec
CONSTANTS
  LastTime = 1000
  Devices <- MCDevices
  Metrics <- WaterOnly
  Row <- LateB
  History <- Nothing
  Cooldown = 3
  Ntfy = TRUE
  MaxFaults = 0
  MaxStarts = 1
PROPERTY
  SkipLosesNothing
CHECK_DEADLOCK FALSE
