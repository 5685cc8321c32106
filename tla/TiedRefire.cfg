SPECIFICATION Spec
CONSTANTS
  LastTime = 1000
  Devices <- MCDevices
  Metrics <- WaterOnly
  Row <- DryAgain
  History <- Before
  Cooldown = 3
  Ntfy = TRUE
  MaxFaults = 1
  MaxStarts = 1
INVARIANT
  RepeatsAfterCooldown
CHECK_DEADLOCK FALSE
