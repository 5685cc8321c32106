SPECIFICATION FairSpec
CONSTANTS
  LastTime = 15
  Devices <- MCDevices
  Metrics <- WaterOnly
  Row <- Rebound
  History <- Before
  Cooldown = 3
  Ntfy = TRUE
  MaxFaults = 2
  MaxStarts = 2
INVARIANTS
  TypeOK
  StandingAlertQuiet
  AlertsNotOvercounted
PROPERTIES
  AlertOutboxSpec
  CompletePassIsCurrent
  NewestIsForecast
\* The process may end for good.
CHECK_DEADLOCK FALSE
