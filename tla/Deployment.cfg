SPECIFICATION FairSpec
CONSTANTS
  Chain <- MCChain
  Roles = {"grafana_reader"}
  Emissions = 3
  MaxQueued = 2
  MaxInflight = 1
  Attempts = 2
  MaxCuts = 1
INVARIANTS
  TypeOK
  NeverRefused
  VersionHonest
  IngestionNeverRacesSchema
  NothingLostUnlogged
  AtMostOneStrayBeat
PROPERTIES
  RunReachesHead
  HeldReachesIngestion
\* The bounds end a behaviour.
CHECK_DEADLOCK FALSE
