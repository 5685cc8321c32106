SPECIFICATION FairSpec
CONSTANTS
  DeviceId = {"p1"}
  MinTime = 0
  MaxTime = 2
  Msg = {"late", "misplaced", "year1"}
  Wire <- MCWire
  FaultKinds = {"db", "link", "ack", "kill"}
  MaxFaults = 2
  MaxStarts = 2
INVARIANTS
  TypeOK
  CountersNotAhead
  DeadLettersPerFault
PROPERTIES
  BacklogSurvives
  StopEnds
  OwedIsWritten
  DeadLinkNoticed
\* The process may stop for good: after the last start nothing is owed.
CHECK_DEADLOCK FALSE
