SPECIFICATION Spec
CONSTANTS
  DeviceCount = 2
  Interval = 4
  Phase = {0, 2}
  Jitter = {5}
  MissedRate = TRUE
  MalformedRate = FALSE
  DuplicateRate = TRUE
  OutOfOrderRate = TRUE
  MaxWakes <- MCWakes
INVARIANTS
  LateWithinThree
  InstantsFollowWakes
  HeldNotSent
PROPERTIES
  DuplicateFollowsOriginal
  FleetInOrder
\* A series ends at its bound.
CHECK_DEADLOCK FALSE
