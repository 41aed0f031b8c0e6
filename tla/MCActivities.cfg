\* Three agents who forge and ride for four seconds.
SPECIFICATION Spec
CONSTANTS
  horse = horse
  forge = forge
  Agents = {1, 2, 3}
  External = {3}
  Pools = {horse, forge}
  Capacity <- MCCapacity
  Contention <- MCContention
  PausedRetention = {forge}
  Works <- MCWorks
  Timers <- MCTimers
  MaxAutonomousSpan = 3
  MaxElapsed = 4
CHECK_DEADLOCK FALSE
INVARIANTS
  TypeOK
  CapacityRespected
  NoIdleCapacity
  DecisionsFree
  PausedMayDecide
  AdmissionsStable
PROPERTIES
  NoOvertaking
  NothingSkipped
