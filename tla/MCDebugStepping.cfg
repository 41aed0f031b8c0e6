\* Two runs over four stages, a restart and one damaged execution.
SPECIFICATION FairSpec
CONSTANTS
  LastStage = 3
  ReactionStage = 2
  MaxRuns = 2
  MaxBoundaries = 2
  MaxExecutions = 4
  MaxGeneration = 3
  MaxRestarts = 1
  MaxDamaged = 1
CHECK_DEADLOCK FALSE
INVARIANTS
  TypeOK
  CheckpointLeadsOn
  OneAtWork
PROPERTIES
  ImplementsStepLine
  StepsSettle
