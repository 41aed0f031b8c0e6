\* Two processes, two executions, one failure of a write.
SPECIFICATION Spec
CONSTANTS
  p1 = p1
  p2 = p2
  e1 = e1
  e2 = e2
  None = None
  Processes = {p1, p2}
  Executions = {e1, e2}
  MaxGeneration = 3
  MaxEmitted = 2
  MaxPendingExecutionEvents = 2
  MaxFaults = 1
  MaxOpenings = 3
  SuspendInBegin = FALSE
SYMMETRY Symmetry
CHECK_DEADLOCK FALSE
INVARIANTS
  TypeOK
  CommitEndsExecution
  GenerationNamesContent
  TraceInOrder
  NothingInterrupted
PROPERTIES
  EndsOnce
  WritesFenced
  NoLostUpdate
  ImplementsLedger
