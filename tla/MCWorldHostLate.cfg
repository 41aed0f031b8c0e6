\* A submission between the deadline of its window and the start of the run.
SPECIFICATION Spec
CONSTANTS
  a1 = a1
  a2 = a2
  p1 = p1
  p2 = p2
  Observer = Observer
  Agents = {a1}
  Principals = {p1}
  maxActiveParticipants = 1
  runLeaseMaxCommits = 2
  Environment = {"transfer", "overlap"}
  MaxRevision = 2
  MaxRuns = 2
  MaxGeneration = 3
  MaxSchedulerGeneration = 3
  MaxIntents = 2
  MaxTitle = 0
CHECK_DEADLOCK FALSE
INVARIANT IntentsExecutedOnce
