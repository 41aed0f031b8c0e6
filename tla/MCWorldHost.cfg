\* Two players who take, leave and exchange two agents, with realtime ticks,
\* pauses, reactions and restarts.
SPECIFICATION Spec
CONSTANTS
  a1 = a1
  a2 = a2
  p1 = p1
  p2 = p2
  Observer = Observer
  Agents = {a1, a2}
  Principals = {p1, p2}
  maxActiveParticipants = 2
  runLeaseMaxCommits = 2
  Environment = {"transfer", "handover", "pause", "reaction", "crash", "realtime"}
  MaxRevision = 2
  MaxRuns = 2
  MaxGeneration = 3
  MaxSchedulerGeneration = 3
  MaxIntents = 2
  MaxTitle = 0
SYMMETRY Symmetry
CHECK_DEADLOCK FALSE
INVARIANTS
  TypeOK
  DocumentValid
  SingleLiveRun
  NoOrphanRun
  WindowMatchesRun
  RevisionsPartitioned
PROPERTIES
  RunsMoveForward
  ImplementsWorldLine
