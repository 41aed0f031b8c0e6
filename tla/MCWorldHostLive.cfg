\* Windows are answered or time out and runs come to rest: batches, reactions,
\* renames and restarts.  Control changes hands only while no window is open, and
\* realtime is off: with either, the timer of a window is lost and WindowsResolve
\* fails (MCWorldHostHandover.cfg, MCWorldHostRealtime.cfg).
SPECIFICATION FairSpec
CONSTANTS
  a1 = a1
  a2 = a2
  p1 = p1
  p2 = p2
  Observer = Observer
  Agents = {a1}
  Principals = {p1}
  maxActiveParticipants = 1
  runLeaseMaxCommits = 2
  Environment = {"batch", "transfer", "reaction", "crash", "rename"}
  MaxRevision = 2
  MaxRuns = 2
  MaxGeneration = 3
  MaxSchedulerGeneration = 3
  MaxIntents = 2
  MaxTitle = 1
CHECK_DEADLOCK FALSE
PROPERTIES
  RunsSettle
  WindowsResolve
  ArrivalKeepsWrites
