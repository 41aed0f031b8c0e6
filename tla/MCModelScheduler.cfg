\* Five requests of three workloads over two providers, a queue of three.
CONSTANTS
  a1 = a1  a2 = a2  b1 = b1  b2 = b2  c1 = c1
  A = A  B = B  C = C  P = P  Q = Q
  Jobs = {a1, a2, b1, b2, c1}
  Workloads = {A, B, C}
  Providers = {P, Q}
  workloadOf <- MixedWorkloads
  providerOf <- MixedProviders
  globalConcurrency = 2
  maxQueuedRequests = 3
  providerConcurrency <- MixedLimits
  Resubmits = FALSE

SPECIFICATION FairSpec

INVARIANTS TypeOK ConcurrencyCaps CountersExact LanesExact WorkConserving
PROPERTY QueueDrains

\* Every request may have ended.
CHECK_DEADLOCK FALSE
