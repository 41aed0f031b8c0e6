\* Callers that come back, one provider, one request at a time.
CONSTANTS
  a1 = a1  a2 = a2  b1 = b1  b2 = b2  c1 = c1
  A = A  B = B  C = C  P = P  Q = Q
  Jobs = {a1, a2, b1, c1}
  Workloads = {A, B, C}
  Providers = {P}
  workloadOf <- OneJobEach
  providerOf <- SingleProvider
  globalConcurrency = 1
  maxQueuedRequests = 3
  providerConcurrency <- SingleLimit
  Resubmits = TRUE

SPECIFICATION HistorySpec

INVARIANT FairRotation
CHECK_DEADLOCK FALSE
