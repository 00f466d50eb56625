SPECIFICATION Spec
CONSTANTS
  o1 = o1  r1 = r1  e1 = e1  e2 = e2  w1 = w1  w2 = w2
  None = None
  TotalTimeoutMs = 3
  Slots = 1
  Owner = {o1}
  RunId = {r1}
  RunSpec <- MCRunSpec
  EpisodeId = {e1, e2}
  RequestId = {1, 2}
  Submission <- MCSubmission
  WorkerId = {w1, w2}
  MaxAttemptId = 2
  Capacity = 2
  WorkerCapacity <- MCWorkerCapacity
  ResourceCapacity <- MCResourceCapacity
  ResourceNeed <- MCResourceNeed
  Compatible <- MCCompatible
  ClockLag <- MCClockLag
  LeaseMs = 2
  Result <- MCResultSet
  MaxTime = 2
  MaxCrashes = 1
INVARIANTS
  AtMostOnceExecution
  UnfinishedIsCurrent
  LedgersAgree
  UsageCarriesOver
  LiveDispatchHasSlot
CHECK_DEADLOCK FALSE
