SPECIFICATION FairSpec
CONSTANTS
  o1 = o1  r1 = r1  e1 = e1  e2 = e2  w1 = w1  w2 = w2
  None = None
  TotalTimeoutMs = 9
  Slots = 2
  Owner = {o1}
  RunId = {r1}
  RunSpec <- MCRunSpec
  EpisodeId = {e1, e2}
  RequestId = {1, 2}
  Submission <- MCSubmission
  WorkerId = {w1}
  MaxAttemptId = 2
  Capacity = 2
  WorkerCapacity <- MCWorkerCapacity
  ResourceCapacity <- MCResourceCapacity
  ResourceNeed <- MCResourceNeed
  Compatible <- MCCompatibleW1
  ClockLag <- MCClockLag
  LeaseMs = 1
  Result <- MCResultSet
  MaxTime = 1
  MaxCrashes = 0
PROPERTY EveryResultIsSent
CHECK_DEADLOCK FALSE
