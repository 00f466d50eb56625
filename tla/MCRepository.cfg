SPECIFICATION ServerSpec
CONSTANTS
  o1 = o1  o2 = o2  r1 = r1  e1 = e1  e2 = e2  e3 = e3  w1 = w1  w2 = w2
  None = None
  Owner = {o1, o2}
  RunId = {r1}
  RunSpec <- MCRunSpec
  EpisodeId = {e1, e2, e3}
  RequestId = {1, 2, 3}
  Submission <- MCSubmission
  WorkerId = {w1, w2}
  MaxAttemptId = 2
  Capacity = 2
  WorkerCapacity <- MCWorkerCapacity
  ResourceCapacity <- MCResourceCapacity
  ResourceNeed <- MCResourceNeed
  Compatible <- MCCompatible
  LeaseMs = 2
  Result <- MCResultSet
  MaxTime = 3
INVARIANTS
  TypeOK
  CapacityRespected
  WorkerReservations
  ReceiptCoversBatch
  OneLeasePerAttempt
  RetryChain
  NotifiedExactlyOnce
  RetryGrantsNoTime
PROPERTIES
  SettledIsFinal
  ImplementsContract
CHECK_DEADLOCK FALSE
