SPECIFICATION Spec
CONSTANTS
  Requests <- MCContested
  Contested <- MCContested
  Trajectories <- MCTrajectories
  Returned <- MCReturned
  TextVerdict <- RuleVerdict
INVARIANT TimeoutIsReported
CHECK_DEADLOCK FALSE
