SPECIFICATION Spec
CONSTANTS
  Requests <- MCRequests
  Contested <- MCContested
  Trajectories <- MCTrajectories
  Returned <- MCReturned
  TextVerdict <- RuleVerdict
INVARIANTS
  RulesKeepTheirPromises
  OkScoreIsBacked
PROPERTIES
  ScoringEnds
CHECK_DEADLOCK FALSE
