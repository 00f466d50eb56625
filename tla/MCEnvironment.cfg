SPECIFICATION Spec
CONSTANTS
  t1 = t1  h1 = h1
  Call <- MCCall
  Task = {t1}
  Thread = {h1}
  Table <- MCTable
  LateSpawn = FALSE
INVARIANTS
  NoWriterSurvivesFreeze
  SnapshotIsFinal
PROPERTIES
  FrozenSessionIsFinal
  FreezeReturns
  CloseReachesEnvironment
CHECK_DEADLOCK FALSE
