SPECIFICATION ToolSpec
CONSTANTS
  t1 = t1  t2 = t2  h1 = h1  h2 = h2
  Call <- MCCall
  Task = {t1, t2}
  Thread = {h1, h2}
  Table <- MCTable
  LateSpawn = TRUE
INVARIANTS
  NoWriterSurvivesFreeze
CHECK_DEADLOCK FALSE
