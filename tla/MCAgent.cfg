SPECIFICATION Spec
CONSTANTS
  c1 = c1  c2 = c2  c3 = c3
  CallId = {c1, c2, c3}
  ToolOf <- MCToolOf
  PythonTools = {"edit"}
  NativeTools = {"finish"}
  FinishTool = "finish"
  ArgumentsOf <- MCArgumentsOf
  PassedAs <- MCPassedAs
  MaxGenerations = 2
  MaxToolCalls = 2
  MaxOutputTokens = 2
  ConfiguredTokens = 1
  TokenBound = 2
  BatchBound = 2
INVARIANTS
  CompleteTraceAccounts
  AnswerIsBacked
  NothingAfterEnvironmentEnds
  HistoryIsRecorded
  CloseReachesEveryPart
PROPERTIES
  AgentHostEnds
CHECK_DEADLOCK FALSE
