SPECIFICATION MCSpec
CONSTANTS
  Models <- MCModels
  SharedModels <- MCShared
  Protos <- MCProtos
  PublishedSchema <- SplitSchema
  FieldDictionary <- Dictionary
  ToolInputs <- MCToolInputs
  ToolOutputs <- MCToolOutputs
  Catalog <- MCCatalog
  Builds <- MCBuilds
  MaxGenerations = 2
  MaxToolCalls = 1
  MaxOutputTokens = 2
  ConfiguredTokens = 1
  Consumed <- MCConsumed
  TokenBound = 2
  MaxFaults = 1
  MaxCrashes = 1
CONSTRAINT FewFailedCloses
INVARIANTS
  BuildIsComplete
  SchemasAreConsistent
  PlanFollowsRun
  MaterialArrives
  ResultIsHonest
  UsageIsConservative
CHECK_DEADLOCK FALSE
