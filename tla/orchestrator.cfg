CONSTANTS
  Runs = {r1}
  Order <- MCOrder
  Options <- MCOptions
  MaxPlan = 2
  MaxLog = 2
SPECIFICATION FairSpec
INVARIANTS
  TypeOK
  CountersMatchResults
  FailFastStops
  DependencyOrder
  ZeroExitMeansNoFailure
  AuditTellsOfRuns
PROPERTY FailedRunsAreAlerted
