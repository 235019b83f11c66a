CONSTANTS
  Services = {"new-api", "bifrost"}
  Resources = {"a", "b"}
  Home <- MCHome
  Mistakable = {"b"}
  Options <- MCOptions
  MaxCopies = 3
  MaxRuns = 2
SPECIFICATION FairSpec
INVARIANTS TypeOK SyncedMeansConfigured
PROPERTIES WritesOnlyWhenReady RunEnds
