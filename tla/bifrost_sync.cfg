SPECIFICATION Spec
CONSTANTS
  Runs = {r1}
  Order <- MCOrder
  Options <- MCOptions
  MaxPlan = 2
  Ids <- MCIds
  Settings = {0, 1}
  Desired <- MCDesired
  Absent = {"routing-rule"}
  Unresolved = {"p"}
  Unfetched = Unfetched
  World = {"q"}
  FetchMayFail = TRUE
  MayDie = TRUE
INVARIANTS
  TypeOK
  CleanRunConverges
PROPERTIES
  CleanPruneLeavesNoExtras
  RulesFollowProviders
  SparesTheUnmanaged
