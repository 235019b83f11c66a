CONSTANTS
  Runs = {r1}
  Order <- MCOrder
  Options <- MCAllOptions
  MaxPlan = 4
  Keys = {"a", "b"}
  Names = {"a", "b", "B"}
  Main = {1, 2}
  Rest = {1}
  Desired <- MCDesired
  MaxInit = 2
  MaxId = 2
  World = {"create", "edit", "rename", "delete", "traffic"}
  Ignored = {"main"}
  FetchMayFail = TRUE
SPECIFICATION Spec
INVARIANTS
  TypeOK
  CleanRunConverges
PROPERTIES
  PruneSparesWantedAndBilled
  RerunMakesNoTwins
