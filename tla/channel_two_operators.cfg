CONSTANTS
  Runs = {r1, r2}
  Order <- MCOrder
  Options <- MCPrune
  MaxPlan = 4
  Keys = {"b"}
  Names = {"b", "B"}
  Main = {1, 2}
  Rest = {1, 2}
  Desired <- MCOne
  MaxInit = 1
  MaxId = 3
  World = {}
  Ignored = {"main", "rest"}
  FetchMayFail = TRUE
SPECIFICATION Spec
INVARIANTS CleanRunConverges
PROPERTIES PromiseKept
