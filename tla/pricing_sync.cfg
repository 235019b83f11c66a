SPECIFICATION Spec
CONSTANTS
  Runs = {r1}
  Order <- MCOrder
  Options <- MCOptions
  MaxPlan = 2
  Models = {"a", "z"}
  Prices = {1, 2}
  ratioKeys <- MCRatioKeys
  Desired <- MCDesired
  Garbage = Garbage
  Unread = Unread
  Editing = TRUE
  ReadMayFail = TRUE
INVARIANTS TypeOK CleanRunConverges
PROPERTIES DesiredPricesStay
