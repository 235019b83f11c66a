SPECIFICATION Spec
CONSTANTS
  Runs = {r1}
  Order <- MCOrder
  Options <- MCPlain
  MaxPlan = 2
  Models = {"a", "z"}
  Prices = {1, 2}
  ratioKeys <- MCRatioKeys
  Desired <- MCDesired
  Garbage = Garbage
  Unread = Unread
  Editing = FALSE
  ReadMayFail = TRUE
PROPERTIES UnmanagedPricesKept
