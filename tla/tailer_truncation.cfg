SPECIFICATION Spec
CONSTANTS
  MaxLines = 4
  MaxInodes = 1
  MaxRestarts = 0
  MaxCopies = 4
  Truncating = TRUE
  Racing = FALSE
  InsertMayFail = FALSE
INVARIANTS
  AtMostOnce
