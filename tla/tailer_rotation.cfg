SPECIFICATION Spec
CONSTANTS
  MaxLines = 4
  MaxInodes = 2
  MaxRestarts = 1
  MaxCopies = 3
  Truncating = TRUE
  Racing = TRUE
  InsertMayFail = TRUE
INVARIANTS
  TypeOK
  NothingSkipped
PROPERTIES
  EveryLineArrives
  RereadsOnlyShrunkFile
