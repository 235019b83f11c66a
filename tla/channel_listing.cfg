CONSTANTS
  PageSize = 2
  MaxInit = 4
  MaxId = 5
  MaxMoves = 1
  MayFail = TRUE
SPECIFICATION ListingSpec
INVARIANTS
  ListingTypeOK
  ListingIsOffByTheChanges
PROPERTIES ListingEnds
