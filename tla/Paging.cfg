SPECIFICATION PagingSpec
CONSTANTS
  Ways = {"links", "limited", "unlimited", "gh"}
  Items <- MCItems
  Contents <- MCContents
  PageSizeAsked = 2
  Served = {1, 2, 3}
  MaxPages = 2
  Attempts = 3
  MaxChanges = 2
  Confusing = TRUE
CHECK_DEADLOCK FALSE
INVARIANTS WholeIsWhole
PROPERTIES ReadingEnds
