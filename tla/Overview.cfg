SPECIFICATION MCSpec
CONSTANTS
  a = a
  b = b
  c = c
  w = w
  None = None
  Repo <- MCRepo
  Place <- MCPlace
  Tier <- MCTier
  Quiet = 3
  Space = {w}
  Filters <- MCFilters
  MaxElsewhere = 1
  MaxOthers = 1
CHECK_DEADLOCK FALSE
INVARIANTS KeysActOnTheirRow
PROPERTIES SelectionFollows
