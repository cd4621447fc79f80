SPECIFICATION KeysSpec
CHECK_DEADLOCK FALSE
CONSTANTS
  Longest = 1
  Limit = 3
  Page = 2
  MaxTasks = 2
INVARIANTS HelpIsInBounds
PROPERTIES KeysMatchCatalogue
