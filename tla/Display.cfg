SPECIFICATION MCSpec
CONSTANTS
  Nothing = Nothing
  NoError = NoError
  Waiting = Waiting
  Failed = Failed
  Repo = {r1}
  Remote = {a, b}
  Home = a
  Absent = Absent
  Checkout = Checkout
  NoFile = NoFile
  Field = {"ci", "proposals"}
  Item = {bad, running}
  FailMarked = {bad}
  RunMarked = {running}
  PassMarked = {}
  LocalStates <- AllLocalStates
  MaxPolls = 1
INVARIANTS ConfirmedAttention NoticeWasGiven StaleIsMarked OwnRemote OverviewAgrees
PROPERTIES SuccessReplaces
