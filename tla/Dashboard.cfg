SPECIFICATION Spec
CONSTANTS
  Repo = {r1, r2}
  NoRepo = norepo
  Task = {t1, t2}
  NoJob = nojob
  NoPlan = noplan
  MaxWorkspaces = 1
CHECK_DEADLOCK FALSE
INVARIANTS TypeOK BusyHasAnAction
PROPERTIES ConfirmedOnScreen HelpSuspends KeysComeBack
