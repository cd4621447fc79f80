SPECIFICATION MCSpec
CONSTANTS
  First = r1
  Second = r2
  Repo <- MCRepo
  Registries <- MCRegistries
  LocalOnly = {r2}
  Permits = 1
  FailureCap = 1
  MaxChanges = 2
INVARIANTS TypeOK NeverStuck PollsDoNotOverlap
PROPERTY MonitoringGoesOn
