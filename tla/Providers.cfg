SPECIFICATION MCSpec
CONSTANTS
  Nothing = Nothing
  NoError = NoError
  Waiting = Waiting
  Failed = Failed
  Kinds = {"github", "gitlab", "bitbucket", "forgejo", "local"}
  NoBranch = NoBranch
  NoAnswer = NoAnswer
  NoPoll = NoPoll
  Commits = {"c1", "c2", "c3"}
  Names <- MCNames
  Pulls <- MCPulls
  Issues <- MCIssues
  Releases <- MCReleases
  Workflows <- MCWorkflows
  Forges <- AnyForge
  OnlyLabelled = TRUE
CHECK_DEADLOCK FALSE
INVARIANTS SnapshotIsHonest FailuresAreContained
