SPECIFICATION MCSpec
CONSTANTS
  Actor = {a1, a2}
  Commit <- MCCommit
  Ancestors <- MCAncestors
  Root = 0
  LocalName = {main}
  Main = main
  PullRequest = {pr1}
  RemoteBranch = {origin_main}
  Foreign = foreign
  NoUpstream = none
  Detached = detached
  NoCommit = nocommit
  NoActor = nobody
  NoValue = unset
  Upstream = upstream
  MaxUser = 1
  MaxPush = 1
INVARIANTS TypeOK OneAtATime UndisturbedPull UndisturbedCheckout FetchHeadIsThePullRequest
PROPERTIES ConfirmedMovesOnly LockComesFree
