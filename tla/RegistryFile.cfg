SPECIFICATION MCSpec
CONSTANTS
  p1 = p1
  p2 = p2
  n = n
  work = work
  Work = Work
  ALL = ALL
  key = key
  all = all
  github = github
  gitlab = gitlab
  host = host
  Path = {p1, p2}
  Name = {n}
  NameOf <- MCNameOf
  Spelling = {work, Work, ALL}
  Fold <- MCFold
  All = all
  Host = {host}
  Provider = {github, gitlab}
  None = none
  Process = {a, b}
  Asked <- EveryRequest
  NoRequest = norequest
  NoProcess = nobody
  NoFile = nofile
  Torn = torn
INVARIANTS TypeOK OneUpdateAtATime NeverTorn NoDuplicates NothingDangles
PROPERTIES ImplementsAtomic LockComesFree
