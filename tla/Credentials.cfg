SPECIFICATION MCSpec
CONSTANTS
  Provider = {p, q}
  Sole = p
  Host = {h}
  Secret = {s}
  None = None
  Readers = {t1, t2}
  Second = t2
  Form = Form
  Shells = {c}
  TTL = 2
  MaxTime = 3
  MaxCommands = 2
CHECK_DEADLOCK FALSE
INVARIANTS CacheIsFresh ReadsOwnWrites SecretsMatchAccounts
