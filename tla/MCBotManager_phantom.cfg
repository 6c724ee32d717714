SPECIFICATION Spec
CONSTANTS
  b1 = b1
  a1 = a1
  a2 = a2
  c1 = c1
  c2 = c2
  Bots = {b1}
  Admins = {a1}
  Clients = {c1}
  Requests = {"start", "restart"}
  MinInterval = 0
  IdleInterval = 0
  Backoff = 0
  MaxFailures = 2
  NextChecks = {0}
  MaxEntries = 1
  MaxInflight = 1
  MaxStartFailures = 2
  CommitFaults = {}
  StrayErrors = TRUE
  MaxGeneration = 2
  MaxRemovals = 2
INVARIANTS RowTellsTruth
CHECK_DEADLOCK FALSE
