SPECIFICATION Spec
CONSTANTS
  b1 = b1
  a1 = a1
  a2 = a2
  c1 = c1
  c2 = c2
  Bots = {b1}
  Admins = {a1}
  Clients = {c1}
  Requests = {"start"}
  MinInterval = 1
  IdleInterval = 3
  Backoff = 2
  MaxFailures = 3
  NextChecks = {1}
  MaxEntries = 3
  MaxInflight = 1
  MaxStartFailures = 2
  CommitFaults = {}
  StrayErrors = FALSE
  MaxGeneration = 1
  MaxRemovals = 1
INVARIANTS BackoffHeld
CHECK_DEADLOCK FALSE
