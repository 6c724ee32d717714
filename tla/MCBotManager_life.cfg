SPECIFICATION Spec
CONSTANTS
  b1 = b1
  a1 = a1
  a2 = a2
  c1 = c1
  c2 = c2
  Bots = {b1}
  Admins = {a1, a2}
  Clients = {c1, c2}
  Requests = {"start", "stop", "restart", "delete", "update", "edit"}
  MinInterval = 1
  IdleInterval = 1
  Backoff = 1
  MaxFailures = 2
  NextChecks = {1}
  MaxEntries = 3
  MaxInflight = 2
  MaxStartFailures = 2
  CommitFaults = {"start", "recover", "fatal"}
  StrayErrors = FALSE
  MaxGeneration = 2
  MaxRemovals = 2
SYMMETRY Threads
INVARIANTS TypeOK SavedStateHasOneUser SweepsFollowService RowTellsTruth
CHECK_DEADLOCK FALSE
