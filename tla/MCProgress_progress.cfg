SPECIFICATION ServerSpec
CONSTANTS
  Bots = {"b1"}
  Admins = {"a1"}
  Clients = {"c1"}
  Requests = {"start", "stop", "restart", "delete", "update", "edit"}
  MinInterval = 0
  IdleInterval = 0
  Backoff = 0
  MaxFailures = 2
  NextChecks = {0}
  MaxEntries = 3
  MaxInflight = 1
  MaxStartFailures = 2
  CommitFaults = {"start", "stop", "restart", "update", "delete", "reset", "recover", "fatal"}
  StrayErrors = TRUE
  MaxGeneration = 2
  MaxRemovals = 2
  Processes = {"p1", "p2"}
  Roots = {"r1", "r2"}
  Stores = {"s1", "s2"}
  Releases <- OldReleases
  Found = {"legacy", "conflict"}
  NoProcess = "nobody"
  Restorable = {"u1"}
  Versions = {"own", "a1", "a2"}
  MaxRevision = 2
  NoFile = "none"
  Offsets <- TimeZones
  Hours = {0, 3}
  MaxAge = 30
  MaxSettings = 2
  Jobs = {"j1"}
  Casters = {"x1"}
  Audience = {"g1", "g2"}
  MaxSeen = 2
  MaxCasterRevs = 1
  MaxDeaths = 1
  NoWork = NoWork
INVARIANTS ServerTypeOK RestoredWhole
PROPERTIES LifecycleProgresses StartsSafely WorkEnds
CHECK_DEADLOCK FALSE
