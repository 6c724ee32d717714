SPECIFICATION Spec
CONSTANTS
  n1 = n1
  n2 = n2
  u1 = u1
  u2 = u2
  u3 = u3
  Nodes = {n1}
  Users = {u1, u2}
  MachineOf <- EachItsOwnMachine
  Whitelist = {u1}
  Durations = {1, 2}
  DefaultDuration = 1
  ForbidRelock = FALSE
  Cap <- NoCap
  EarlyNotify = TRUE
  TimeAlert = 1
  ClaimWindow = 1
  MaxLag = 1
  MaxLeft = 3
  MaxDurations = {1, 2}
  Limits <- ChatOnly
  SaveFaults = TRUE
  SendFaults = TRUE
  Restarts = TRUE
  Tracked = {}
INVARIANTS SavedInOrder
