SPECIFICATION FairSpec
CONSTANTS
  n1 = n1
  n2 = n2
  u1 = u1
  u2 = u2
  u3 = u3
  Nodes = {n1}
  Users = {u1, u2, u3}
  MachineOf <- EachItsOwnMachine
  Whitelist = {}
  Durations = {1, 2}
  DefaultDuration = 1
  ForbidRelock = TRUE
  Cap <- NoCap
  EarlyNotify = FALSE
  TimeAlert = 1
  ClaimWindow = 1
  MaxLag = 0
  MaxLeft = 4
  MaxDurations <- NoMaximum
  Limits <- ChatOnly
  SaveFaults = FALSE
  SendFaults = FALSE
  Restarts = FALSE
  Tracked = {"turn"}
INVARIANTS TypeOK QueueInOrder NoSilentTimeout
PROPERTIES NoGain FairLine TurnsEnd
