SPECIFICATION Spec
CONSTANTS
  n1 = n1
  n2 = n2
  u1 = u1
  u2 = u2
  u3 = u3
  Nodes = {n1, n2}
  Users = {u1, u2}
  MachineOf <- OneMachine
  Whitelist = {}
  Durations = {1}
  DefaultDuration = 1
  ForbidRelock = FALSE
  Cap = 1
  EarlyNotify = FALSE
  TimeAlert = 1
  ClaimWindow = 1
  MaxLag = 1
  MaxLeft = 2
  MaxDurations = {2}
  Limits <- ChatAndApi
  SaveFaults = FALSE
  SendFaults = FALSE
  Restarts = FALSE
  Tracked = {}
PROPERTIES CapOnNewSeats
SYMMETRY UserSymmetry
