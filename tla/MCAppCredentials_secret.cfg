SPECIFICATION AppCredentialsSpec
CONSTANTS
  MaxSecretRevs = 3
  Senders = {"t1"}
  MaxClients = 2
  MaxChanges = 3
  Overlapping = TRUE
  IdsReused = FALSE
  NotSet = NotSet
  NoGuard = NoGuard
  NoChange = NoChange
INVARIANTS SentUnderStoredSecret
CHECK_DEADLOCK FALSE
