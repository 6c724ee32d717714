SPECIFICATION Spec
CONSTANTS
  x1 = x1
  x2 = x2
  Codes = {"c1", "c2"}
  AuthBots = {"b1"}
  People = {"u1"}
  Callers = {"k1"}
  MaxPending = 2
  MaxIdentity = 2
  Free = "free"
  Groups = {"g1", "g2"}
  Workers = 1
  MaxWaiting = 2
  MaxBatches = 1
  MaxOffers = 3
  MaxTargets = 2
  NoText = NoText
  Owners = {x1, x2}
  TaskSlots = {"s1"}
  Purposes = {"train"}
  MaxHoldings = 2
  MaxKeys = 2
  Silent = "silent"
  Nothing = Nothing
  Messages = {"m1"}
  Chats = {"c1"}
  RoutedBots = {"b1"}
  Slots = 1
  MaxRevs = 1
  MaxSecrets = 2
  NoBot = NoBot
  Idle = Idle
  Queries = {"q1"}
  Events <- LeaveAndReturn
  MaxEdits = 1
  MaxBindings = 2
  MaxMessages = 2
  Toggled = {"panel"}
  NoRow = NoRow
  NoQuery = NoQuery
  MaxSecretRevs = 3
  Senders = {x1, x2}
  MaxClients = 2
  MaxChanges = 2
  Overlapping = FALSE
  IdsReused = FALSE
  NotSet = NotSet
  NoGuard = NoGuard
  NoChange = NoChange
  NamedActors = {"u1", "u2"}
  Commands = {"c1"}
  Pages = {x1, x2}
  Grants = {"g1"}
  Readers = {x1, x2}
  MaxActive = 1
  MaxHits = 1
  MaxGeneration = 2
  MaxHands = 2
  MaxVersion = 2
  MaxCount = 1
  NoGrant = NoGrant
  NoReader = NoReader
  Pollers = {x1, x2}
  Writers = {"w1"}
  MaxStates = 1
  MaxInstances = 2
  NoCopy = NoCopy
  Nobody = Nobody
  Sources = {"s1", "s2"}
  Window = 3
  SourceLimit = 2
  GlobalLimit = 3
  MaxSources = 1
  Floors = {1, 2}
  MaxClock = 8
  NoBucket = NoBucket
  TrafficBots = {"b1", "b2"}
  Credentials = {"k1", "k2"}
  Routes = {"r1", "r2"}
  MaxRoutes = 1
  MaxBots = 1
  MaxCredentials = 1
  History = 1
  MaxRequests = 4
  MaxMinute = 1
  Other = "other"
  Nowhere = "nowhere"
  Jobs = {"j1"}
  Casters = {x1, x2}
  Audience = {"g1", "g2"}
  MaxSeen = 2
  MaxCasterRevs = 1
  MaxDeaths = 1
  NoWork = NoWork
  Bindings = {"b1", "b2"}
  Tickets = {"k1", "k2"}
  Tabs = {"t1"}
  Logins = {x1, x2}
  MaxGrants = 2
  Resolving = TRUE
  NoCookie = NoCookie
  NoSession = NoSession
INVARIANTS ServicesTypeOK IngressIsSound PanelIsSound LimitedIsTrue DisclosedIsOnRecord ReadYourWrites RetryAfterHolds CountersAgree ToldOnce ShownIsCurrent
PROPERTIES KeysAreSound NoticesAreSound NotesAreSound CredentialsAreSound
CHECK_DEADLOCK FALSE
SYMMETRY Twins
