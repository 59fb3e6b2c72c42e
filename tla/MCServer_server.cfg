\* Two requests, two Durable Objects, one of them fail-closed.
SPECIFICATION AllSpec
CONSTANTS
  Calls = {c1, c2}
  general = general
  account = account
  Keys = {general, account}
  FailClosed = {account}
  Routes <- MCRoutes
  Limit = 1
  Window = 3
  Second = 2
  MaxCount = 2
  NoRow = NoRow
  Names = {n1, n2}
  CampaignLimit = 3
  CampaignWindow = 8
  TokenLife = 24
  MaxLate = 2
  MaxLost = 1
  Owned = 2
  MaxProbes = 2
  MaxFailures = 3
  MaxAuditFaults = 1
  Ids = {1, 2, 3}
  MaxTime = 2
  PageLimits <- MCPageLimits
  MaxPage = 2
  MaxChanges = 1
  BatchSize = 2
  MaxRows = 2
  Lifetime = 1
  MaxNow = 2
  MapKeys = {1, 2, 3}
  MapLimit = 2
  MapWindow = 2
  MapSize = 2
  MaxMoves = 2
  LockSpan = 1
  MaxClock = 1
  MaxHash = 1
  MaxOverlap = 1
  Rows = {o1, o2, o3}
  Synthetic = {o1}
  e = e
  None = None
SYMMETRY Symmetry
INVARIANTS
  TypeOK
  RouteIsCounted
  RetryAfterSuffices
  ToldTruly
  ReportsAreTrue
PROPERTIES
  KeepsPromise
  ForgetsOnlyWhenFull
  CommandsTellTruth
CHECK_DEADLOCK FALSE
