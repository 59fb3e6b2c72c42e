\* Two requests of a user at a time, two questions on two elements.
SPECIFICATION Spec
CONSTANTS
  SetIds = {s1, s2}
  Elements = {h, he}
  Requests = {r1, r2}
  QuestionCount = 2
  MinWeak = 1
  ExpirySpan = 1
  WeekLength = 1
  JobLag = 0
  MaxClock = 1
  NoRow = NoRow
  Unwritten = Unwritten
SYMMETRY Symmetry
INVARIANTS
  TypeOK
  ScoredOnce
  NoSetLost
  TotalsMatchHistory
  MissCountExact
PROPERTIES
  MissIsListed
  LedgerSpec
CHECK_DEADLOCK FALSE
