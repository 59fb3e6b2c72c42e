\* Three users, two of them administrators, two requests at a time; nobody gets locked,
\* and one changes the password.
SPECIFICATION AllSpec
CONSTANTS
  Users = {a, b, c}
  Admins = {a, b}
  Unverified = {}
  Lockable = {}
  Changers = {c}
  Requests = {r1, r2}
  LockSpan = 1
  MaxClock = 0
  MaxHash = 1
  MaxOverlap = 1
  NoRow = NoRow
  SetIds = {s1, s2, s3}
  Elements = {h, he}
  OneElement = {g}
  OneRequest = {r3}
  Unwritten = Unwritten
  Band = 4
  WeakCandidates <- SmallWeakCandidates
  QuizQuestions = 3
  ChoiceCount = 2
  QuizMinWeak = 2
  MaxDay = 4
  PageSize = 1
  MaxSessions = 3
  NUsers = 3
  Askers = {2}
  Limit = 2
  MaxScore = 1
  MaxWeek = 1
  MaxWrites = 1
  Counters <- SmallCounters
  Weeks = {1, 2}
  None = None
SYMMETRY Symmetry
INVARIANTS
  TypeOK
  AdminRemains
  HistoryKept
  EarnedFairly
  ReadsAgree
PROPERTIES
  DeleterStays
  SelfDeleteKnowsPassword
CHECK_DEADLOCK FALSE
