\* Two submissions across a week boundary.
SPECIFICATION Spec
CONSTANTS
  SetIds = {s1, s2}
  Elements = {h}
  Requests = {r1, r2}
  QuestionCount = 1
  MinWeak = 1
  ExpirySpan = 2
  WeekLength = 1
  JobLag = 0
  MaxClock = 1
  NoRow = NoRow
  Unwritten = Unwritten
INVARIANTS
  WeeklyMatchesHistory
CHECK_DEADLOCK FALSE
