\* The ranking is switched to another period and back.
SPECIFICATION Spec
CONSTANTS
  Pages = {"ranking"}
  MaxToken = 2
  Queries = {m1, m2}
  Elements = {h}
  None = None
  MaxCalls = 6
  MaxSteps = 7
INVARIANT
  LatestPeriodShown
CHECK_DEADLOCK FALSE
