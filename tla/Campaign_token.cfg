\* An access token lives for less than two windows of the rate limit.
SPECIFICATION Spec
CONSTANTS
  Limit = 3
  Window = 8
  TokenLife = 12
  MaxLate = 2
  MaxFaults = 1
  None = None
INVARIANT
  GameIsPlayed
CHECK_DEADLOCK FALSE
