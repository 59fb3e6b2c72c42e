\* The list cannot be read again after a change that was made.
SPECIFICATION Spec
CONSTANTS
  Users = {p1, p2}
  Filters = {m1, m2}
  None = None
  MaxCommands = 3
INVARIANT
  SyncFailureShown
CHECK_DEADLOCK FALSE
