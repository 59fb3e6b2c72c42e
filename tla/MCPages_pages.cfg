\* Two tabs of a browser, two commands in each.
SPECIFICATION AllSpec
CONSTANTS
  Tabs = {t1, t2}
  Slots = {f1, f2}
  Users = {u1}
  NoUser = NoUser
  NoSlot = NoSlot
  MaxSession = 6
  MaxCommands = 2
  MaxFaults = 1
  People = {p1, p2}
  Modes = {m1, m2}
  Elements = {h, he}
  None = None
  Questions = 2
  Limit = 1
  MaxToasts = 2
  AdminCommands = 3
  GameCommands = 5
  MaxSets = 2
  MaxToken = 2
  KeyedCalls = 6
  KeyedSteps = 7
  MaxPlayed = 3
  PagedCalls = 4
  PagedSteps = 4
  MaxMounts = 5
  AccountCommands = 4
  MaxShown = 5
  MaxChanges = 4
SYMMETRY Symmetry
INVARIANTS
  TypeOK
  LocksKeepSession
  PagesTyped
  ShowsWhatWasAsked
  NothingOfOthers
  InOrder
  SignsEnd
PROPERTIES
  CancelledNeverSignsIn
CHECK_DEADLOCK FALSE
