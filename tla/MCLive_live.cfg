\* Two runs of a cleanup job over two rows, of which it may delete one.
SPECIFICATION AllSpec
CONSTANTS
  Rows = {o1, o2}
  Synthetic = {o1}
  Runs = {w1, w2}
  BatchSize = 1
  MaxRows = 1
  Lifetime = 1
  MaxNow = 2
  h = h
  he = he
  Requests = {r1, r2}
  Tabs = {t1}
  Slots = {f1, f2}
  Users = {u1}
  Faults = 1
  NoRow = NoRow
  Unwritten = Unwritten
INVARIANTS
  SuccessLeavesNothing
  CountsAddUp
PROPERTIES
  RunsEnd
  RequestsEnd
  EveryCallAnswered
CHECK_DEADLOCK FALSE
