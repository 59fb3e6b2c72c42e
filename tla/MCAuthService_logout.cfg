\* A rotation commits its new token beside the deletion of all tokens.
SPECIFICATION Spec
CONSTANTS
  Requests = {r1, r2}
  Tokens = {t1, t2}
  Links = {l1, l2}
  MaxLoginFail = 2
  MaxHash = 1
  MaxRows = 1
  NoRow = NoRow
SYMMETRY Symmetry
PROPERTIES
  LoggedOutEverywhere
