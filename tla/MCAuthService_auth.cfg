\* Two requests beside each other, three refresh tokens, two mailed links, two registrations.
SPECIFICATION Spec
CONSTANTS
  Requests = {r1, r2}
  Tokens = {t1, t2, t3}
  Links = {l1, l2}
  MaxLoginFail = 2
  MaxHash = 2
  MaxRows = 2
  NoRow = NoRow
SYMMETRY Symmetry
INVARIANTS
  TypeOK
  OneSessionPerLogin
  SessionsBelong
PROPERTIES
  ResetLinkOnce
  ChangeKnowsPassword
