\* Two concurrent requests: of one creator for three matches, or of two.
CONSTANTS
  a = a
  b = b
  c = c
  m1 = m1
  m2 = m2
  m3 = m3
  None = None
  User = {a, b, c}
  Match = {m1, m2, m3}
  Tx = {t1, t2}
  Lineup = {{a, b, c}}
SPECIFICATION MCSpec
INVARIANTS
  IInv
  PendingLimit
  NoCreationWhileBlocked
PROPERTIES
  RequestsEnd
