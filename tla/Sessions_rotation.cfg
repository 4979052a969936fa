\* Three sessions of one user, two concurrent requests.
CONSTANTS
  None = None
  Session = {n1, n2, n3}
  Tx = {t1, t2}
SPECIFICATION Spec
SYMMETRY Symmetry
INVARIANTS
  IInv
  OneLivePerLogin
PROPERTIES
  RefreshOnlyFromLive
