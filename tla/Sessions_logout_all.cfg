\* A refresh under way survives a revoke-all.
CONSTANTS
  None = None
  Session = {n1, n2, n3}
  Tx = {t1, t2}
SPECIFICATION Spec
SYMMETRY Symmetry
INVARIANTS
  RevokeAllEndsLogins
