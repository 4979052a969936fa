\* The user is locked out during the grace window.
CONSTANTS
  None = None
  Job = Job
  User = {u1}
  Row = {r1, r2, r3}
  Tx = {t1, t2}
SPECIFICATION Spec
SYMMETRY Symmetry
INVARIANTS
  CancellableDuringGrace
