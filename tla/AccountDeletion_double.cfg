\* Two concurrent requests both find nothing open.
CONSTANTS
  None = None
  Job = Job
  User = {u1}
  Row = {r1, r2, r3}
  Tx = {t1, t2}
SPECIFICATION Spec
SYMMETRY Symmetry
INVARIANTS
  AtMostOneOpen
