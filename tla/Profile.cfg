\* Six users of whom one updates his profile, two concurrent requests, two matches.
CONSTANTS
  n1 = n1
  m1 = m1
  m2 = m2
  m3 = m3
  f1 = f1
  f2 = f2
  None = None
  User = {n1, m1, m2, m3, f1, f2}
  Mover = {n1}
  InitGender <- MCInitGender
  InitCode <- MCInitCode
  Code = {1, 2, 3}
  MxOf <- MCMxOf
  Lineup <- MCLineup
  Match = {x1, x2}
  Tx = {t1, t2}
SPECIFICATION Spec
SYMMETRY MCSymmetry
INVARIANTS
  IInv
  LineupFits
  ProfileConsistent
  CategoryFits
