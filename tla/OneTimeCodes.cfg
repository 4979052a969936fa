\* Three users and contacts, two codes, two concurrent requests.
CONSTANTS
  u1 = u1
  u2 = u2
  u3 = u3
  c1 = c1
  c2 = c2
  c3 = c3
  None = None
  User = {u1, u2, u3}
  Contact = {c1, c2, c3}
  InitOwner <- MCInitOwner
  Closed = {u2}
  Tx = {t1, t2}
  MaxCodes = 2
  MaxTime = 4
  MaxWait = 1
  COOLDOWN = 2
  TTL = 2
  RETENTION = 3
  MAX_ATTEMPTS = 1
SPECIFICATION Spec
SYMMETRY SlotSymmetry
INVARIANTS
  IInv
  UsedOnce
  ReplacedUnused
  MirrorAgrees
  CooldownKept
