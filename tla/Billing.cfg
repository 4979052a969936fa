\* Two users, two subscriptions, one customer id, two events, two requests, in three scenarios.
CONSTANTS
  u1 = u1
  u2 = u2
  s1 = s1
  e1 = e1
  e2 = e2
  t1 = t1
  t2 = t2
  s2 = s2
  c1 = c1
  None = None
  Malformed = Malformed
  nobody = nobody
  User = {u1, u2}
  Sub = {s1, s2}
  Customer = {c1}
  Event = {e1, e2}
  Tx = {t1, t2}
  Notice <- MCNotice
  Answer <- MCAnswer
  MaxTime = 1
SPECIFICATION MCFairSpec
INVARIANTS
  IInv
  WebhookIdempotent
  PlanFollowsSubscription
PROPERTIES
  EventsSettle
