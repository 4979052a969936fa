\* Three matches of one user, a confirmation and a rebuild beside it.
CONSTANTS
  p1 = p1
  p2 = p2
  p3 = p3
  None = None
  Match = {1, 2, 3}
  Player = {p1, p2, p3}
  Win <- MCWin
  Close <- MCClose
  Day <- MCDay
  Mate <- MCMate
  Rivals <- MCRivals
  OppAvg <- MCOppAvg
  Delta = {60}
  InitRating = 1000
  RIVAL_BUCKET_DELTA = 75
  MAX_RECENT_FORM = 2
  MAX_ROLLING_FORM = 3
  RECENT = 2
  WINDOWS = {4, 7}
SPECIFICATION FairSpec
INVARIANTS
  IInv
  EveryMatchCounted
  StateFollowsLog
PROPERTIES
  RequestsEnd
