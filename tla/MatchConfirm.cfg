\* Two matches of the same four players, two scores, two concurrent requests.
CONSTANTS
  a1 = a1
  a2 = a2
  b1 = b1
  b2 = b2
  m1 = m1
  m2 = m2
  None = None
  Match = {m1, m2}
  Player = {a1, a2, b1, b2}
  Tx = {t1, t2}
  Payload <- MCPayload
  Score <- MCScore
  Delta = {0, 40}
  MAX_SCORE_PROPOSALS = 2
  PROVISIONAL_MATCHES = 1
  PROVISIONAL_CAP = 30
  INIT_RATING = 1000
  Team1 <- MCTeam1
  Team2 <- MCTeam2
  Creator <- MCCreator
  InitScore <- MCInitScore
  Winner <- MCWinner
SPECIFICATION MCFairSpec
INVARIANTS
  VerifiedByBothTeams
  NoMissedVerification
  RatedWithFinalScore
  IInv
  LedgerChain
  RankedExactlyOnce
  ProvisionalCap
PROPERTIES
  DecidedMatchFrozen
  ImplementsAgreement
  RatingsMoveWithVerification
  RequestsEnd
