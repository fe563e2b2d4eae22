\* Two users, two sessions, two requests at a time; no symmetry (liveness).
CONSTANTS
  Users = {u1, u2}
  RefreshTokens = {t1, t2}
  AccessTokens = {a1}
  Workers = {w1, w2}
  None = None
SPECIFICATION FairSpec
INVARIANTS
  OwnerAgreement
  DurableSession
  QuietLogout
PROPERTIES
  LifecycleRefinement
  LingeringEnds
