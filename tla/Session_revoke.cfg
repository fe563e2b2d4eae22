\* Revoke against its own comment: one session, two requests at a time.
CONSTANTS
  Users = {u1}
  RefreshTokens = {t1}
  AccessTokens = {a1}
  Workers = {w1, w2}
  None = None
SPECIFICATION Spec
INVARIANT
  RevokeInvalidates
