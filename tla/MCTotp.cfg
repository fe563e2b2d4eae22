\* Two users, three secrets, two requests at a time.
CONSTANTS
  Users = {u1, u2}
  Secrets = {s1, s2, s3}
  Workers = {w1, w2}
  Outcomes = {"ok", "lost", "failed"}
  None = None
SPECIFICATION Spec
SYMMETRY Symmetry
INVARIANTS
  TypeOK
  OwnSecret
  SpentOnce
  StaysInForce
