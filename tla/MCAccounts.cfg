\* Two addresses, two accounts, one state, two requests at a time.
CONSTANTS
  Emails = {e1, e2}
  Usernames = {e1, e2}
  UserIds = {u1, u2}
  States = {s1}
  Workers = {w1, w2}
  Passwords = {"plain", "empty"}
  Outcomes = {"ok", "lost", "failed"}
  None = None
SPECIFICATION Spec
SYMMETRY Symmetry
INVARIANTS
  OneIdentity
  LinkAgreement
  LinkOnce
  StateSpent
  ReturningUserAdmitted
  PasswordProof
