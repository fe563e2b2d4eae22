\* Two users, three names of which two mean one directory, two repositories, two requests at a time.
CONSTANTS
  Users = {admin, u1}
  Names = {hello, plain, dotted}
  Plain = plain
  Dotted = dotted
  Sanitized <- MCSanitized
  RepoIds = {r1, r2}
  Workers = {w1, w2}
  Outcomes = {"ok", "lost", "failed"}
  Seeders = {s1, s2}
  Admin = admin
  Hello = hello
  None = None
SPECIFICATION Spec
SYMMETRY Symmetry
INVARIANTS
  TypeOK
  ListedAccounted
  NeverAdopts
  OwnerDeletes
  SeedOnce
