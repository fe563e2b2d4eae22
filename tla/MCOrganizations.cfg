\* The admin and a user, two organizations, two requests beside two runs of the seed.
CONSTANTS
  Names = {"Gitfed Team"}
  Users = {admin, u1}
  OrgIds = {i1, i2}
  Workers = {w1, w2}
  Outcomes = {"ok", "lost", "failed"}
  Seeders = {s1, s2}
  Admin = admin
  None = None
SPECIFICATION Spec
SYMMETRY Symmetry
INVARIANTS
  FounderFirst
  CreatedStays
  NoOrphans
  TeamOnce
