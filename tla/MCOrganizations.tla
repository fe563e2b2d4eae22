-------------------------- MODULE MCOrganizations --------------------------
(* Small instances of Organizations for TLC. *)
EXTENDS Organizations, TLC

(* Admin is told apart from the other users.                                 *)
Symmetry == Permutations(OrgIds) \cup Permutations(Workers)
              \cup Permutations(Users \ {Admin}) \cup Permutations(Seeders)
=============================================================================
