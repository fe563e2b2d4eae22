--------------------------- MODULE MCRepositories ---------------------------
(* Small instances of Repositories for TLC. *)
EXTENDS Repositories, TLC

CONSTANTS Plain, Dotted  \* two names, as "ab" and "a..b"

MCSanitized == [n \in Names |-> IF n = Dotted THEN Plain ELSE n]

(* Admin and Hello are told apart from the other users and names.            *)
Symmetry == Permutations(RepoIds) \cup Permutations(Workers)
              \cup Permutations(Seeders)
=============================================================================
