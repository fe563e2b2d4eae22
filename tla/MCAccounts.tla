----------------------------- MODULE MCAccounts -----------------------------
(* Small instances of Accounts for TLC. *)
EXTENDS Accounts, TLC

(* Addresses are usernames too, so a permutation of Emails acts on both.     *)
Symmetry == Permutations(Emails) \cup Permutations(UserIds)
              \cup Permutations(States) \cup Permutations(Workers)
=============================================================================
