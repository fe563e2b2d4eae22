------------------------------- MODULE MCTotp -------------------------------
(* Small instances of Totp for TLC. *)
EXTENDS Totp, TLC

Symmetry == Permutations(Users) \cup Permutations(Secrets) \cup Permutations(Workers)
=============================================================================
