----------------------------- MODULE MCAccounts -----------------------------
(* Small instances of Accounts for TLC. *)
EXTENDS Accounts, TLC

Symmetry ==
  Permutations(Users \ {Seed}) \cup Permutations(Tokens) \cup Permutations(Passwords)
    \cup Permutations(AdminWorkers) \cup Permutations(ResetWorkers)
    \cup Permutations(Containers)
=============================================================================
