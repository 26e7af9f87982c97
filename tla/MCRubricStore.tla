--------------------------- MODULE MCRubricStore ---------------------------
(* Small instances of RubricStore for TLC. *)
EXTENDS RubricStore, TLC

Symmetry ==
  Permutations(Images) \cup Permutations(Requests)
    \cup Permutations(ProfileWorkers) \cup Permutations(SignWorkers)
=============================================================================
