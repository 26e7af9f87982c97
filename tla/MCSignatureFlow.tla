-------------------------- MODULE MCSignatureFlow --------------------------
(* Small instances of SignatureFlow for TLC. *)
EXTENDS SignatureFlow, TLC

Symmetry == Permutations(Workers) \cup Permutations(Requests)
=============================================================================
