--------------------------- MODULE MCDocumentFlow ---------------------------
(* Small instances of DocumentFlow for TLC. *)
EXTENDS DocumentFlow, TLC

\* Threads, file contents and file names are never compared with anything
\* but each other.
Symmetry == Permutations(Workers) \cup Permutations(Files)
ApartSymmetry == Symmetry \cup Permutations(Docs)
=============================================================================
