--------------------------- MODULE MCEncRotation ---------------------------
(* Small instances of EncRotation for TLC. *)
EXTENDS EncRotation, TLC

CONSTANTS k1, k2, k3, r1, r2, f1, f2

\* Keys, rows and files are interchangeable.
Symmetry == Permutations(Keys) \cup Permutations(Rows) \cup Permutations(Files)
=============================================================================
