------------------------------ MODULE MCGroups ------------------------------
(* Small instances of Groups for TLC. *)
EXTENDS Groups, TLC

CONSTANTS u1, u2, u3, p1, p2, p3

\* A failing statement is looked at with two requests, not three.
FaultsWithTwo == faults = 0 \/ requests <= 2

Symmetry == Permutations(Users) \cup Permutations(Procs)
=============================================================================
