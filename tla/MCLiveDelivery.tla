-------------------------- MODULE MCLiveDelivery --------------------------
(* Small instances of LiveDelivery for TLC. *)
EXTENDS LiveDelivery, TLC

CONSTANTS c1, c2

\* The connections are interchangeable.
Symmetry == Permutations(Conns)
=============================================================================
