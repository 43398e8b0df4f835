------------------------------ MODULE MCCalls ------------------------------
EXTENDS Calls, TLC
CONSTANTS a, b, c
Self == [d \in Device |-> d]
Symmetry == Permutations(Device)

\* Bound: all three users while every connection holds. A state after a broken
\* connection is continued from only if one user is out of it: connected, in
\* no call, with no frame on its way, and nobody's peer.
OutOfIt(d) ==
    /\ alive[d] /\ reg[d] = "reading" /\ dev[d] = Idle
    /\ up[d] = <<>> /\ down[d] = <<>> /\ handling[d] = NoFrame
    /\ callMap[d] = NoUser
    /\ \A e \in Device : dev[e].peer # d /\ callMap[e] # d
DropsBetweenTwo == drops = 0 \/ \E d \in Device : OutOfIt(d)
=============================================================================
