---------------------------- MODULE MessageStore ----------------------------
(***************************************************************************)
(* What the save pipeline promises a caller of saveMessage, with nothing   *)
(* of how it keeps the promise: calls come in, rows appear with seqs that  *)
(* no other row has, and a call returns the seq of its stored row, or an   *)
(* error that says nothing about whether the row is, or will be, stored.   *)
(* Seqs need not appear in ascending order.                                *)
(***************************************************************************)
EXTENDS Integers

CONSTANTS
    Conns,     \* the callers
    Ids,       \* the message ids
    Bad,       \* ids that are never stored
    Calls,     \* the numbers of a caller's calls
    NoId,      \* "not called yet"
    NoReply,   \* "has not returned"
    Failed     \* the error

VARIABLES
    asked,     \* asked[c][k]: the id of c's k-th call
    verdict,   \* verdict[c][k]: what it returned
    row        \* row[m]: the seq of the stored row of m, or 0

vars == <<asked, verdict, row>>

Init ==
    /\ asked = [c \in Conns |-> [k \in Calls |-> NoId]]
    /\ verdict = [c \in Conns |-> [k \in Calls |-> NoReply]]
    /\ row = [m \in Ids |-> 0]

Call(c, k, m) ==
    /\ asked[c][k] = NoId
    /\ asked' = [asked EXCEPT ![c][k] = m]
    /\ UNCHANGED <<verdict, row>>

\* Some ids that were asked for become rows, with seqs nobody has.
Store ==
    /\ row' \in [Ids -> Nat]
    /\ \A m \in Ids :
          row'[m] # row[m] =>
              /\ row[m] = 0
              /\ m \notin Bad
              /\ \E c \in Conns, k \in Calls : asked[c][k] = m
              /\ \A o \in Ids \ {m} : row'[o] # row'[m]
    /\ UNCHANGED <<asked, verdict>>

Return(c, k) ==
    /\ asked[c][k] # NoId
    /\ verdict[c][k] = NoReply
    /\ \E v \in {Failed, row[asked[c][k]]} :
          verdict' = [verdict EXCEPT ![c][k] = v]
    /\ UNCHANGED <<asked, row>>

Next ==
    \/ Store
    \/ \E c \in Conns, k \in Calls :
          \/ \E m \in Ids : Call(c, k, m)
          \/ Return(c, k)

Spec == Init /\ [][Next]_vars
=============================================================================
