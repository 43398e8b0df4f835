-------------------------- MODULE MCHistorySync --------------------------
(* Small instances of HistorySync for TLC: two conversations. *)
EXTENDS HistorySync

\* The odd messages are of one conversation, the even ones of another.
TwoChats == [m \in Msgs |-> m % 2]
=============================================================================
