---------------------------- MODULE MCMsgWriter ----------------------------
(***************************************************************************)
(* A small instance of the save pipeline: one connection with three calls. *)
(* The handler may give up waiting, so all three can be with the writers   *)
(* at once, ids repeat within and across batches as they do when a client  *)
(* resends, and m3 is a row PostgreSQL refuses.                            *)
(***************************************************************************)
EXTENDS MsgWriter, TLC

CONSTANTS d1, m1, m2, m3

OneSends == d1 :> {m1, m2, m3}

Symmetry == Permutations(Writers)
=============================================================================
