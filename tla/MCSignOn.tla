------------------------------- MODULE MCSignOn -------------------------------
(***************************************************************************)
(* Instance of SignOn: a person at the provider and two at Google whose    *)
(* addresses give the same name.  The suffix of four characters is the     *)
(* same for two of them, and somebody may have registered under a name     *)
(* with a suffix.                                                          *)
(***************************************************************************)
EXTENDS SignOn, TLC

CONSTANTS s1, g1, g2, jane, jane1, jane2, p1, p2

SameName ==
    (s1 :> <<jane, jane1, jane1>>)
    @@ (g1 :> <<jane, jane2, jane2>>) @@ (g2 :> <<jane, jane1, jane1>>)

Symmetry == Permutations(Procs)
=============================================================================
