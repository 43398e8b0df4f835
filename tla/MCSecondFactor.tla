--------------------------- MODULE MCSecondFactor ---------------------------
(* Small instances of Sessions with SecondFactor for TLC. *)
EXTENDS SecondFactor, TLC

CONSTANTS p1, p2

SessionLoad == {"login", "ldap", "register", "change", "block", "unblock", "logout", "reset",
                "delete", "create", "ws"}
FactorLoad == {"login", "external", "change", "setup", "enable", "disable", "verify",
               "reset_2fa"}
TwoLoads == {SessionLoad, FactorLoad}

\* The handlers are interchangeable.
Symmetry == Permutations(Procs)
=============================================================================
