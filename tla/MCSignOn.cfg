SPECIFICATION Spec
CONSTANTS
    s1 = s1  g1 = g1  g2 = g2
    jane = jane  jane1 = jane1  jane2 = jane2
    p1 = p1  p2 = p2
    Nobody = Nobody
    Subjects = {s1}
    Googlers = {g1, g2}
    Names = {jane, jane1, jane2}
    Candidates <- SameName
    Procs = {p1, p2}
    MaxAttempts = 3
    MaxChanges = 1
SYMMETRY Symmetry
INVARIANTS
    EntersOwnAccount
    BothTabsEnter
    UsedOnce
CHECK_DEADLOCK FALSE
