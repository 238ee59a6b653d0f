SPECIFICATION Spec
CONSTANTS
    p1 = p1
    p2 = p2
    t1 = t1
    t2 = t2
    None = None
    Providers = {p1}
    Threads = {t1, t2}
    MaxErrors = 3
    Recovery = 1
    MaxFailures = 3
SYMMETRY ThreadSymmetry
INVARIANT OpensOnlyAfterFailures
CHECK_DEADLOCK FALSE
