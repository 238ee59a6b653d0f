SPECIFICATION FairSpec
CONSTANTS
    p1 = p1
    p2 = p2
    t1 = t1
    t2 = t2
    None = None
    Providers = {p1, p2}
    Threads = {t1}
    MaxErrors = 3
    Recovery = 2
    MaxFailures = 3
INVARIANTS
    TypeOK
    BreakerConsistent
PROPERTY Recovers
CHECK_DEADLOCK FALSE
