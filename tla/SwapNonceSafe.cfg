SPECIFICATION Spec
CONSTANTS
    e1 = e1
    e2 = e2
    u1 = u1
    u2 = u2
    w1 = w1
    w2 = w2
    NoTx = NoTx
    Users = {u1, u2}
    Owner <- UserEach
    Amount <- Amounts
    Deposit <- Rich
    NeedsAllowance <- NoAllowance
    Workers = {w1, w2}
    Executions = {e1, e2}
    Fees = {1}
    MaxRetries = 1
    MaxCrashes = 0
    MaxDuplicates = 0
    Faults = {}
INVARIANT NonceSafe
CHECK_DEADLOCK FALSE
