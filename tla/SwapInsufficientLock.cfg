SPECIFICATION Spec
CONSTANTS
    e1 = e1
    e2 = e2
    u1 = u1
    u2 = u2
    w1 = w1
    w2 = w2
    NoTx = NoTx
    Users = {u1}
    Owner <- OneUser
    Amount <- Amounts
    Deposit <- Poor
    NeedsAllowance <- NoAllowance
    Workers = {w1}
    Executions = {e1, e2}
    Fees = {1}
    MaxRetries = 1
    MaxCrashes = 0
    MaxDuplicates = 0
    Faults = {}
PROPERTY InsufficientIsRefused
CHECK_DEADLOCK FALSE
