SPECIFICATION Spec
CONSTANTS
    Task = {t145, t146}
    Approvable = {t146}
    Caller = {c1}
    Executor = {e1}
    None = None
    Faults = {"fsync"}
    DiesAt = {}
    MaxGeneration = 2
    MaxRecord = 3
INVARIANTS LedgerInStep
