SPECIFICATION Spec
CONSTANTS
    Task = {t145, t146}
    Approvable = {t146}
    Caller = {c1, c2}
    Executor = {e1, e2}
    None = None
    Faults = {"open", "fsync"}
    DiesAt = {"read", "write", "sync", "undo"}
    MaxGeneration = 3
    MaxRecord = 3
INVARIANTS TypeOK OncePerExhaustion DifferencesExplained
CHECK_DEADLOCK FALSE
