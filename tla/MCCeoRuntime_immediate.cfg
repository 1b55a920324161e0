SPECIFICATION Spec
CONSTANTS
    m1 = m1
    m2 = m2
    t1 = t1
    t2 = t2
    a1 = a1
    c1 = c1
    c2 = c2
    None = None
    Message = {m1}
    Title = {t1, t2}
    Approval = {a1}
    Strategy = {c1, c2}
    Empty = c1
    Lane <- OneLane
    Weight <- OneWeight
    Window = 1
    PhaseActive = TRUE
    Patches = 3
    Places = 2
    MaxFailures = 0
INVARIANTS ReviewImmediate
