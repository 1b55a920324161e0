SPECIFICATION Spec
CONSTANTS
    s1 = s1
    s2 = s2
    s3 = s3
    s4 = s4
    t1 = t1
    t2 = t2
    w1 = w1
    w2 = w2
    p1 = p1
    p2 = p2
    None = None
    Slot = {s1, s2, s3, s4}
    Task = {t1}
    Worker = {w1, w2}
    Resident = {w1}
    Producer = {p1}
    Reserved = {t1}
    Limit = 2
    Submitted = {"routine"}
    LosesNotices = FALSE
    Spare = 2
    MaxFailures = 0
SYMMETRY SlotSymmetry
INVARIANTS FirstLeaseWatched
