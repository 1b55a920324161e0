SPECIFICATION FairSpec
CONSTANTS
    s1 = s1
    s2 = s2
    s3 = s3
    s4 = s4
    t1 = t1
    t2 = t2
    w1 = w1
    w2 = w2
    p1 = p1
    p2 = p2
    None = None
    Slot = {s1, s2, s3}
    Task = {t1}
    Worker = {w1}
    Resident = {w1}
    Producer = {p1}
    Reserved = {}
    Limit = 1
    Submitted = {}
    LosesNotices = FALSE
    Spare = 1
    MaxFailures = 1
CHECK_DEADLOCK FALSE
INVARIANTS WakeNotLost FirstLeaseWatched
PROPERTIES Drained DueRecovered
