SPECIFICATION Spec
CONSTANTS
    t1 = t1
    t2 = t2
    e1 = e1
    e2 = e2
    o1 = o1
    o2 = o2
    None = None
    Task = {t1, t2}
    Executor = {e1}
    Operator = {o1, o2}
    Lane <- OneLane
    Title <- OwnTitles
    Reserved = {}
    Rank <- Ranks
    Limits = {2}
    Texts <- NoMention
    TokenUse = {TRUE}
    PriorApprovals = 0
    PriorPending = {}
    MaxGeneration = 2
    MaxApproval = 1
INVARIANTS LaneExclusive
