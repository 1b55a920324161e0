SPECIFICATION Spec
CONSTANTS
    t1 = t1
    t2 = t2
    e1 = e1
    e2 = e2
    o1 = o1
    o2 = o2
    None = None
    Task = {t1}
    Executor = {e1}
    Operator = {o1}
    Lane <- OneTaskLane
    Title <- OneTitle
    Reserved = {}
    Rank <- OneRank
    Limits = {2}
    Texts <- NoMention
    TokenUse = {TRUE, FALSE}
    PriorApprovals = 0
    PriorPending = {}
    MaxGeneration = 3
    MaxApproval = 1
INVARIANTS NoStaleWrite
