SPECIFICATION Spec
CONSTANTS
    t1 = t1
    t2 = t2
    e1 = e1
    e2 = e2
    o1 = o1
    o2 = o2
    None = None
    Task = {t1}
    Executor = {e1, e2}
    Operator = {o1}
    Lane <- OneTaskLane
    Title <- OneTitle
    Reserved = {t1}
    Rank <- OneRank
    Limits = {2}
    Texts <- FirstOrNone
    TokenUse = {TRUE}
    PriorApprovals = 9
    PriorPending = {1}
    MaxGeneration = 3
    MaxApproval = 10
INVARIANTS TypeOK StatusAgreement NoStaleWrite RetryBound EscalationAnswerable
PROPERTIES ImplementsFencing ClosedWorkStays RecoveryLeavesLiveWork
SYMMETRY ExecutorSymmetry
