SPECIFICATION Spec
CONSTANTS
    s1 = s1
    s2 = s2
    Session = {s1, s2}
    Principal = {"author", "reader", "chief"}
    Deciders = {"chief"}
    Reviewers = {}
    None = None
    Ref <- Refs
    ArtifactId <- Refs
    Id <- Id1
    Kind <- Kinds
    Owner <- Owners
    Covers <- Covered
    Edges <- Governs
    Affirmative = {"praise", "release"}
    Binds <- BindsFirst
    Provisioned <- Approvals
    ProvisionedBy = "chief"
    Start = "independent_evaluation"
    Passed <- FirstGates
    Upgraded = TRUE
    Does <- Shares
    Changing = {"spec", "blame"}
    GateUse = {"G5", "G6"}
    Targets <- ReleasePath
    BlockedIn = {"release_approved_conditional", "blocked"}
    Budgets = {2}
    MaxCredential = 2
INVARIANT DecisionsBindReviewed
CHECK_DEADLOCK FALSE
