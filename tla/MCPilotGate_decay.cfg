SPECIFICATION PilotSpec
CONSTANTS
    s1 = s1
    Session = {s1}
    Principal = {"author", "reader", "chief"}
    Deciders = {"chief"}
    Reviewers = {"reader"}
    None = None
    Ref <- Refs
    ArtifactId <- Refs
    Id <- Id1
    Kind <- Kinds
    Owner <- Owners
    Covers <- Covered
    Edges <- Governs
    Affirmative = {"praise"}
    Binds <- BindsFirst
    Provisioned <- Built
    ProvisionedBy = "chief"
    Start = "approved_for_build"
    Passed <- BuildGates
    Upgraded = FALSE
    Does <- Shares
    Changing = {"manifest"}
    GateUse = {"G4"}
    Targets = {"implementation"}
    BlockedIn = {"approved_for_build", "blocked"}
    Budgets = {1}
    MaxCredential = 1
    TaskOwner = "author"
    Accountable = "author"
    Standing = {"reader"}
    BindsSet <- BindsBuild
    MaxGeneration = 2
    Unfenced = {1}
    Reissued = {"chief"}
INVARIANT CertificateStands
CHECK_DEADLOCK FALSE
