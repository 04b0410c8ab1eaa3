SPECIFICATION FairSpec
CONSTANTS
    n1 = n1
    n2 = n2
    x = x
    y = y
    None = None
    Ids = {1}
    Kinds <- OneKind
    Texts <- AllTexts
    KindOf <- AllFacts
    TextOf <- DistinctTexts
    ParentsOf <- NoParents
    Nodes = {n1, n2}
    Identities = {x}
    Booted = {n1, n2}
    QuarantinedIds = {1}
    Rank <- IdOrder
    MaxRevision = 1
    MaxAttempts = 2
    BatchSize = 1
    ReembedLimit = 1
    Deactivates = TRUE
    MaxFaults = 1
INVARIANTS
    TypeOK
    DoneMeansEmbedded
    DeadOnlyAfterBudget
PROPERTIES
    ImplementsContract
    ActiveWorkSettles
CHECK_DEADLOCK FALSE
