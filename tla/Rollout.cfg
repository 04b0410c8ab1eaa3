SPECIFICATION Spec
SYMMETRY Symmetry
CONSTANTS
    n1 = n1
    n2 = n2
    x = x
    y = y
    None = None
    Ids = {1, 2}
    Kinds <- OneKind
    Texts <- AllTexts
    KindOf <- AllFacts
    TextOf <- DistinctTexts
    ParentsOf <- NoParents
    Nodes = {n1, n2}
    Identities = {x, y}
    Booted = {n1}
    QuarantinedIds = {}
    Rank <- IdOrder
    MaxRevision = 2
    MaxAttempts = 1
    BatchSize = 1
    ReembedLimit = 1
    Deactivates = FALSE
    MaxFaults = 1
INVARIANTS
    PassCoversScope
PROPERTIES
    NoSpuriousRevision
    ImplementsContract
CHECK_DEADLOCK FALSE
