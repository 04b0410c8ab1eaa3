SPECIFICATION FairSpec
CONSTANTS
    a = a
    b = b
    c = c
    None = None
    WholeScope = WholeScope
    Ids = {a, b}
    Kinds <- AllKinds
    Texts <- AllTexts
    KindOf <- AllFacts
    TextOf <- DistinctTexts
    ParentsOf <- NoParents
    VerdictOf <- AllAdmitted
    Clients = {c1}
    Passes = {}
    Deadlines = {}
    ExpiryBatch = 1
    MaxTime = 0
    MaxRevision = 0
    Erasers = {e1, e2}
    Requested = {}
    ScopeOps = {o1}
    ErasureBatch = 1
    MaxCrashes = 1
PROPERTIES
    ScopeDrains
    DecisionDelivered
CHECK_DEADLOCK FALSE
