SPECIFICATION FairSpec
CONSTANTS
    a = a
    b = b
    c = c
    None = None
    WholeScope = WholeScope
    Ids = {a}
    Kinds <- AllKinds
    Texts <- AllTexts
    KindOf <- AllFacts
    TextOf <- DistinctTexts
    ParentsOf <- NoParents
    VerdictOf <- AllAdmitted
    Clients = {c1}
    Passes = {p1, p2}
    Deadlines = {0, 1}
    ExpiryBatch = 1
    MaxTime = 1
    MaxRevision = 0
    Erasers = {e1}
    Requested = {a}
    ScopeOps = {}
    ErasureBatch = 1
    MaxCrashes = 0
PROPERTIES
    
    ErasedIsFinal
CHECK_DEADLOCK FALSE
