SPECIFICATION Spec
SYMMETRY Symmetry
CONSTANTS
    a = a
    b = b
    c = c
    None = None
    WholeScope = WholeScope
    Ids = {b, c}
    Kinds <- AllKinds
    Texts <- AllTexts
    KindOf <- AllFacts
    TextOf <- DistinctTexts
    ParentsOf <- NoParents
    VerdictOf <- EachVerdict
    Clients = {c1}
    Passes = {}
    Deadlines = {}
    ExpiryBatch = 1
    MaxTime = 0
    MaxRevision = 1
    Erasers = {e1, e2}
    Requested = {b}
    ScopeOps = {o1, o2}
    ErasureBatch = 1
    MaxCrashes = 1
INVARIANTS
    EveryDestructionAccounted
    ReportsAreTrue
    OwedOrReported
PROPERTIES
    CaptureOwesEmbedding
CHECK_DEADLOCK FALSE
