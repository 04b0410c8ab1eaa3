SPECIFICATION Spec
SYMMETRY Symmetry
CONSTANTS
    a = a
    b = b
    c = c
    None = None
    WholeScope = WholeScope
    Ids = {a, b, c}
    Kinds <- AllKinds
    Texts <- AllTexts
    KindOf <- CorrectionKind
    TextOf <- CorrectionText
    ParentsOf <- CorrectionParents
    VerdictOf <- OneQuarantine
    Clients = {c1, c2}
    Passes = {}
    Deadlines = {}
    ExpiryBatch = 1
    MaxTime = 0
    MaxRevision = 0
    Erasers = {e1}
    Requested = {a, b, c}
    ScopeOps = {}
    ErasureBatch = 1
    MaxCrashes = 0
INVARIANTS
    TypeOK
    SupersessionAcyclic
    UsesMatchSources
    OneLiveRowPerFingerprint
    ErasedStaysBare
    
    CountersMatchRows
    DocumentsMatchColumns
    EveryDestructionAccounted
CHECK_DEADLOCK FALSE
