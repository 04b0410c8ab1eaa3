SPECIFICATION Spec
CONSTANTS
    None = None
    Memories = {"m"}
    OffersOf <- Mails
    StandardRules <- Standard
    Narrowings <- Narrower1
    Denials = {{}}
    Operators = {"o"}
    GrantsOf <- EveryVersion
    ClaimIds = {1, 2, 3}
    ProposalsOf <- Proposals
    PolicyOffers <- Offered
    PageLimit = 3
    MaxWriters = 2
    MaxRetractions = 1
INVARIANTS
    TypeOK
    InSightIsAnswered
    
    UserWordStands
    ScoresNeedReview
    
    
PROPERTIES
    KnowledgeOnlyShrinks
CHECK_DEADLOCK FALSE
