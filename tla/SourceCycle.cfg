SPECIFICATION HistorySpec
CONSTANTS
    None = None
    EpochYear = 2020
    FloatingWindow = 7200
    Instants <- SpringInstants
    PossibleCounts = TRUE
    ClaimIds = {1, 2, 3}
    Offers <- CircularOffers
    Times = {0}
    Asked <- BoundsAsked
    MaxRetractions = 1
INVARIANTS
    ValueHasCandidate
CHECK_DEADLOCK FALSE
