SPECIFICATION Spec
CONSTANTS
    None = None
    Memories = {1, 2, 3}
    CreatedOf <- SharedSecond
    BodyOf <- SomeBodies
    ChunkConfig <- SmallChunks
    Bodies <- ShortBodies
    Configs <- SmallConfigs
    Score <- SomeScores
    ChunkRank <- LaterFirst
    Limit = 1
    PageSize = 2
    K = 2
    ListFilters <- BothFilters
    ScanFilters <- Retrievable
INVARIANTS
    SplitTiles
    ListingIsExact
    ScanIsExact
CHECK_DEADLOCK FALSE
