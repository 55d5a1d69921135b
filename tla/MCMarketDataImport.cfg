SPECIFICATION Spec
CONSTANTS
    LastDay = 6
    Listings <- MCListings
    Tolerance = 1
    LongWindow = 3
    FewestBars = 3
    NoSummary = NoSummary
INVARIANTS
    SuccessCoversEnds
    CacheIsStored
PROPERTIES
    CommitsWholeImports
    ImportEnds
