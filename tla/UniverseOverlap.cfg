SPECIFICATION UniverseSpec
CONSTANTS
    Symbols = {a, b}
    LastDate = 5
INVARIANT
    NoStoredOverlap
