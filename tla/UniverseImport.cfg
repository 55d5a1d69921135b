SPECIFICATION UniverseSpec
CONSTANTS
    Symbols = {a, b}
    LastDate = 5
INVARIANTS
    IntervalsMatchSnapshots
    NeverRefused
    AsOfIsUnionOfImports
    WindowCoversMembers
