\* Strategy, schedule and coverage report over all series of three symbols.
CONSTANTS
    Lookback = 2
    Skip = 1
    TopN = 2
    MinPrice = 3
    Window = 2
    MinDollarVolume = 5
    Missing = Missing
    None = None
    Start = 3
    End = 8
    Symbols = {1, 2, 3}
    MonthOf <- Month
    WarmupDays = 1
    SeriesSets <- SeriesOf
    Universes <- Memberships
    UnusableSets = {{}, {2}, {1, 3}}
    SignalStarts = {None, 4, 5}
SPECIFICATION Spec
CHECK_DEADLOCK FALSE
INVARIANTS
    SignalsAreTheBest
    WarmupSuffices
    CoverageAddsUp
