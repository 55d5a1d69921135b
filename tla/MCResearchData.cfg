\* Coverage, audit and backtest data over every world.
CONSTANTS
    k1 = k1
    k2 = k2
    T = T
    U = U
    V = V
    Keys = {k1, k2}
    Tickers = {T, U, V}
    Forever = 6
    Unresolved = Unresolved
    Start = 1
    End = 4
    MonthFirsts = {2, 4}
    RebalanceFrom = 2
    Dotted = {V}
    PriceGap = 2
    HistoryFrom = 0
    Need = 1
    Worlds <- World
    CurrentOnly = {FALSE, TRUE}
SPECIFICATION ResearchSpec
CHECK_DEADLOCK FALSE
INVARIANTS
    SignalsAreTheListing
    KeysNameOneHolding
    CountsAddUp
    AuditReplays
    AuditExplainsRefusal
