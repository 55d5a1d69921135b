SPECIFICATION Spec
CONSTANTS
    SlippageBps = 1
    BpsDivisor = 2
    CommissionRate = 1
    RateDivisor = 4
    Keys = {k1, k2}
    Symbols = {a, b}
    InitialCapital = 45
    Quotes = {1, 2}
    Marks = {2}
    Quantities = {1}
    OrderIds = {1}
    Times = {1}
    MaxOrders = 3
    NoKey = NoKey
SYMMETRY Renamings
INVARIANTS
    TypeOK
    AverageWithinBuys
    TotalsMatchFills
PROPERTIES
    LedgerSpec
