SPECIFICATION Spec
CONSTANTS
    SlippageBps = 1
    BpsDivisor = 4
    CommissionRate = 1
    RateDivisor = 4
    MinTradeValue = 40
    a = a
    b = b
    Keys = {1, 2, 3}
    Symbols = {a, b}
    InitialCapital = 400
    LastSession = 5
    TopN = 2
    Scenarios <- RecycleWorlds
    NoBar = NoBar
    NoTarget = NoTarget
    Quotes = {}
    Marks = {}
    Quantities = {}
    OrderIds = {}
    MaxOrders = 20
    NoKey = NoKey
PROPERTIES
    KnownExitRealized
CHECK_DEADLOCK FALSE
