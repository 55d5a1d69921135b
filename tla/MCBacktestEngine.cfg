SPECIFICATION Spec
CONSTANTS
    SlippageBps = 1
    BpsDivisor = 4
    CommissionRate = 1
    RateDivisor = 4
    MinTradeValue = 40
    a = a
    b = b
    Keys = {1, 2, 3}
    Symbols = {a, b}
    InitialCapital = 400
    LastSession = 5
    TopN = 2
    Scenarios <- Worlds
    NoBar = NoBar
    NoTarget = NoTarget
    Quotes = {}
    Marks = {}
    Quantities = {}
    OrderIds = {}
    MaxOrders = 20
    NoKey = NoKey
INVARIANTS
    EveryOrderFills
    ValuationMatchesTape
    TerminationsRealized
PROPERTIES
    FillsAtNextOpen
    TerminalExits
    DroppedPositionsSold
    AccountIsLedger
    RunFinishes
CHECK_DEADLOCK FALSE
