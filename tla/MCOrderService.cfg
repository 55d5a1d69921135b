SPECIFICATION Spec
CONSTANTS
    SlippageBps = 1
    BpsDivisor = 2
    CommissionRate = 1
    RateDivisor = 4
    MinTradeValue = 9
    a = a
    b = b
    Keys = {1, 2, 3}
    Symbols = {a, b}
    Accounts <- MCAccounts
INVARIANTS
    ListAffordable
    WithinTarget
    GapsTraded
    TowardTarget
CHECK_DEADLOCK FALSE
