CONSTANTS
    Horizon = 1
    RfiTapes <- MCTapes
    RfiContexts <- MCContexts
    SettleDelay = 1
    RfiLadders = {}
    MinTrain = 1
    EarlyTrades = 2
    EarlyWindow = 1
    Crosses = {0}
    MinNetEdge = 1
    MaxContext = 15
    RfiQuoteAge = 1
    MinRows = 1
    MaxRaw = 0
SPECIFICATION Spec
INVARIANTS PriorSettled
CHECK_DEADLOCK FALSE
