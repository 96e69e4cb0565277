\* Two open orders and a budget of one cancel per second stand for a sleeve whose
\* max_open_orders is above max_cancels_per_second (10).
SPECIFICATION GatewaySpec
CONSTANTS
    o1 = o1
    o2 = o2
    o3 = o3
    m1 = m1
    ClientOrderIds = {o1, o3}
    FillIds = {f1}
    Quantities = {1}
    FillQty <- MCFillQty
    AdoptableStates = {}
    Instruments = {m1}
    Terms <- MCBuys
    RequireMarketState = TRUE
    MaxOpenOrders = 2
    MaxQuoteAge = 0
    MaxOrdersPerSecond = 2
    MaxCancelsPerSecond = 1
    VenueStatuses = {"resting", "executed", "canceled", "rejected"}
    MaxTime = 1
    MaxRedeliveries = 0
    MaxLifecycleEvents = 2
PROPERTIES
    SuspensionCancelsAll
CHECK_DEADLOCK FALSE
