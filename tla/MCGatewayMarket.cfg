\* One slot for two orders, three lifecycle events and two seconds: the market opens,
\* can close and reopen around a quote, and a slot must be released to be reused.
SPECIFICATION FairGatewaySpec
CONSTANTS
    o1 = o1
    o2 = o2
    o3 = o3
    m1 = m1
    ClientOrderIds = {o1, o3}
    FillIds = {f1}
    Quantities = {1}
    FillQty <- MCFillQty
    AdoptableStates = {}
    Instruments = {m1}
    Terms <- MCBuys
    RequireMarketState = TRUE
    MaxOpenOrders = 1
    MaxQuoteAge = 0
    MaxOrdersPerSecond = 1
    MaxCancelsPerSecond = 1
    VenueStatuses = {"resting", "filled", "executed", "canceled", "rejected", "expired"}
    MaxTime = 1
    MaxRedeliveries = 0
    MaxLifecycleEvents = 3
INVARIANTS
    VenueOrdersBounded
PROPERTIES
    PlacedOnFreshQuote
    DoneOrdersReleased
CHECK_DEADLOCK FALSE
