\* The order path: a buy filled in two parts and a sell that would cross it,
\* unknown submits, overtaking and redelivered messages, one reconnect.
\* Every status map_venue_state has an arm for, and Kalshi's "executed", which it
\* has none for.  The one lifecycle event opens the market.  None of these
\* properties reads the clock, so one second with room for both orders and a refused
\* one is enough; the seconds are in MCGatewayMarket.cfg.
SPECIFICATION GatewaySpec
CONSTANTS
    o1 = o1
    o2 = o2
    o3 = o3
    m1 = m1
    ClientOrderIds = {o1, o2}
    FillIds = {f1, f2}
    Quantities = {1, 2}
    FillQty <- MCFillQty
    AdoptableStates = {}
    Instruments = {m1}
    Terms <- MCTerms
    RequireMarketState = TRUE
    MaxOpenOrders = 2
    MaxQuoteAge = 0
    MaxOrdersPerSecond = 3
    MaxCancelsPerSecond = 1
    VenueStatuses = {"resting", "partially_filled", "filled", "executed", "canceled", "rejected", "expired"}
    MaxTime = 0
    MaxRedeliveries = 1
    MaxLifecycleEvents = 1
INVARIANTS
    GatewayTypeOK
    NoOrphanOrders
    NoSelfCross
    OpenOrdersSynced
    PositionTracksVenue
SYMMETRY FillSymmetry
CHECK_DEADLOCK FALSE
