SPECIFICATION Spec
CONSTANTS
  SubmitLatency = 2
  CancelLatency = 1
  ClientOrderIds = {c1, c2}
  StartingCash = 170
  MaxOrderNotional = 165
  MaxPositionNotional = 200
  MaxGrossExposure = 200
  MaxDailyLoss = 60
  MaxSpread = 100
  MaxOrderLifetime = 2
  MaxMarketDataAge = 1
  AllowMarketOrders = FALSE
  AllowUnboundedGtc = FALSE
  Days = {0, 1, 2}
  DayLength = 2
  MaxEvents = 4
  MaxTime = 2
  MaxSkew = 1
CONSTANT
  Books <- MCBooks
  Quotes <- MCQuotes
  Trades <- MCTrades
  Lifecycles <- MCLifecycles
  Intents <- MCIntents
SYMMETRY
  Perms
INVARIANTS
  BacktestTypeOK
  LiquidityNotReused
  QueueRespected
  CashPartition
  LiveBuysFunded
  CashMatchesBooks
  FlushResolvesInflight
CHECK_DEADLOCK FALSE
