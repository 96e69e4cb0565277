CONSTANTS
    Markets = {1, 2}
    MinEdge = 8
    Size = 2
    MaxOrders = 1
    MaxQuoteAge = 1
    Senators = {a, b}
    ScoreTtl = 1
    NegativeThreshold <- MCThreshold
    AdverseWindow = 2
    AdverseVolume = 3
    QueueThreshold = 1
    TrailingStop = 20
    Ladders = {"high", "threshold"}
    Jobs = {
        "external_edge", "flu_hospitalization_surge", "crop_drought_yield_reversion",
        "entertainment_box_office", "tariff_headline_gap_fader",
        "shipping_chokepoint_delay", "wildfire_smoke_event_cancel",
        "earnings_guidance_language", "court_docket_timing",
        "spaceweather_grid_disruption", "energy_storage_weather_spread",
        "liquidity_tail_risk_insurance", "ladder_cdf", "sports_cut_line_shifter",
        "sports_player_cut_lgbm", "sports_frl_weather_arb", "macro_cpi_predictor",
        "politics_primary_momentum", "example_threshold", "macro_fed_gnn",
        "aerospace_launch_delay", "macro_nfp_absorber", "arbitrage_cross_venue",
        "kalshi_noarb_scanner", "microstructure_obi_scalper",
        "microstructure_queue_evader", "politics_legislative_cascade",
        "sports_hole_by_hole_pin", "sports_tennis_xgboost", "weather_backtest",
        "weather_taker", "weather_passive",
        "baseball_rfi", "mlb_spread", "nba_spread", "golf_surface", "golf_models",
        "golf_preround", "tennis_models", "capital", "dry_gateway",
        "settlement_ledger", "book_replay", "bundles", "event_lake",
        "weather_kxhigh", "weather_sweep", "model_training", "model_export",
        "param_sweep", "ws_capture", "btc_recorder"}
    StudyJobs = {
        "baseball_rfi", "mlb_spread", "nba_spread", "golf_surface", "golf_models",
        "golf_preround", "tennis_models", "capital", "dry_gateway",
        "settlement_ledger", "book_replay", "bundles", "event_lake",
        "weather_kxhigh", "weather_sweep", "model_training", "model_export",
        "param_sweep", "ws_capture", "btc_recorder"}
    Days <- MCDays
    Runs <- MCRuns
    Horizon = 1
    RfiTapes <- MCTapes
    RfiContexts <- MCContexts
    SettleDelay = 1
    RfiLadders <- MCLadders
    MinTrain = 1
    EarlyTrades = 2
    EarlyWindow = 1
    Crosses = {0, 2}
    MinNetEdge = 1
    MaxContext = 15
    RfiQuoteAge = 1
    MinRows = 1
    MaxRaw = 2
    SpreadMarkets <- MCSpread
    SpreadPrices <- MCPrices
    SpreadEdge = 2
    FinalMargins <- MCMargins
    MaxLedger = 2
    Golfers = {1, 2, 3}
    Luck <- MCLuck
    CutRule = 2
    CutHoles = 2
    AllHoles = 4
    Simulations = 1
    GolfMarkets <- MCGolf
    GolfBooks <- MCGolfBooks
    GolfDeltas <- MCGolfDeltas
    GolfTrades <- MCGolfTrades
    GolfStarts <- MCStarts
    GolfEdge = 3
    GolfQuoteAge = 1
    GolfSize = 1
    MaxGolfRows = 2
    PreSubjects <- MCSubjects
    PreQuotes <- MCPreQuotes
    PreOdds = {40}
    PreSources = {"x", "y"}
    PreFairs = {20, 80}
    MinPreRows = 2
    PreEdge = 2
    PreSize = 1
    TennisMatches <- MCTennis
    TennisOrder <- MCTennisOrder
    TennisQuotes <- MCTennisQuotes
    RecentWindow = 2
    SeasonLength = 1
    TennisEdge = 2
    TennisConfidence = 50
    TennisDisagreement = 20
    OfficeOrders <- MCOffice
    TotalCapital = 100
    SleeveBudgets <- MCSleeves
    GroupBudgets <- MCGroups
    SleeveCaps <- MCCaps
    StoreSize = 1
    StoreTtl = 1
    CommandExpiry = 1
    LookMovement = 3
    LookSpread = 5
    LookQuotes <- MCLook
    Positions <- MCPositions
    BookLevels <- MCLevels
    BookTrades <- MCBookTrades
    MaxBooks = 1
    LakeMessages <- MCLake
    FoundFiles <- MCFound
    LakeBatch = 2
    Retention = 0
    Budget <- MCBudget
    QuotePrices <- MCQuotePrices
    Probabilities <- MCProbabilities
    WeatherParams <- MCWeather
    CashLevels <- MCCash
    KxHigh = {1}
    Closes <- MCCloses
    Discoveries <- MCDiscoveries
    LivePrices <- MCLivePrices
    MaxQueue = 1
    MaxNow = 2
    KxBrackets <- MCKx
    KxQuotes <- MCKxQuotes
    KxCandles <- MCKxCandles
    KxDays <- MCKxDays
    KxHistory <- MCKxHistory
    Warmup = 2
    UncalSigma = 4
    MinSigma = 2
    KxSize = 2
    KxMinEdge = 1
    SweepListings <- MCListings
    SweepCandles <- MCSweepCandles
    SweepHours <- MCHours
    SweepThreshold = 144
    SweepTimes = {1, 4}
    MaxPages = 2
    ChunkSize = 2
    Concurrency = 2
    RetryAttempts = 1
    ErrorLimit = 1
    MinCandles = 1
    SignalInterval = 1
    FallbackDepth = 5
    BaseUncertainty = 2
    MinUncertainty = 1
    EquityMoves <- MCMoves
    MtStreams <- MCStreams
    MtFilters = {"none", "i"}
    MtVersions = {1, 2}
    MtEnd = 4
    RollingWindow = 1
    MtScores <- MCScores
    MtFrames <- MCFrames
    MtBins = 4
    ExportDeltas = {0, 1, 2}
    ExportTolerance = 1
    ParityRows = 1
    GridParams <- MCParams
    GridWindows <- MCWindows
    GridWorkers = 2
    QueueSize = 2
    ShardSize = 2
    MaxReceived = 5
    BtcPrices <- MCBtcPrices
    BtcLags <- MCBtcLags
    BtcStrike = 100
    BtcQuote <- MCBtcQuote
    MaxComponentAge = 1
    MinVenues = 1
    VolPoints = 3
    ResidualLatency = 0
    BtcMinEdge = 2
    MaxTicks = 4
    BtcQueueSize = 1
SPECIFICATION Spec
INVARIANTS PricedFromTheMarket NoTradeAtTheClose RunningTotals KnownInTime BooksReconcile
CHECK_DEADLOCK FALSE
