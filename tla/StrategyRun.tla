----------------------------- MODULE StrategyRun -----------------------------
(***************************************************************************)
(* One run of one strategy plugin: runner/base.py StrategyRunner around    *)
(* any of the plugins.  An event is handed to the plugin, its decisions    *)
(* pass the risk gate one by one, and the plugin hears the verdict on each *)
(* before the next event.                                                  *)
(*                                                                         *)
(* External: what the events say, the verdicts (SleeveAccount.tla models   *)
(* the gate; here it may refuse any decision, and refuses every order      *)
(* without a market snapshot) and what the venue does with an order.       *)
(***************************************************************************)
EXTENDS WeatherStrategy

CONSTANTS Jobs,             \* the plugins that are run
          Budget,           \* the events of a run, by plugin
          QuotePrices,      \* <<bid, ask>> pairs
          Probabilities,    \* what signals say, None and out of range included
          WeatherParams,    \* the weather plugin's parameter sets
          CashLevels        \* the cash a decision may be made with

VARIABLES job,          \* the plugin
          runner,       \* StrategyRunner.state
          s,            \* the plugin's state
          todo,         \* the event's decisions that await their verdict
          now,
          events,       \* events handed out so far
          market,       \* history: the last two-sided prices shown, in YES terms
          orders,       \* the orders the venue has, by client order id
          oversold      \* history: more was sold than had been bought

run_vars == <<job, runner, s, todo, now, events, market, orders, oversold>>

-----------------------------------------------------------------------------
(* The plugins. *)

(* The weather plugin runs live (LivePaper.tla) and on stored events. *)
LiveJobs == {"weather_taker", "weather_passive"}
Weathers == LiveJobs \cup {"weather_backtest"}

TwoSided == {"external_edge", "flu_hospitalization_surge", "crop_drought_yield_reversion",
             "entertainment_box_office", "tariff_headline_gap_fader",
             "shipping_chokepoint_delay", "wildfire_smoke_event_cancel",
             "earnings_guidance_language", "court_docket_timing",
             "spaceweather_grid_disruption", "energy_storage_weather_spread",
             "liquidity_tail_risk_insurance", "ladder_cdf", "politics_primary_momentum",
             "sports_hole_by_hole_pin", "microstructure_obi_scalper", "kalshi_noarb_scanner"}

own_state(p) ==
    CASE p = "liquidity_tail_risk_insurance" -> [m \in Markets |-> "none"]
      [] p = "sports_player_cut_lgbm" -> [m \in Markets |-> None]
      [] p = "kalshi_noarb_scanner" -> [m \in Markets |-> None]
      [] p \in {"sports_frl_weather_arb", "sports_hole_by_hole_pin"} -> {}
      [] p = "macro_cpi_predictor" -> [fields |-> {}, target |-> Ladder[1]]
      [] p = "macro_fed_gnn" -> None
      [] p = "aerospace_launch_delay" -> [near |-> None, fueling |-> None, paused |-> FALSE]
      [] p = "arbitrage_cross_venue" ->
            [v \in {"kalshi", "polymarket"} |-> [bid |-> None, ask |-> None]]
      [] p = "microstructure_obi_scalper" ->
            [open |-> [m \in Markets |-> None], pending_cancel |-> {}]
      [] p = "politics_legislative_cascade" ->
            [scores |-> [x \in Senators |-> NoQuote], total |-> 0, protective |-> TRUE]
      [] p = "sports_tennis_xgboost" -> NewTennis
      [] p \in Weathers -> NewWeather(WeatherParams[p])
      [] OTHER -> <<>>

(* A quote's prices are between nothing and One, or missing.               *)
ASSUME RunAssumption ==
    /\ QuotePrices \subseteq ((1 .. One - 1) \cup {None}) \X ((1 .. One - 1) \cup {None})
    /\ CashLevels \subseteq Int
    /\ \A p \in Weathers :
        /\ WeatherParams[p].ladder_notional \in Nat
        /\ \A x \in {"ladder", "trade", "kelly", "max_size", "near_edge", "static_capital"} :
                WeatherParams[p][x] \in Int

(* create_from_spec *)
new_plugin(p) ==
    [mid |-> [m \in Markets |-> None], quote |-> [m \in Markets |-> NoQuote],
     own |-> own_state(p), ids |-> 0]

on_event(p, t, e, ctx) ==
    CASE p = "external_edge" -> external_edge(t, e)
      [] p = "flu_hospitalization_surge" -> flu_hospitalization_surge(t, e)
      [] p = "crop_drought_yield_reversion" -> crop_drought_yield_reversion(t, e)
      [] p = "entertainment_box_office" -> entertainment_box_office(t, e)
      [] p = "tariff_headline_gap_fader" -> tariff_headline_gap_fader(t, e)
      [] p = "shipping_chokepoint_delay" -> shipping_chokepoint_delay(t, e)
      [] p = "wildfire_smoke_event_cancel" -> wildfire_smoke_event_cancel(t, e)
      [] p = "earnings_guidance_language" -> earnings_guidance_language(t, e)
      [] p = "court_docket_timing" -> court_docket_timing(t, e)
      [] p = "spaceweather_grid_disruption" -> spaceweather_grid_disruption(t, e)
      [] p = "energy_storage_weather_spread" -> energy_storage_weather_spread(t, e)
      [] p = "liquidity_tail_risk_insurance" -> liquidity_tail_risk_insurance(t, e)
      [] p = "ladder_cdf" -> ladder_cdf(t, e)
      [] p = "sports_cut_line_shifter" -> sports_cut_line_shifter(t, e)
      [] p = "sports_player_cut_lgbm" -> sports_player_cut_lgbm(t, e)
      [] p = "sports_frl_weather_arb" -> sports_frl_weather_arb(t, e)
      [] p = "macro_cpi_predictor" -> macro_cpi_predictor(t, e)
      [] p = "politics_primary_momentum" -> politics_primary_momentum(t, e)
      [] p = "example_threshold" -> example_threshold(t, e)
      [] p = "macro_fed_gnn" -> macro_fed_gnn(t, e)
      [] p = "aerospace_launch_delay" -> aerospace_launch_delay(t, e)
      [] p = "macro_nfp_absorber" -> macro_nfp_absorber(t, e)
      [] p = "arbitrage_cross_venue" -> arbitrage_cross_venue(t, e)
      [] p = "kalshi_noarb_scanner" -> kalshi_noarb_scanner(t, e)
      [] p = "microstructure_obi_scalper" -> microstructure_obi_scalper(t, e)
      [] p = "microstructure_queue_evader" -> microstructure_queue_evader(t, e)
      [] p = "politics_legislative_cascade" -> politics_legislative_cascade(t, e)
      [] p = "sports_hole_by_hole_pin" -> sports_hole_by_hole_pin(t, e)
      [] p = "sports_tennis_xgboost" -> sports_tennis_xgboost(t, e)
      [] p \in Weathers -> weather_temperature_arbitrage(t, e, ctx)

(* A plugin without an on_feedback of its own ignores the verdict. *)
on_feedback(p, t, d, accepted) ==
    CASE p = "microstructure_obi_scalper" -> obi_on_feedback(t, d, accepted)
      [] p = "politics_legislative_cascade" -> legislative_on_feedback(t, d, accepted)
      [] p = "sports_hole_by_hole_pin" -> hole_on_feedback(t, d, accepted)
      [] p = "sports_tennis_xgboost" -> tennis_on_feedback(t, d, accepted)
      [] p \in Weathers -> weather_on_feedback(t, d, accepted)
      [] OTHER -> t

-----------------------------------------------------------------------------
(* Events. *)

quotes ==
    {[kind |-> "quote", market |-> m, side |-> x, bid |-> p[1], ask |-> p[2]] :
        m \in Markets, x \in {"YES", "NO"}, p \in QuotePrices}

books == {[q EXCEPT !.kind = "book"] : q \in {r \in quotes : r.side = "YES"}}

signals ==
    [kind : {"signal"}, market : Markets \cup {None}, probability : Probabilities,
     gate : {"high", "low", "missing"}]

distributions == [kind : {"distribution"}, implied : [Markets -> Probabilities \cap 0 .. One]]

timers == [kind : {"timer"}, label : {"nfp_widen", "nfp_tighten", "other"}, shifted : BOOLEAN]

trades == [kind : {"trade"}, market : Markets, price : {60, 66, 120}, quantity : {1, 2}]

(* What the venue reports of an order it has: fills may be late. *)
reports ==
    {[kind |-> "own_update", id |-> id, status |-> x, price |-> orders[id].price,
      order_side |-> orders[id].order_side] :
        id \in DOMAIN orders, x \in {"open", "filled", "terminal"}}
    \cup [kind : {"own_reject"}, id : DOMAIN orders]
    \cup {[kind |-> "own_fill", id |-> id, quantity |-> 1] :
            id \in {i \in DOMAIN orders : orders[i].filled < orders[i].quantity}}

(* Orders someone else placed for the account at a level. *)
foreign_updates ==
    [kind : {"own_update"}, id : {1, 2}, status : {"open", "terminal"},
     price : {60, 66}, order_side : {"BUY", "SELL"}]

depths == [kind : {"book"}, depth : [{60, 66} \X {"BUY", "SELL"} -> {0, 2}]]

(* The events a plugin reacts to. *)
inputs(p) ==
    CASE p \in {"external_edge", "flu_hospitalization_surge", "crop_drought_yield_reversion",
                "entertainment_box_office", "tariff_headline_gap_fader",
                "shipping_chokepoint_delay", "wildfire_smoke_event_cancel",
                "earnings_guidance_language", "court_docket_timing",
                "spaceweather_grid_disruption", "sports_hole_by_hole_pin"} -> quotes \cup signals
      [] p = "energy_storage_weather_spread" -> quotes \cup books \cup signals
      [] p = "liquidity_tail_risk_insurance" ->
            quotes \cup signals \cup {with(b, "depth", x) : b \in books, x \in {"thin", "deep"}}
      [] p = "ladder_cdf" -> quotes \cup distributions
      [] p = "sports_cut_line_shifter" -> quotes \cup distributions \cup timers
      [] p = "sports_player_cut_lgbm" -> quotes \cup signals \cup timers
      [] p = "sports_frl_weather_arb" ->
            quotes \cup [kind : {"inputs"}, fields : SUBSET {"first", "second"},
                         implied : [Markets -> Probabilities \cap None .. One]]
      [] p = "macro_cpi_predictor" ->
            quotes \cup timers
              \cup [kind : {"inputs"}, fields : SUBSET {"first", "second"}, market : Markets]
      [] p = "politics_primary_momentum" ->
            quotes \cup [kind : {"settlement"}, market : Markets, resolved : {"YES", "NO", "none"}]
      [] p \in {"example_threshold", "macro_fed_gnn"} -> quotes \cup trades
      [] p = "aerospace_launch_delay" ->
            timers \cup [kind : {"launch"}, near : {None, 0, 1}, fueling : {None, 0, 1}]
              \cup [kind : {"lifecycle"}, market : Markets, status : {"open", "paused", "closed"}]
      [] p = "macro_nfp_absorber" -> timers \cup quotes
      [] p = "arbitrage_cross_venue" ->
            {with(q, "venue", v) : q \in quotes, v \in {"kalshi", "polymarket"}}
      [] p = "kalshi_noarb_scanner" ->
            {with(with(with(q, "bid_quantity", 1), "ask_quantity", 2), "at", t) :
                q \in quotes, t \in {now, now + 2}}
      [] p = "microstructure_obi_scalper" ->
            {with(b, "view", x) : b \in books, x \in {"long", "flip", "idle"}}
      [] p = "microstructure_queue_evader" ->
            foreign_updates \cup depths \cup {t \in trades : t.market = Ladder[1]}
      [] p = "politics_legislative_cascade" ->
            [kind : {"sentiment"}, senator : Senators, score : {None, -3, 2}, at : {now, now + 2}]
      [] p = "sports_tennis_xgboost" ->
            {q \in quotes : q.market = Ladder[1]} \cup reports
              \cup {x \in signals : x.market = Ladder[1] /\ x.gate # "missing"}
      [] p = "weather_backtest" ->
            quotes \cup {b \in books : b.market = Ladder[1]}
              \cup [kind : {"settlement"}, market : Markets]
              \cup [kind : {"signal"}, market : Markets, probability : Probabilities,
                   lead : {None, 0, 1}, ladder : Ladders, closes : {None}, at : {now}]

(* The clock a decision of event e is made with. *)
event_time(e) == IF "at" \in DOMAIN e THEN Max({now, e.at}) ELSE now

shown(e) ==
    IF e.kind \in {"quote", "book"} /\ "bid" \in DOMAIN e /\ two_sided(e)
    THEN [market EXCEPT ![e.market] = snapshot_for(e, "YES")] ELSE market

(* What an own fill does to the venue's record. *)
reported(e) ==
    IF e.kind = "own_fill" THEN [orders EXCEPT ![e.id].filled = @ + e.quantity] ELSE orders

traded_total(o, side) ==
    SumOver([i \in DOMAIN o |-> IF o[i].order_side = side THEN o[i].filled ELSE 0], DOMAIN o)
bought(o) == traded_total(o, "BUY")
sold(o) == traded_total(o, "SELL")

-----------------------------------------------------------------------------
(* StrategyRunner. *)

RunInit ==
    /\ job \in Jobs
    /\ runner = "created"
    /\ s = new_plugin(job)
    /\ todo = <<>>
    /\ now = 0
    /\ events = 0
    /\ market = [m \in Markets |-> NoQuote]
    /\ orders = <<>>
    /\ oversold = FALSE

(* start: INITIALIZING, on_init, READY, RUNNING. *)
runner_start ==
    /\ runner = "created"
    /\ runner' = "running"
    /\ UNCHANGED <<job, s, todo, now, events, market, orders, oversold>>

(* _attach_triggering_snapshot *)
wrap(d, e) ==
    IF d.do = "place" /\ e.kind \in {"quote", "book"} THEN [d EXCEPT !.evidence = TRUE] ELSE d

(* process_event, up to the first verdict. *)
hand_over(e, ctx) ==
    LET r == on_event(job, s, e, ctx)
    IN  /\ runner = "running" /\ todo = <<>> /\ events < Budget[job]
        /\ s' = r.s
        /\ todo' = [k \in DOMAIN r.out |-> wrap(r.out[k], e)]
        /\ market' = shown(e)
        /\ orders' = reported(e)
        /\ oversold' = (oversold \/ sold(reported(e)) > bought(reported(e)))
        /\ events' = events + 1
        /\ UNCHANGED <<job, runner>>

(* run: the next event of the stream. *)
process_event ==
    /\ job \notin LiveJobs
    /\ \E e \in inputs(job), cash \in CashLevels :
        /\ job \notin Weathers => cash = 0      \* no other plugin asks for it
        /\ hand_over(e, [now |-> event_time(e), cash |-> cash])
        /\ now' = event_time(e)

at_venue(d) ==
    [order_side |-> d.order_side, side |-> d.side, price |-> d.price, quantity |-> d.quantity,
     filled |-> 0]

(* An allowed decision goes to the sink and the plugin hears of it. *)
accept ==
    /\ todo # <<>>
    /\ LET d == Head(todo)
       IN  /\ d.do = "place" => d.evidence
           /\ s' = on_feedback(job, s, d, TRUE)
           /\ orders' = IF job = "sports_tennis_xgboost" THEN with(orders, d.id, at_venue(d))
                        ELSE orders
    /\ todo' = Tail(todo)
    /\ UNCHANGED <<job, runner, now, events, market, oversold>>

(* A refused decision, by the gate or by the cash reservation. *)
reject ==
    /\ todo # <<>>
    /\ s' = on_feedback(job, s, Head(todo), FALSE)
    /\ todo' = Tail(todo)
    /\ UNCHANGED <<job, runner, now, events, market, orders, oversold>>

(* stop, when the stream of events has ended. *)
runner_stop ==
    /\ job \notin LiveJobs
    /\ runner = "running" /\ todo = <<>> /\ events = Budget[job]
    /\ runner' = "disposed"
    /\ UNCHANGED <<job, s, todo, now, events, market, orders, oversold>>

RunNext == runner_start \/ process_event \/ accept \/ reject \/ runner_stop
=============================================================================
