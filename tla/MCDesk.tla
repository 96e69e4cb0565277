------------------------------- MODULE MCDesk -------------------------------
EXTENDS Desk

(* The strategy plugins. *)

MCQuotePrices == {<<60, 64>>, <<120, 126>>, <<60, None>>}
MCProbabilities == {None, 30, 170, 230}
MCLivePrices == {<<60, 64>>}
MCDiscoveries == {{}, {1, 2}}
MCCash == {0, 2000}
MCCloses == <<1, None>>
MCThreshold == -4

params ==
    [taker |-> TRUE, quote_triggered |-> TRUE, max_spread |-> 10, multiplier |-> 50,
     near_price |-> 190, near_edge |-> 10, ladder_notional |-> 150, ladder |-> 50, active |-> 20,
     trade |-> 10, ladder_orders |-> 3, ticker_orders |-> 2, price_delta |-> 4,
     probability_delta |-> 4, max_signal_age |-> 1, min_close |-> 1, max_size |-> 2, kelly |-> 50,
     static_capital |-> 0]

MCWeather ==
    [weather_taker |-> params,
     weather_passive |-> [params EXCEPT !.taker = FALSE, !.trade = 0, !.ladder = 0, !.active = 0],
     weather_backtest |-> [params EXCEPT !.min_close = 0, !.static_capital = 400]]

MCBudget ==
    [p \in Jobs |-> CASE p = "sports_tennis_xgboost" -> 7
                      [] p \in {"weather_taker", "weather_passive"} -> 2
                      [] p = "weather_backtest" -> 3
                      [] OTHER -> 4]

(* The bounds are those of the theorem about prices. *)
ASSUME MCVenue == VenueQuotes /\ TwoStates

-----------------------------------------------------------------------------
(* The studies and services. *)

MCDays ==
    [j \in StudyJobs |-> CASE j \in {"baseball_rfi", "golf_preround", "tennis_models"} -> 2
                           [] j \in {"weather_kxhigh", "btc_recorder"} -> 3
                           [] j \in {"model_training", "model_export", "param_sweep"} -> 0
                           [] OTHER -> 1]
MCRuns ==
    [j \in StudyJobs |-> CASE j \in {"golf_surface", "golf_models", "golf_preround"} -> 3
                           [] j \in {"event_lake", "model_training"} -> 3
                           [] j \in {"tennis_models", "model_export"} -> 2
                           [] j \in {"weather_sweep", "param_sweep", "ws_capture", "btc_recorder"} -> 1
                           [] OTHER -> 4]

MCLuck == {0, 1}

print(at, price, quantity) == [at |-> at, price |-> price, quantity |-> quantity]
MCTapes == {<<print(0, 30, 2), print(1, 60, 1)>>, <<print(1, 44, 0), print(3, 90, 0)>>, <<>>}
MCContexts ==
    {<<>>, <<[market |-> "g3", as_of |-> 1, delta |-> 20], [market |-> "g2", as_of |-> 0, delta |-> -5]>>}
MCLadders == {{30}, {30, 60}}

MCSpread ==
    [t1 |-> [game |-> "A", role |-> "home", threshold |-> 2, fair |-> 60],
     t2 |-> [game |-> "B", role |-> "away", threshold |-> 1, fair |-> 30]]
MCPrices == {<<40, 44>>, <<52, 56>>}
MCMargins == [A |-> {3}, B |-> {-2}]

MCGolf ==
    [p1top1 |-> [family |-> "top_n", subject |-> 1, top_n |-> 1],
     p1top2 |-> [family |-> "top_n", subject |-> 1, top_n |-> 2]]
MCGolfBooks ==
    [t \in DOMAIN MCGolf |->
        {[yes |-> (70 :> 2), no |-> (20 :> 2)], [yes |-> (30 :> 2), no |-> (60 :> 2)]}]
MCGolfDeltas == [p1top1 |-> {[side |-> "yes", price |-> 40, delta |-> 1]}, p1top2 |-> {}]
MCGolfTrades == [p1top1 |-> {[side |-> "YES", price |-> 35]}, p1top2 |-> {}]
MCStarts ==
    {[as_of |-> 0, score |-> <<0, 0, 1>>, holes |-> <<2, 4, 4>>]}

MCSubjects ==
    [a1 |-> [event |-> 1, start |-> 0, player |-> 1, top_n |-> 1],
     b1 |-> [event |-> 2, start |-> 1, player |-> 2, top_n |-> 1]]
MCPreQuotes == {[bid |-> 20, ask |-> 24, size |-> 2]}

match(date, tourney, num, day, players, surface, odds) ==
    [date |-> date, tourney |-> tourney, num |-> num, day |-> day, players |-> players,
     surface |-> surface, odds |-> odds]
MCTennis ==
    [s1 |-> match(0, 1, 1, 0, <<"a", "b">>, "hard", 60),
     t1 |-> match(1, 2, 1, 1, <<"b", "d">>, "clay", 40),
     s3 |-> match(0, 1, 3, 2, <<"a", "c">>, "hard", 70),
     u1 |-> match(2, 3, 1, 2, <<"b", "a">>, "hard", 50)]
MCTennisOrder == <<"s1", "t1", "s3", "u1">>
MCTennisQuotes == {<<40, 44>>, <<70, 74>>}

-----------------------------------------------------------------------------

office(sleeve, group, amount, tier) ==
    [sleeve |-> sleeve, group |-> group, amount |-> amount, tier |-> tier]
MCOffice ==
    <<office("a", "g", 40, 2), office("b", "g", 40, 0), office("a", "h", 30, 2), office("c", "h", 10, 2)>>
MCSleeves == [a |-> 60, b |-> 60]
MCGroups == [g |-> 70]
MCCaps == [a |-> 100, b |-> 30]
MCLook == {<<40, 44>>, <<45, 60>>}
MCPositions == [YES |-> 2, NO |-> 1]

ladders(bid, ask) ==
    LET turned(l) == [p \in {Dollar - q : q \in DOMAIN l} |-> l[Dollar - p]]
    IN  (<<"yes", "bids">> :> bid) @@ (<<"yes", "asks">> :> ask)
            @@ (<<"no", "asks">> :> turned(bid)) @@ (<<"no", "bids">> :> turned(ask))
MCLevels == {ladders((40 :> 2) @@ (39 :> 1), (44 :> 1)), ladders((40 :> 1), (60 :> 2))}
MCBookTrades ==
    {[side |-> "yes", aggressor |-> "no", price |-> 40, size |-> 1],
     [side |-> "no", aggressor |-> "no", price |-> 60, size |-> 1],
     [side |-> "yes", aggressor |-> "yes", price |-> 44, size |-> 1]}

message(channel, source, secret, content) ==
    [channel |-> channel, source |-> source, secret |-> secret, content |-> content]
MCLake ==
    {message("ticker", "ws", FALSE, [side |-> "both", bid |-> 40, ask |-> 44]),
     message("ticker", "ws", FALSE, [side |-> "both", bid |-> 40, ask |-> Missing]),
     message("trade", "ws", FALSE, [side |-> "no", price |-> 40]),
     message("market_lifecycle_v2", "ws", FALSE, [side |-> "none", type |-> "deactivated"]),
     message("orders", "ws", TRUE, [side |-> "none", order |-> 1]),
     message("balance", "portfolio", TRUE, [side |-> "none", order |-> 1])}
MCFound == {[version |-> 0, column |-> 0], [version |-> 2, column |-> 2]}

-----------------------------------------------------------------------------
(* Weather. *)

bracket(type, floor, cap) == [type |-> type, floor |-> floor, cap |-> cap]
MCKx ==
    [low |-> bracket("less", 0, 71), mid |-> bracket("between", 71, 72), top |-> bracket("greater", 72, 0)]
level(bid, ask) == [bid |-> bid, ask |-> ask]
MCKxQuotes ==
    {[low |-> level(20, 24), mid |-> level(40, 44), top |-> level(30, 34)],
     [low |-> level(0, 90), mid |-> level(70, 74), top |-> level(10, 14)]}
MCKxCandles ==
    <<level(60, 64) @@ [at |-> 2], level(0, 64) @@ [at |-> 3], level(60, 90) @@ [at |-> 4]>>
target_day(high, forecasts) == [high |-> high, forecast |-> forecasts]
MCKxDays ==
    {target_day(<<140, 141>>, <<140, 143>>), target_day(<<145, 142>>, <<142, 144>>),
     target_day(<<141, 144>>, <<140, 142>>)}
MCKxHistory ==
    <<[forecast |-> 140, actual |-> 146], [forecast |-> 142, actual |-> 137],
      [forecast |-> 139, actual |-> 146], [forecast |-> 141, actual |-> 138]>>

listing(ticker, known, opens, closes, result) ==
    [ticker |-> ticker, known |-> known, opens |-> opens, closes |-> closes, result |-> result]
MCListings ==
    <<<<<<listing(1, TRUE, 0, 2, "")>>, <<listing(2, TRUE, 0, 2, "yes")>>>>,
      <<<<listing(1, TRUE, 0, 2, "no"), listing(9, FALSE, 0, 2, "no")>>,
        <<listing(3, TRUE, 1, 3, ""), listing(4, TRUE, 2, 4, ""), listing(5, TRUE, 2, 4, "no")>>,
        <<listing(6, TRUE, 0, 2, "no")>>>>>>
candle_at(at, bid, ask, price, volume) ==
    [at |-> at, bid |-> bid, ask |-> ask, price |-> price, volume |-> volume]
MCSweepCandles ==
    [t \in 1..6 |->
        CASE t = 1 -> <<candle_at(1, 40, 44, Missing, 0), candle_at(2, 50, 54, Missing, 3)>>
          [] t = 2 -> <<candle_at(2, Missing, 54, 52, 1), candle_at(3, 50, 54, Missing, 3)>>
          [] OTHER -> <<>>]
MCHours == [h \in 0..2 |-> [temperature |-> 140 + 4 * h, cloud |-> 50 + 20 * h, wind |-> 10 * h]]
MCMoves == {-1, 0, 2}

-----------------------------------------------------------------------------
(* Training, and the recorders. *)

quoted(at, i, bid, ask) == [at |-> at, kind |-> "quote", instrument |-> i] @@ level(bid, ask)
pictured(at, i, bid, ask, bids, asks) ==
    [at |-> at, kind |-> "book", instrument |-> i, bids |-> bids, asks |-> asks] @@ level(bid, ask)
printed(at, i, price, quantity) ==
    [at |-> at, kind |-> "trade", instrument |-> i, price |-> price, quantity |-> quantity]
ended(at, i, side) == [at |-> at, kind |-> "settled", instrument |-> i, side |-> side]
ticked(at) == [at |-> at, kind |-> "timer", instrument |-> "none"]
MCStreams ==
    {<<quoted(0, "i", 40, 44), printed(0, "j", 30, 2), pictured(1, "i", 50, 54, 2, 1), quoted(1, "i", 60, 62),
       quoted(2, "i", 30, 34), ended(4, "i", "yes")>>,
     <<printed(0, "i", 40, 1), quoted(1, "i", Missing, 44), ticked(1), quoted(3, "j", 20, 30),
       quoted(3, "i", 50, 52), ended(3, "i", "no"), quoted(2, "i", 40, 42)>>}
rated(label_is, score_is) == [label |-> label_is, score |-> score_is]
MCScores ==
    {<<rated(1, 50), rated(0, 50), rated(1, 100), rated(0, 20)>>, <<rated(1, 10), rated(1, 90)>>}
MCFrames == {<<1, 3, 1, 2, 3, 4>>, <<2, 1, 1, 2, 2, 2, 1>>, <<1, 2, 3, 3, 3>>, <<1>>}
MCParams == <<3, 1>>
MCWindows == <<2, 1>>

MCBtcQuote == level(30, 40)
MCBtcPrices == [coinbase |-> {110}, kraken |-> {98}, cfb |-> {100}]
MCBtcLags == [coinbase |-> {0}, kraken |-> {0}, cfb |-> {0}]
=============================================================================
