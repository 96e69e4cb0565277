---------------------------- MODULE WeatherSweep ----------------------------
(***************************************************************************)
(* The historical sweep of cli/weather.py: list the venue's temperature    *)
(* contracts page by page, fetch their candles with several requests under *)
(* way at a time, turn candles and archived forecasts into events, and     *)
(* replay the events with a running equity.  The replay's trading is       *)
(* Backtest's; here its effect on the equity is any of EquityMoves.        *)
(*                                                                         *)
(* world: phase, contracts (ticker -> market, as last listed), chunks (of  *)
(* tickers, in the order their tasks were made; each with its state and    *)
(* attempts), results (ticker -> [error, candles]), errors, aborted,       *)
(* events (what is replayed, in order), at (how many have been), diary.    *)
(***************************************************************************)
EXTENDS WeatherStudy

CONSTANTS SweepListings,    \* one for a series and status: pages of markets,
                            \* each [ticker, known, opens, closes, result]
          SweepCandles,     \* ticker -> its candles, each [at, bid, ask, price, volume]
          SweepHours,       \* the forecast: hour -> [temperature, cloud, wind]
          SweepThreshold,
          SweepTimes,       \* when the sweep may be run
          MaxPages, ChunkSize, Concurrency, RetryAttempts, ErrorLimit, MinCandles,
          SignalInterval, FallbackDepth,
          BaseUncertainty, MinUncertainty,
          EquityMoves

ASSUME SweepAssumption ==
    /\ {MaxPages, ChunkSize, Concurrency, MinCandles, SignalInterval} \subseteq Nat \ {0}
    /\ {RetryAttempts, ErrorLimit} \subseteq Nat
    /\ BaseUncertainty \in Nat /\ MinUncertainty \in Nat \ {0}

sweep_moves(changes) == happens(changes @@ world)
in_phase(p) == world.phase = p

SweepWorlds ==
    {[phase |-> "discover", contracts |-> <<>>, chunks |-> <<>>, results |-> <<>>, errors |-> 0,
      aborted |-> FALSE, events |-> <<>>, at |-> 0,
      diary |-> [path |-> <<0>>, peak |-> 0, max_drawdown |-> 0, peak_at_max |-> 0,
                 trough_at_max |-> 0, buckets |-> <<>>]]}

-----------------------------------------------------------------------------
(* Discovery. *)

(* The first MaxPages pages of every listing; what is not a temperature    *)
(* contract is passed over; a ticker listed again is as listed last.       *)
discovered ==
    LET pages == FlattenSeq(mapped(SweepListings, LAMBDA l : SubSeq(l, 1, Min({MaxPages, Len(l)}))))
        markets == SelectSeq(FlattenSeq(pages), LAMBDA m : m.known)
    IN  [t \in {m.ticker : m \in Range(markets)} |->
            markets[SelectLastInSeq(markets, LAMBDA m : m.ticker = t)]]

(* _contract_candle_window: up to now while the market is open. *)
candle_window(m, when) ==
    LET now_or_close == Min({m.closes, when})
    IN  <<m.opens, IF now_or_close <= m.opens THEN m.closes ELSE now_or_close>>

(* Contracts of one window are asked for together, ChunkSize at a time; a  *)
(* window's tasks come where its first contract does.                      *)
chunks_of(contracts, when) ==
    LET in_order == SetToSortSeq(DOMAIN contracts, <)
        window(t) == candle_window(contracts[t], when)
        firsts == SelectSeq(in_order, LAMBDA t : \A u \in DOMAIN contracts : window(u) = window(t) => t <= u)
        cut(s) == [k \in 1..((Len(s) + ChunkSize - 1) \div ChunkSize) |->
                     SubSeq(s, (k - 1) * ChunkSize + 1, Min({k * ChunkSize, Len(s)}))]
    IN  mapped(FlattenSeq(mapped(firsts, LAMBDA f : cut(SelectSeq(in_order, LAMBDA t : window(t) = window(f))))),
               LAMBDA c : [tickers |-> c, window |-> window(Head(c)), state |-> "waiting", attempt |-> 0])

sweep_discover ==
    /\ in_phase("discover")
    /\ \E when \in SweepTimes :
        sweep_moves([phase |-> "fetch", contracts |-> discovered, chunks |-> chunks_of(discovered, when)])

-----------------------------------------------------------------------------
(* _fetch_sweep_candles *)

under_way == {k \in DOMAIN world.chunks : world.chunks[k].state = "asking"}

results_for(k, Result(_)) ==
    [t \in Range(world.chunks[k].tickers) |-> Result(t)] @@ world.results

(* A task that gets through the semaphore asks, or gives up at once when   *)
(* the limit has been reached.                                             *)
enters(k) ==
    IF world.aborted
    THEN sweep_moves([chunks |-> [world.chunks EXCEPT ![k].state = "done"],
                      results |-> results_for(k, LAMBDA t : [error |-> "skipped", candles |-> <<>>])])
    ELSE sweep_moves([chunks |-> [world.chunks EXCEPT ![k].state = "asking"]])

(* The semaphore lets tasks through in the order they came. *)
sweep_enter ==
    /\ in_phase("fetch")
    /\ Cardinality(under_way) < Concurrency
    /\ \E k \in DOMAIN world.chunks :
        /\ world.chunks[k].state = "waiting"
        /\ \A j \in 1..(k - 1) : world.chunks[j].state # "waiting"
        /\ enters(k)

(* Candles without a ticker are taken only where one ticker was asked for. *)
allow_unlabeled(chunk) == Len(chunk.tickers) = 1

(* _candlesticks_for_payload: of a payload whose candles carry their       *)
(* ticker, and of one whose candles do not.                                *)
candles_of(chunk, t, labeled) ==
    LET within(u) == SelectSeq(SweepCandles[u], LAMBDA c : chunk.window[1] <= c.at /\ c.at <= chunk.window[2])
        all == FlattenSeq(mapped(chunk.tickers, LAMBDA u :
                   mapped(within(u), LAMBDA c : [owner |-> u] @@ c)))
    IN  IF labeled THEN SelectSeq(all, LAMBDA c : c.owner = t)
        ELSE IF allow_unlabeled(chunk) THEN all
        ELSE <<>>

sweep_answer ==
    /\ in_phase("fetch")
    /\ \E k \in under_way, labeled \in BOOLEAN :
        sweep_moves([chunks |-> [world.chunks EXCEPT ![k].state = "done"],
                     results |-> results_for(k, LAMBDA t : [error |-> "none",
                                                       candles |-> candles_of(world.chunks[k], t, labeled)])])

(* _should_retry_candle_error: too many requests, a server's error or a    *)
(* time-out, and attempts left.                                            *)
should_retry(k, passing) == passing /\ world.chunks[k].attempt < RetryAttempts

sweep_retry ==
    /\ in_phase("fetch")
    /\ \E k \in under_way :
        /\ should_retry(k, TRUE)
        /\ sweep_moves([chunks |-> [world.chunks EXCEPT ![k].attempt = @ + 1]])

sweep_fail ==
    /\ in_phase("fetch")
    /\ \E k \in under_way, passing \in BOOLEAN :
        LET errors == world.errors + Len(world.chunks[k].tickers)
        IN  /\ ~should_retry(k, passing)
            /\ sweep_moves([chunks |-> [world.chunks EXCEPT ![k].state = "done"],
                            errors |-> errors,
                            aborted |-> world.aborted \/ (ErrorLimit > 0 /\ errors >= ErrorLimit),
                            results |-> results_for(k, LAMBDA t : [error |-> "failed", candles |-> <<>>])])

-----------------------------------------------------------------------------
(* Events. *)

runnable ==
    {t \in DOMAIN world.results : /\ world.results[t].error = "none"
                                  /\ Len(world.results[t].candles) >= MinCandles}

(* _candle_depth *)
candle_depth(c) == IF c.volume > 0 THEN c.volume ELSE FallbackDepth

(* candlesticks_to_book_events: both sides, or no book. *)
book_events(t) ==
    mapped(SelectSeq(world.results[t].candles, LAMBDA c : c.bid # Missing /\ c.ask # Missing),
           LAMBDA c : [kind |-> "book", ticker |-> t, owner |-> c.owner, at |-> c.at, bid |-> c.bid,
                       ask |-> c.ask, depth |-> candle_depth(c)])

(* candlesticks_to_quote_events: around the last price when a side is      *)
(* missing.                                                                *)
quote_events(t) ==
    LET whole(c) == c.bid # Missing /\ c.ask # Missing
    IN  mapped(SelectSeq(world.results[t].candles, LAMBDA c : whole(c) \/ c.price # Missing),
               LAMBDA c : [kind |-> "quote", ticker |-> t, owner |-> c.owner, at |-> c.at,
                           bid |-> IF whole(c) THEN c.bid ELSE Max({1, c.price - 1}),
                           ask |-> IF whole(c) THEN c.ask ELSE Min({Dollar - 1, c.price + 1}),
                           depth |-> candle_depth(c)])

(* settlement_event_from_contract: a second after the close. *)
settlement_events(t) ==
    LET m == world.contracts[t]
    IN  IF m.result \in {"yes", "no"}
        THEN <<[kind |-> "settlement", ticker |-> t, owner |-> t, at |-> m.closes + 1, yes |-> m.result = "yes"]>>
        ELSE <<>>

(* TemperatureThresholdModel.predict at a target time: the nearest hour's  *)
(* temperature less what clouds take off, and an uncertainty that grows    *)
(* with the hours to go, the wind and the trend.                           *)
temperature_at(target, when) ==
    LET hour == CHOOSE h \in DOMAIN SweepHours :
                    \A g \in DOMAIN SweepHours : Max({h - target, target - h}) <= Max({g - target, target - g})
        p == SweepHours[hour]
        before == SweepHours[Max({hour - 1, Min(DOMAIN SweepHours)})]
        trend == Max({p.temperature - before.temperature, before.temperature - p.temperature})
    IN  [expected |-> p.temperature - Max({0, p.cloud - 65}) \div 10,
         uncertainty |-> Max({MinUncertainty,
                              BaseUncertainty + Max({0, hour - when}) + p.wind \div 10 + trend \div 4})]

predict(target, when) ==
    LET t == temperature_at(target, when)
    IN  tail(SweepThreshold - t.expected, t.uncertainty)

(* historical_temperature_signals at _signal_times: the archived forecast  *)
(* is stamped with the signal's own time.                                  *)
signals_between(t, start, end) ==
    [k \in 1..((end - start) \div SignalInterval + 1) |->
        LET at == start + (k - 1) * SignalInterval
        IN  [kind |-> "signal", ticker |-> t, owner |-> t, at |-> at,
             p |-> predict(world.contracts[t].closes, at)]]

(* From the first candle to the last. *)
signal_events(t) ==
    LET times == {c.at : c \in Range(world.results[t].candles)}
    IN  signals_between(t, Min(times), Max(times))

(* _event_sort_key: by time, then by the event's name, which starts with   *)
(* its kind.                                                               *)
event_sort_key(e) ==
    1000 * e.at + e.ticker
        + (CASE e.kind = "book" -> 100 [] e.kind = "quote" -> 200 [] e.kind = "settlement" -> 300
             [] e.kind = "signal" -> 400)

(* A contract whose forecast cannot be had keeps its other events. *)
sweep_events ==
    /\ in_phase("fetch")
    /\ \A k \in DOMAIN world.chunks : world.chunks[k].state = "done"
    /\ IF runnable = {} THEN sweep_moves([phase |-> "no_runnable_markets"])
       ELSE \E forecastable \in SUBSET runnable :
            LET of(t) == book_events(t) \o quote_events(t) \o settlement_events(t)
                         \o (IF t \in forecastable THEN signal_events(t) ELSE <<>>)
            IN  sweep_moves([phase |-> "replay",
                             events |-> sorted_by(FlattenSeq(mapped(SetToSeq(runnable), of)), event_sort_key)])

-----------------------------------------------------------------------------
(* run_weather_historical: one contract, named on the command line, over a *)
(* window that is given too.                                               *)

(* _load_historical_payloads: the candles of the window; a request that    *)
(* fails ends the command.  How the contract ended is not asked for.       *)
historical_load ==
    /\ in_phase("discover")
    /\ \E t \in DOMAIN SweepCandles, end \in SweepTimes, labeled \in BOOLEAN :
        LET chunk == [tickers |-> <<t>>, window |-> <<0, end>>, state |-> "done", attempt |-> 0]
        IN  sweep_moves([phase |-> "historical", chunks |-> <<chunk>>,
                         contracts |-> (t :> [ticker |-> t, known |-> TRUE, opens |-> 0, closes |-> end,
                                              result |-> ""]),
                         results |-> (t :> [error |-> "none",
                                            candles |-> candles_of(chunk, t, labeled)])])

(* However few the candles, signals fill the whole window. *)
historical_run ==
    /\ in_phase("historical")
    /\ \E t \in DOMAIN world.contracts :
        sweep_moves([phase |-> "replay",
                     events |-> sorted_by(book_events(t) \o quote_events(t)
                                            \o signals_between(t, 0, world.contracts[t].closes),
                                          event_sort_key)])

-----------------------------------------------------------------------------
(* write_weather_replay_diagnostics *)

(* _record_calibration: signals of contracts with a result, by tenths. *)
record_calibration(buckets, e) ==
    LET b == Min({9, e.p \div 10})
        row == IF b \in DOMAIN buckets THEN buckets[b] ELSE [signals |-> 0, sum |-> 0, yes |-> 0]
        result == world.contracts[e.ticker].result
    IN  IF e.kind # "signal" \/ result \notin {"yes", "no"} THEN buckets
        ELSE (b :> [signals |-> row.signals + 1, sum |-> row.sum + e.p,
                    yes |-> row.yes + (IF result = "yes" THEN 1 ELSE 0)]) @@ buckets

(* The peak first, then the drawdown from it. *)
record_equity(d, equity) ==
    LET peak == Max({d.peak, equity})
        drawdown == peak - equity
        deeper == drawdown > d.max_drawdown
    IN  [path |-> Append(d.path, equity), peak |-> peak,
         max_drawdown |-> IF deeper THEN drawdown ELSE d.max_drawdown,
         peak_at_max |-> IF deeper THEN peak ELSE d.peak_at_max,
         trough_at_max |-> IF deeper THEN equity ELSE d.trough_at_max] @@ d

(* One event: a book may fill an order and moves the marks. *)
sweep_replay ==
    /\ in_phase("replay") /\ world.at < Len(world.events)
    /\ \E move \in EquityMoves :
        LET e == world.events[world.at + 1]
            equity == Last(world.diary.path) + move
        IN  /\ move # 0 => e.kind = "book"
            /\ sweep_moves([at |-> world.at + 1,
                            diary |-> [record_equity(world.diary, equity)
                                        EXCEPT !.buckets = record_calibration(@, e)]])

-----------------------------------------------------------------------------

SweepNext ==
    \/ sweep_discover
    \/ sweep_enter
    \/ sweep_answer
    \/ sweep_retry
    \/ sweep_fail
    \/ sweep_events
    \/ historical_load
    \/ historical_run
    \/ sweep_replay

(* A contract is settled after the last of its prices is replayed, and is  *)
(* priced by its own candles only.                                         *)
SweepKnownInTime ==
    \A i, j \in DOMAIN world.events :
        /\ world.events[i].owner = world.events[i].ticker
        /\ world.events[i].kind = "settlement" /\ world.events[j].ticker = world.events[i].ticker => j <= i

(* The greatest fall of a path, from the definition. *)
greatest_fall(path) == Max(UNION {{path[i] - path[j] : j \in i..Len(path)} : i \in DOMAIN path})

(* Every contract has its one result; as many errors are counted as        *)
(* contracts failed, and what was under way when the limit was reached is  *)
(* all that may go past it; the drawdown is the path's; every signal of a  *)
(* settled contract is in one bucket.                                      *)
SweepBooks ==
    /\ DOMAIN world.results =
            UNION {Range(c.tickers) : c \in {c \in Range(world.chunks) : c.state = "done"}}
    /\ in_phase("replay") => DOMAIN world.results = DOMAIN world.contracts
    /\ world.errors = Cardinality({t \in DOMAIN world.results : world.results[t].error = "failed"})
    /\ ErrorLimit > 0 => world.errors < ErrorLimit + Concurrency * ChunkSize
    /\ world.diary.max_drawdown = greatest_fall(world.diary.path)
    /\ world.diary.peak_at_max - world.diary.trough_at_max = world.diary.max_drawdown
    /\ MapThenSumSet(LAMBDA b : world.diary.buckets[b].signals, DOMAIN world.diary.buckets)
        = Cardinality({k \in 1..world.at : /\ world.events[k].kind = "signal"
                                           /\ world.contracts[world.events[k].ticker].result \in {"yes", "no"}})
=============================================================================
