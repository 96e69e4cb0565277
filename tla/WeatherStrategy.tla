--------------------------- MODULE WeatherStrategy ---------------------------
(***************************************************************************)
(* weather_temperature_arbitrage: buys temperature brackets that a         *)
(* forecast prices away from the market, and caps what it has bought per   *)
(* ticker, per ladder and in all.                                          *)
(*                                                                         *)
(* s.own.params is the strategy spec.  Fractions (kelly, trade, ladder,    *)
(* active, multiplier) are percentages, 0 when off; money is in half cents.*)
(* ctx has the clock and the cash a decision is made with.                 *)
(***************************************************************************)
EXTENDS OrderStrategies

CONSTANT Ladders        \* the ladder keys: a ticker root and a target time

NewWeather(params) ==
    [params |-> params, signal |-> [m \in Markets |-> NoQuote],
     pending |-> <<>>, accepted |-> <<>>,
     ladder |-> [l \in Ladders |-> 0], ladder_orders |-> [l \in Ladders |-> 0],
     instrument |-> [m \in Markets |-> 0], ticker_orders |-> [m \in Markets |-> 0],
     active |-> 0, last |-> [m \in Markets |-> NoQuote]]

without(f, key) == [k \in DOMAIN f \ {key} |-> f[k]]

(* _track_mid does not look at the quote's side; _track_book reads the YES *)
(* book.  Both need two sides.                                             *)
track_mid(s, q) == cache_any_mid(s, q)

track_book(s, b) == cache_any_mid(s, [b EXCEPT !.side = "YES"])

-----------------------------------------------------------------------------
(* Sizes and caps. *)

(* _available_capital *)
available_capital(w, ctx) == IF ctx.cash > 0 THEN ctx.cash ELSE w.static_capital

(* _size_for_edge and _cap_size_by_trade_notional: at least one contract,  *)
(* unless the capital does not pay for it.                                 *)
size_for_edge(w, edge, price, capital) ==
    LET fraction == Min({Abs(edge), One})
        raw == IF w.trade > 0
               THEN (capital * w.trade * fraction * w.kelly) \div (10000 * One * price)
               ELSE (fraction * w.kelly * w.max_size) \div (100 * One)
        cap == IF w.trade > 0 THEN Min({100 * capital, w.trade * capital}) ELSE 100 * capital
    IN  Min({Max({raw, 1}), w.max_size, cap \div (100 * price)})

(* _max_ladder_notional *)
max_ladder_notional(w, capital) ==
    IF w.ladder > 0 THEN Min({w.ladder_notional, (w.ladder * capital) \div 100})
    ELSE w.ladder_notional

can_add_ladder_exposure(own, ladder, m, notional, capital) ==
    /\ own.ticker_orders[m] < own.params.ticker_orders
    /\ own.ladder_orders[ladder] < own.params.ladder_orders
    /\ own.ladder[ladder] + notional <= max_ladder_notional(own.params, capital)

can_add_active_exposure(own, notional, capital) ==
    own.params.active > 0 => 100 * (own.active + notional) <= own.params.active * capital

can_retrade(own, m, price, probability) ==
    \/ own.last[m] = NoQuote
    \/ Abs(price - own.last[m].price) >= own.params.price_delta
    \/ Abs(probability - own.last[m].probability) >= own.params.probability_delta

-----------------------------------------------------------------------------
(* Decisions.  A "tick" is a quote or a book: it prices the last signal    *)
(* again.                                                                  *)

(* _place_order: the trade is remembered even when it is then refused. *)
weather_place_order(s, signal, side, price, edge, capital) ==
    LET size == size_for_edge(s.own.params, edge, price, capital)
        order == [ladder |-> signal.ladder, market |-> signal.market,
                  notional |-> price * size, price |-> price,
                  probability |-> signal.probability]
        d == [place(signal.market, side, price, size, "IOC", TRUE) EXCEPT !.closes = signal.closes]
    IN  IF /\ can_retrade(s.own, signal.market, price, signal.probability)
           /\ size > 0
           /\ can_add_ladder_exposure(s.own, signal.ladder, signal.market, price * size, capital)
           /\ can_add_active_exposure(s.own, price * size, capital)
        THEN emit([s EXCEPT !.own.pending = with(s.own.pending, s.ids + 1, order),
                            !.own.last[signal.market] =
                                [price |-> price, probability |-> signal.probability]], d)
        ELSE quiet(s)

(* _taker_decision *)
taker_decision(s, signal, capital) ==
    LET w == s.own.params
        q == s.quote[signal.market]
        no_ask == One - q.bid
        spread == q.ask - q.bid
        charge(ask) == IF ask >= w.near_price THEN w.near_edge ELSE 0
        yes_edge == signal.probability - q.ask - charge(q.ask)
        no_edge == (One - signal.probability) - no_ask - charge(no_ask)
        required == 100 * MinEdge + spread * w.multiplier
    IN  IF spread > w.max_spread \/ 100 * Max({yes_edge, no_edge}) < required THEN quiet(s)
        ELSE IF yes_edge >= no_edge
        THEN weather_place_order(s, signal, "YES", q.ask, yes_edge, capital)
        ELSE weather_place_order(s, signal, "NO", no_ask, no_edge, capital)

(* The passive mode: at the mid, with no caps and nothing remembered. *)
passive_decision(s, signal, capital) ==
    LET mid == s.mid[signal.market]
        side == IF signal.probability > mid THEN "YES" ELSE "NO"
        price == buy_limit_from_fair(IF side = "YES" THEN mid ELSE One - mid)
        size == size_for_edge(s.own.params, signal.probability - mid, price, capital)
    IN  IF Abs(signal.probability - mid) < MinEdge \/ size <= 0 THEN quiet(s)
        ELSE emit(s, [place(signal.market, side, price, size, "GTD", TRUE)
                        EXCEPT !.closes = signal.closes])

(* Mutant of near_close: the time left when the signal was made is used. *)
near_close_of_signal(w, signal, now) ==
    w.min_close > 0 /\ signal.closes # None /\ signal.closes - signal.at < w.min_close

(* The close guard of _forecast_decision, and _seconds_until. *)
near_close(w, signal, now) ==
    w.min_close > 0 /\ signal.closes # None /\ signal.closes - now < w.min_close

(* _forecast_decision *)
forecast_decision(s, signal, ctx) ==
    LET w == s.own.params
        capital == available_capital(w, ctx)
    IN  CASE near_close(w, signal, ctx.now) \/ s.mid[signal.market] = None \/ capital <= 0 -> quiet(s)
          [] OTHER -> IF w.taker THEN taker_decision(s, signal, capital)
                      ELSE passive_decision(s, signal, capital)

(* _latest_tick_decision *)
latest_tick_decision(s, m, ctx) ==
    LET signal == s.own.signal[m]
    IN  IF \/ ~s.own.params.quote_triggered
           \/ signal = NoQuote
           \/ Max({0, ctx.now - signal.at}) > s.own.params.max_signal_age
        THEN quiet(s)
        ELSE forecast_decision(s, signal, ctx)

(* _release_settled_notional: the ladder and the order counts stay. *)
release_settled_notional(own, m) ==
    [own EXCEPT !.active = Max({0, @ - own.instrument[m]}), !.instrument[m] = 0]

(* on_event *)
weather_temperature_arbitrage(s, e, ctx) ==
    CASE e.kind = "settlement" -> quiet([s EXCEPT !.own = release_settled_notional(@, e.market)])
      [] e.kind = "quote" -> latest_tick_decision(track_mid(s, e), e.market, ctx)
      [] e.kind = "book" -> latest_tick_decision(track_book(s, e), e.market, ctx)
      [] e.kind = "signal" ->
            IF e.lead \notin {None, 0} \/ e.market = None \/ ~bounded(e.probability) THEN quiet(s)
            ELSE forecast_decision([s EXCEPT !.own.signal[e.market] = e], e, ctx)
      [] OTHER -> quiet(s)

(* _record_accepted_order *)
record_accepted_order(own, id) ==
    LET o == own.pending[id]
    IN  [own EXCEPT !.pending = without(own.pending, id), !.accepted = with(own.accepted, id, o),
                    !.ladder[o.ladder] = @ + o.notional, !.instrument[o.market] = @ + o.notional,
                    !.active = @ + o.notional, !.ladder_orders[o.ladder] = @ + 1,
                    !.ticker_orders[o.market] = @ + 1,
                    !.last[o.market] = [price |-> o.price, probability |-> o.probability]]

weather_on_feedback(s, d, accepted) ==
    IF d.id \notin DOMAIN s.own.pending THEN s
    ELSE IF accepted THEN [s EXCEPT !.own = record_accepted_order(@, d.id)]
    ELSE [s EXCEPT !.own.pending = without(s.own.pending, d.id)]
=============================================================================
