-------------------------- MODULE SignalStrategies --------------------------
(***************************************************************************)
(* The strategy plugins (python/.../plugins/strategies) that keep no track *)
(* of their own orders: they cache market data, wait for a signal, a timer *)
(* a trade or a settlement, compare a probability with the cached price    *)
(* and buy.                                                                *)
(*                                                                         *)
(* A plugin is an operator on its state s and an event e, and returns the  *)
(* state after on_event and the decisions, in order; a NoAction is left    *)
(* out.  What a plugin keeps besides mids and quotes is s.own.  Prices     *)
(* and probabilities are in half cents, because a mid is: a contract pays  *)
(* One and a venue tick is Tick.  A payload value that is missing or does  *)
(* not parse is None; "gate" says how the payload's confidence (shock,     *)
(* AQI, Kp, ...) compares with the configured floor: "high" clears it,     *)
(* "low" does not, "missing" counts as zero or fails closed.  A model's or *)
(* a rule's probability is an input of the event.                          *)
(***************************************************************************)
EXTENDS Integers, Sequences, SequencesExt, FiniteSets, FiniteSetsExt, Lists

CONSTANTS Markets,          \* the market ids, in ladder order
          MinEdge,          \* min_edge_bps
          Size,             \* size
          MaxOrders,        \* max_orders, max_orders_per_timer
          MaxQuoteAge       \* max_quote_age_seconds

ASSUME SignalAssumption ==
    /\ IsFiniteSet(Markets)
    /\ MinEdge \in Nat \ {0} /\ Size \in Nat \ {0}
    /\ MaxOrders \in Nat \ {0} /\ MaxQuoteAge \in Nat

One == 200
Tick == 2
None == -1
Ladder == SetToSeq(Markets)
NoQuote == [kind |-> "none"]

Abs(n) == IF n < 0 THEN -n ELSE n

quiet(s) == [s |-> s, out |-> <<>>]
decide(s, decisions) == [s |-> s, out |-> decisions]

-----------------------------------------------------------------------------
(* strategy/pricing.py and the _clip helpers. *)

clamp_price(p) == Max({Tick, Min({One - Tick, p})})

floor_to_tick(p) == (p \div Tick) * Tick

buy_limit_from_fair(p) == clamp_price(floor_to_tick(p))

-----------------------------------------------------------------------------
(* Quotes.  A Kalshi market quotes both of its sides; the other side's     *)
(* price is the complement.                                                *)

flip(p) == IF p = None THEN None ELSE One - p

(* market_snapshot_from_quote_event *)
snapshot_for(q, side) ==
    IF q.side = side THEN [bid |-> q.bid, ask |-> q.ask]
    ELSE [bid |-> flip(q.ask), ask |-> flip(q.bid)]

two_sided(q) == q.bid # None /\ q.ask # None

mid_of(q) == (q.bid + q.ask) \div 2

(* Mutant of yes_mid: the mid of a NO quote is taken for a YES mid. *)
yes_mid_unflipped(q) == mid_of(q)

yes_mid(q) == IF q.side = "YES" THEN mid_of(q) ELSE One - mid_of(q)

(* A plugin's quote branch: a one-sided quote changes nothing. *)
cache_mid(s, q) ==
    IF two_sided(q) THEN [s EXCEPT !.mid[q.market] = yes_mid(q)] ELSE s

cache_quote(s, q) ==
    IF two_sided(q) THEN [s EXCEPT !.mid[q.market] = yes_mid(q), !.quote[q.market] = q]
    ELSE s

(* The quote branch of the plugins that do not look at the quote's side. *)
cache_any_mid(s, q) ==
    IF two_sided(q) THEN [s EXCEPT !.mid[q.market] = mid_of(q), !.quote[q.market] = q]
    ELSE s

(* The YES mid and depth of a book event. *)
cache_book(s, b) == IF two_sided(b) THEN [s EXCEPT !.mid[b.market] = mid_of(b)] ELSE s

-----------------------------------------------------------------------------
(* Orders. *)

place(m, side, price, quantity, tif, evidence) ==
    [do |-> "place", market |-> m, side |-> side, order_side |-> "BUY", price |-> price,
     quantity |-> quantity, tif |-> tif, evidence |-> evidence, closes |-> None]

has_edge(probability, mid) == mid # None /\ Abs(probability - mid) >= MinEdge

(* Buys the side the probability favours at that side's mid. The plugins   *)
(* that send the cached market with an order also floor its price to a     *)
(* tick; the others only keep it within the venue's range.                 *)
edge_order(s, m, probability, cached) ==
    LET side == IF probability > s.mid[m] THEN "YES" ELSE "NO"
        price == IF side = "YES" THEN s.mid[m] ELSE One - s.mid[m]
    IN  place(m, side, IF cached THEN buy_limit_from_fair(price) ELSE clamp_price(price), Size, "GTC", cached)

bounded(p) == p \in 0 .. One

(* The signal branch these plugins share. *)
signal_edge(s, e, ready, cached) ==
    IF /\ ready
       /\ e.market # None /\ e.probability # None
       /\ has_edge(e.probability, s.mid[e.market])
    THEN decide(s, <<edge_order(s, e.market, e.probability, cached)>>)
    ELSE quiet(s)

external_edge(s, e) ==
    CASE e.kind = "quote" -> quiet(cache_quote(s, e))
      [] e.kind = "signal" ->
            signal_edge(s, e, bounded(e.probability) /\ e.gate = "high", TRUE)
      [] OTHER -> quiet(s)

flu_hospitalization_surge(s, e) ==
    CASE e.kind = "quote" -> quiet(cache_quote(s, e))
      [] e.kind = "signal" ->
            signal_edge(s, e, bounded(e.probability), TRUE)
      [] OTHER -> quiet(s)

crop_drought_yield_reversion(s, e) ==
    CASE e.kind = "quote" -> quiet(cache_quote(s, e))
      [] e.kind = "signal" ->
            signal_edge(s, e, bounded(e.probability) /\ e.gate = "high", TRUE)
      [] OTHER -> quiet(s)

(* _gross_to_prob: linear in the extrapolated gross (here a percentage of  *)
(* the target) between 5% at half the target and 95% at one and a half.    *)
gross_to_prob(gross) ==
    CASE gross <= 50 -> One \div 20
      [] gross >= 150 -> One - One \div 20
      [] OTHER -> One \div 20 + ((gross - 50) * 9 * One) \div 1000

entertainment_box_office(s, e) ==
    CASE e.kind = "quote" -> quiet(cache_quote(s, e))
      [] e.kind = "signal" ->
            IF e.probability = None THEN quiet(s)
            ELSE signal_edge(s, [e EXCEPT !.probability = gross_to_prob(e.probability)],
                             e.market = Ladder[1] /\ e.gate = "high", TRUE)
      [] OTHER -> quiet(s)

(* The plugins below send no market snapshot with a signal's order. *)
tariff_headline_gap_fader(s, e) ==
    CASE e.kind = "quote" -> quiet(cache_mid(s, e))
      [] e.kind = "signal" -> signal_edge(s, e, e.gate = "high", FALSE)
      [] OTHER -> quiet(s)

shipping_chokepoint_delay(s, e) ==
    CASE e.kind = "quote" -> quiet(cache_mid(s, e))
      [] e.kind = "signal" -> signal_edge(s, e, e.gate = "high", FALSE)
      [] OTHER -> quiet(s)

wildfire_smoke_event_cancel(s, e) ==
    CASE e.kind = "quote" -> quiet(cache_mid(s, e))
      [] e.kind = "signal" ->
            signal_edge(s, e, bounded(e.probability) /\ e.gate = "high", FALSE)
      [] OTHER -> quiet(s)

earnings_guidance_language(s, e) ==
    CASE e.kind = "quote" -> quiet(cache_mid(s, e))
      [] e.kind = "signal" ->
            signal_edge(s, e, bounded(e.probability) /\ e.gate = "high", FALSE)
      [] OTHER -> quiet(s)

court_docket_timing(s, e) ==
    CASE e.kind = "quote" -> quiet(cache_mid(s, e))
      [] e.kind = "signal" ->
            signal_edge(s, e, bounded(e.probability) /\ e.gate = "high", FALSE)
      [] OTHER -> quiet(s)

spaceweather_grid_disruption(s, e) ==
    CASE e.kind = "quote" -> quiet(cache_mid(s, e))
      [] e.kind = "signal" ->
            signal_edge(s, e, bounded(e.probability) /\ e.gate = "high", FALSE)
      [] OTHER -> quiet(s)

energy_storage_weather_spread(s, e) ==
    CASE e.kind = "quote" -> quiet(cache_mid(s, e))
      [] e.kind = "book" -> quiet(cache_book(s, e))
      [] e.kind = "signal" ->
            signal_edge(s, e, bounded(e.probability), FALSE)
      [] OTHER -> quiet(s)

(* Also needs a book whose top is thin ("thin", against max_top_depth). *)
liquidity_tail_risk_insurance(s, e) ==
    CASE e.kind = "quote" -> quiet(cache_mid(s, e))
      [] e.kind = "book" -> quiet([cache_book(s, e) EXCEPT !.own[e.market] = e.depth])
      [] e.kind = "signal" ->
            signal_edge(s, e, e.market # None /\ bounded(e.probability)
                                /\ s.own[e.market] = "thin", FALSE)
      [] OTHER -> quiet(s)

-----------------------------------------------------------------------------
(* Several markets at once. *)

(* Orders for the markets with an edge, the largest edge first, at most    *)
(* MaxOrders of them.                                                      *)
strongest(s, implied, cached) ==
    LET clear == {k \in DOMAIN Ladder : has_edge(implied[Ladder[k]], s.mid[Ladder[k]])}
        edge(k) == Abs(implied[Ladder[k]] - s.mid[Ladder[k]])
        sorted == by_rank(clear, [k \in clear |->
                     {j \in clear : edge(j) > edge(k) \/ (edge(j) = edge(k) /\ j < k)}])
        order(k) == edge_order(s, Ladder[sorted[k]], implied[Ladder[sorted[k]]], cached)
    IN  [k \in 1 .. Min({Cardinality(clear), MaxOrders}) |-> order(k)]

(* A signal with an invalid distribution prices nothing; otherwise every   *)
(* bracket's probability comes from the one distribution.                  *)
ladder_cdf(s, e) ==
    CASE e.kind = "quote" -> quiet(cache_quote(s, e))
      [] e.kind = "distribution" ->
            decide(s, strongest(s, e.implied, TRUE))
      [] OTHER -> quiet(s)

(* Signals move the field state, a timer prices the brackets with it. *)
sports_cut_line_shifter(s, e) ==
    CASE e.kind = "quote" -> quiet(cache_any_mid(s, e))
      [] e.kind = "distribution" -> quiet([s EXCEPT !.own = e.implied])
      [] e.kind = "timer" /\ s.own # <<>> ->
            decide(s, strongest(s, s.own, FALSE))
      [] OTHER -> quiet(s)

(* Every market of the map, in order, that has a mid and clears the edge.  *)
each_market(s, implied) ==
    LET clear == SelectSeq(Ladder, LAMBDA m : implied[m] # None
                                               /\ has_edge(implied[m], s.mid[m]))
    IN  [k \in DOMAIN clear |-> edge_order(s, clear[k], implied[clear[k]], FALSE)]

(* Per player: a signal carries the strokes to the cut, a timer prices the *)
(* players whose strokes are known.                                        *)
sports_player_cut_lgbm(s, e) ==
    CASE e.kind = "quote" -> quiet(cache_any_mid(s, e))
      [] e.kind = "signal" ->
            IF e.market = None \/ e.probability = None THEN quiet(s)
            ELSE quiet([s EXCEPT !.own[e.market] = e.probability])
      [] e.kind = "timer" -> decide(s, each_market(s, s.own))
      [] OTHER -> quiet(s)

(* A signal may carry the wind of one wave or of both; the players are     *)
(* priced when both are known.                                             *)
sports_frl_weather_arb(s, e) ==
    CASE e.kind = "quote" -> quiet(cache_any_mid(s, e))
      [] e.kind = "inputs" ->
            LET t == [s EXCEPT !.own = @ \cup e.fields]
            IN  IF t.own = {"first", "second"} THEN decide(t, each_market(t, e.implied))
                ELSE quiet(t)
      [] OTHER -> quiet(s)

(* The timer needs the alternative data and the nowcast; their mean picks  *)
(* the bracket (own.target), which is bought at its mid when the mean is   *)
(* far enough from the one the market implies.                             *)
macro_cpi_predictor(s, e) ==
    CASE e.kind = "quote" -> quiet(cache_any_mid(s, e))
      [] e.kind = "inputs" ->
            quiet([s EXCEPT !.own = [fields |-> @.fields \cup e.fields, target |-> e.market]])
      [] e.kind = "timer" ->
            IF s.own.fields = {"first", "second"} /\ e.shifted /\ s.mid[s.own.target] # None
            THEN decide(s, <<place(s.own.target, "YES", s.mid[s.own.target], Size, "GTD", TRUE)>>)
            ELSE quiet(s)
      [] OTHER -> quiet(s)

(* The settlement of state A moves the probability of state B, from a     *)
(* prior of 50% with an impact of 50%.                                     *)
politics_primary_momentum(s, e) ==
    LET b == Ladder[2]
        probability == IF e.resolved = "YES" THEN (3 * One) \div 4 ELSE One \div 4
        side == IF probability > s.mid[b] THEN "YES" ELSE "NO"
    IN  CASE e.kind = "quote" -> IF e.market = b THEN quiet(cache_any_mid(s, e)) ELSE quiet(s)
          [] e.kind = "settlement" ->
                IF e.resolved # "none" /\ e.market = Ladder[1] /\ has_edge(probability, s.mid[b])
                THEN decide(s, <<place(b, side, snapshot_for(s.quote[b], side).ask, Size,
                                       "IOC", TRUE)>>)
                ELSE quiet(s)
          [] OTHER -> quiet(s)

-----------------------------------------------------------------------------
(* Trades, timers and locks. *)

example_threshold(s, e) ==
    CASE e.kind = "quote" -> quiet([s EXCEPT !.quote[e.market] = e])
      [] e.kind = "trade" ->
            IF e.price < (4 * One) \div 10 /\ s.quote[e.market] # NoQuote
               /\ snapshot_for(s.quote[e.market], "YES").ask # None
            THEN decide(s, <<place(e.market, "YES", snapshot_for(s.quote[e.market], "YES").ask,
                                   Size, "GTD", TRUE)>>)
            ELSE quiet(s)
      [] OTHER -> quiet(s)

(* A move of the front month, against its last trade, moves the back month *)
(* by beta = 0.6; the target is the price of either side.                  *)
macro_fed_gnn(s, e) ==
    LET front == Ladder[1]
        back == Ladder[2]
        move == e.price - s.own
        target == (s.mid[back] * (10 * s.own + 6 * move)) \div (10 * s.own)
    IN  CASE e.kind = "quote" -> IF e.market = back THEN quiet(cache_any_mid(s, e)) ELSE quiet(s)
          [] e.kind = "trade" ->
                IF e.market # front THEN quiet(s)
                ELSE IF s.own # None /\ s.mid[back] # None /\ 200 * Abs(move) >= s.own
                THEN decide([s EXCEPT !.own = e.price],
                            <<place(back, IF move > 0 THEN "YES" ELSE "NO",
                                    clamp_price(target), Size, "GTC", FALSE)>>)
                ELSE quiet([s EXCEPT !.own = e.price])
          [] OTHER -> quiet(s)

(* own: whether the window is near, whether fueling is confirmed, whether  *)
(* the market is paused.                                                   *)
aerospace_launch_delay(s, e) ==
    CASE e.kind = "launch" ->
            quiet([s EXCEPT !.own.near = IF e.near = None THEN @ ELSE e.near,
                            !.own.fueling = IF e.fueling = None THEN @ ELSE e.fueling])
      [] e.kind = "lifecycle" ->
            IF e.market # Ladder[1] THEN quiet(s)
            ELSE quiet([s EXCEPT !.own.paused = e.status \in {"paused", "closed"}])
      [] e.kind = "timer" ->
            IF ~s.own.paused /\ s.own.near = 1 /\ s.own.fueling # 1
            THEN decide(s, <<place(Ladder[1], "NO", One \div 2, Size, "GTC", FALSE)>>)
            ELSE quiet(s)
      [] OTHER -> quiet(s)

(* The managed orders are widened before a release and tightened after it, *)
(* around a fixed reference of a half, in the order of their labels.       *)
macro_nfp_absorber(s, e) ==
    LET half == IF e.label = "nfp_widen" THEN 6 ELSE 1
        replace(label, price) == [do |-> "replace", id |-> label, price |-> price]
    IN  IF e.kind # "timer" \/ e.label = "other" THEN quiet(s)
        ELSE decide(s, <<replace("ask_yes", Min({One \div 2 + half, One - Tick})),
                         replace("bid_yes", Max({One \div 2 - half, Tick}))>>)

(* Quotes of two venues.  Each field keeps its last value when a quote has *)
(* none; only the controlled venue is traded, at the ask of the quote.     *)
arbitrage_cross_venue(s, e) ==
    LET other == IF e.venue = "kalshi" THEN "polymarket" ELSE "kalshi"
        this == [bid |-> IF e.bid = None THEN s.own[e.venue].bid ELSE e.bid,
                 ask |-> IF e.ask = None THEN s.own[e.venue].ask ELSE e.ask]
        t == [s EXCEPT !.own[e.venue] = this]
        ask == snapshot_for(e, "YES").ask
    IN  IF /\ e.kind = "quote" /\ e.market = Ladder[1]
        THEN IF /\ e.venue = "kalshi"
                /\ t.own[other].bid # None /\ this.ask # None /\ ask # None
                /\ 10000 * (t.own[other].bid - this.ask) > (100 + 175 + 200) * this.ask
             THEN decide(t, <<place(e.market, "YES", ask, Size, "IOC", TRUE)>>)
             ELSE quiet(t)
        ELSE quiet(s)

(* _fee: 7% of p(1-p) for one contract, up to the next cent. *)
contract_fee(p) == Tick * ((7 * p * (One - p) + One * One - 1) \div (One * One))

yes_ask_quantity(q) == IF q.side = "YES" THEN q.ask_quantity ELSE q.bid_quantity

(* _fresh_books *)
fresh_markets(s, now) ==
    {m \in Markets : s.quote[m] # NoQuote /\ two_sided(s.quote[m])
                       /\ now - s.own[m] <= MaxQuoteAge}

(* What is left of the dollar that one bracket of an exclusive ladder pays. *)
lock_edge(s) ==
    LET cost(m) == snapshot_for(s.quote[m], "YES").ask + contract_fee(snapshot_for(s.quote[m], "YES").ask)
    IN  One - SumOver([m \in Markets |-> cost(m)], Markets)

(* An exclusive, contiguous ladder: when every bracket has a fresh book    *)
(* and all of them together cost less than they pay, one IOC leg each.  A  *)
(* cumulative ladder is scanned too, but only flagged.                     *)
kalshi_noarb_scanner(s, e) ==
    LET t == [s EXCEPT !.quote[e.market] = e, !.own[e.market] = e.at]
        size == Min({Size} \cup {yes_ask_quantity(t.quote[m]) : m \in Markets})
        leg(m) == place(m, "YES", clamp_price(snapshot_for(t.quote[m], "YES").ask), size,
                        "IOC", TRUE)
    IN  IF e.kind # "quote" THEN quiet(s)
        ELSE IF fresh_markets(t, e.at) = Markets /\ lock_edge(t) >= MinEdge
        THEN decide(t, [k \in DOMAIN Ladder |-> leg(Ladder[k])])
        ELSE quiet(t)
=============================================================================
