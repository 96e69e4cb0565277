---------------------------- MODULE WeatherStudy ----------------------------
(***************************************************************************)
(* Daily-high contracts: weather/{calibration, distribution, kxhigh,       *)
(* snipe}.py and the scripts that calibrate the forecast, price the ladder *)
(* and record paper entries, buy what is already decided, settle the       *)
(* entries and reconcile the two settlement sources.                       *)
(*                                                                         *)
(* One station and one target day, which lasts from hour DayStart to hour  *)
(* DayEnd, when its markets close.  Temperatures are in half degrees, the  *)
(* strikes in whole ones.                                                  *)
(*                                                                         *)
(* world: high (hour -> temperature of the target day), forecast (hour ->  *)
(* what the forecast says), determined and published (has the venue, has   *)
(* the climate office said how the day went).                              *)
(***************************************************************************)
EXTENDS Studies

CONSTANTS KxBrackets,       \* ticker -> [type, floor, cap]
          KxQuotes,         \* what the open markets may show: ticker -> [bid, ask]
          KxCandles,        \* the candles around the close: [at, bid, ask]
          KxDays,           \* what the days may be like: [high, forecast]
          KxHistory,        \* earlier days: [forecast, actual], oldest first
          Warmup,           \* days before the first that is scored
          UncalSigma, MinSigma,
          KxSize, KxMinEdge

DayStart == 1
DayEnd == 3
TargetHours == DayStart..(DayEnd - 1)
KxTickers == DOMAIN KxBrackets
KxTickerSeq == SetToSeq(KxTickers)

ASSUME KxAssumption ==
    /\ Warmup \in Nat \ {0} /\ Warmup < Len(KxHistory)
    /\ UncalSigma \in Nat \ {0} /\ MinSigma \in Nat \ {0}
    /\ \A d \in KxDays : {d.high, d.forecast} \subseteq [TargetHours -> Int]

KxWorlds == {[determined |-> FALSE, published |-> FALSE] @@ d : d \in KxDays}

(* The day is over, and those who say how it went do so in any order. *)
kx_determined == today >= DayEnd /\ ~world.determined /\ happens([world EXCEPT !.determined = TRUE])
kx_published == today >= DayEnd /\ ~world.published /\ happens([world EXCEPT !.published = TRUE])

-----------------------------------------------------------------------------
(* What a temperature means for a bracket. *)

(* _rounded_high: half up. *)
rounded_high(x) == (x + 1) \div 2

(* round(raw) of the reconciliation: a half goes to the even neighbour. *)
reconciled_high(x) ==
    IF x % 2 = 0 \/ ((x - 1) \div 2) % 2 = 0 THEN x \div 2 ELSE (x + 1) \div 2

(* _round_high_to_int of the settlement. *)
round_high_to_int(x) == rounded_high(x)

(* _entry_yes_result, _implied_result: the regions of the three types. *)
yes_region(b, high) ==
    CASE b.type = "greater" -> high >= b.floor + 1
      [] b.type = "less" -> high <= b.cap - 1
      [] b.type = "between" -> b.floor <= high /\ high <= b.cap

final_high == Max({world.high[h] : h \in TargetHours})

(* What the venue determines. *)
venue_result(t) == yes_region(KxBrackets[t], rounded_high(final_high))

-----------------------------------------------------------------------------
(* The calibration. *)

error_f(pair) == pair.actual - pair.forecast

(* math.sqrt, to the half degree below. *)
root(n) == CHOOSE r \in 0..n : r * r <= n /\ (r + 1) * (r + 1) > n

(* _fit_recency: an error weighs half as much every half-life, one day.    *)
fit_recency(pairs) ==
    LET weight(k) == 2 ^ (k - 1)
        sum(f) == total([k \in DOMAIN pairs |-> weight(k) * f[k]])
        wsum == total([k \in DOMAIN pairs |-> weight(k)])
        bias == sum([k \in DOMAIN pairs |-> error_f(pairs[k])]) \div wsum
        var == sum([k \in DOMAIN pairs |-> (error_f(pairs[k]) - bias) * (error_f(pairs[k]) - bias)]) \div wsum
    IN  [bias |-> bias, sigma |-> root(var), n |-> Len(pairs)]

effective_sigma(c) == Max({MinSigma, c.sigma})

(* The normal distribution's upper tail, as a straight line that ends two  *)
(* sigma from the mean.                                                    *)
tail(distance, sigma) == clip(0, 50 - (25 * distance) \div sigma, Dollar)

(* p_at_least_uncal, p_high_at_least: half a degree below the threshold.   *)
p_high_at_least(threshold, mu, sigma) == tail(2 * threshold - 1 - mu, sigma)

(* brier_score, and the expected calibration error over ten bins, both     *)
(* left as sums.                                                           *)
brier_score(scored) == total(mapped(scored, LAMBDA r : (r.p - Dollar * r.hit) * (r.p - Dollar * r.hit)))

reliability_bin(r) == Min({r.p \div 10, 9})

calibration_error(scored) ==
    MapThenSumSet(LAMBDA b :
        LET gap == total(mapped(SelectSeq(scored, LAMBDA r : reliability_bin(r) = b),
                                LAMBDA r : r.p - Dollar * r.hit))
        IN  Max({gap, -gap}), 0..9)

(* The walk-forward gate: every day after the warm-up is scored with what  *)
(* a fit on the days before it says.                                       *)
train_of(day) == SubSeq(KxHistory, 1, day - 1)

walk_forward(mu, sigma) ==
    FlattenSeq([k \in 1..(Len(KxHistory) - Warmup) |->
        LET day == k + Warmup
            high == reconciled_high(KxHistory[day].actual)
        IN  [j \in 1..3 |-> [p |-> p_high_at_least(high + j - 2, mu[day], sigma[day]),
                             hit |-> IF j - 2 <= 0 THEN 1 ELSE 0, day |-> day]]])

gate_passes ==
    LET scored == (Warmup + 1)..Len(KxHistory)
        fitted_on == [d \in scored |-> fit_recency(train_of(d))]
        uncal == walk_forward([d \in scored |-> KxHistory[d].forecast], [d \in scored |-> UncalSigma])
        cal == walk_forward([d \in scored |-> KxHistory[d].forecast + fitted_on[d].bias],
                            [d \in scored |-> effective_sigma(fitted_on[d])])
    IN  brier_score(cal) < brier_score(uncal) /\ calibration_error(cal) < calibration_error(uncal)

(* om_archive_daily_high, ghcnd_tmax: the days both sources know. *)
kx_build_dataset == write("pairs", KxHistory)

(* weather_calibration_report.py: the final fit is on every day, and is    *)
(* written whether or not the gate passes.                                 *)
kx_calibrate ==
    /\ written("pairs")
    /\ write("calibration", fit_recency(files["pairs"]) @@ [gate |-> gate_passes])

-----------------------------------------------------------------------------
(* The distribution of the day's high and what it says of a bracket. *)

(* forecast_daily_state: the hours that have passed count as observed,     *)
(* though they are the forecast's own; Missing before the first.           *)
high_so_far ==
    LET past == {h \in TargetHours : h <= today}
    IN  IF past = {} THEN Missing ELSE Max({world.forecast[h] : h \in past})

raw_high == Max({world.forecast[h] : h \in TargetHours})

(* _terminal_normal_mean: the mean of the higher of the forecast and the   *)
(* high so far, under the same straight line.                              *)
terminal_mean(mu, sigma, so_far) ==
    LET low == mu - 2 * sigma
    IN  IF so_far <= low THEN mu
        ELSE IF so_far >= mu + 2 * sigma THEN so_far
        ELSE mu + ((so_far - low) * (so_far - low)) \div (8 * sigma)

(* build_daily_high_distribution without members. *)
high_distribution(c) ==
    LET mu == raw_high + c.bias
        sigma == effective_sigma(c)
    IN  [mu |-> mu, sigma |-> sigma, so_far |-> high_so_far, values |-> <<>>,
         mean |-> terminal_mean(mu, sigma, high_so_far)]

(* ... and with them: each member is corrected and cannot end below the    *)
(* high so far.                                                            *)
ensemble_distribution(c, members) ==
    LET values == mapped(members, LAMBDA v : Max({v + c.bias, high_so_far}))
    IN  [mu |-> 0, sigma |-> 0, so_far |-> high_so_far, values |-> values,
         mean |-> total(values) \div Len(values)]

(* _weighted_share, of equal weights. *)
share_of_values(hits, values) == (Dollar * Len(hits)) \div Len(values)

probability_at_least(d, threshold) ==
    IF d.so_far # Missing /\ rounded_high(d.so_far) >= threshold THEN Dollar
    ELSE IF d.values # <<>> THEN share_of_values(SelectSeq(d.values, LAMBDA v : rounded_high(v) >= threshold), d.values)
    ELSE p_high_at_least(threshold, d.mu, d.sigma)

probability_between(d, floor, cap) ==
    IF d.values # <<>> THEN share_of_values(SelectSeq(d.values, LAMBDA v : rounded_high(v) \in floor..cap), d.values)
    ELSE clip(0, probability_at_least(d, floor) - probability_at_least(d, cap + 1), Dollar)

probability_for_contract(b, d) ==
    CASE b.type = "greater" -> probability_at_least(d, b.floor + 1)
      [] b.type = "less" -> clip(0, Dollar - probability_at_least(d, b.cap), Dollar)
      [] b.type = "between" -> probability_between(d, b.floor, b.cap)

price_kxhigh_ladder(d) == [t \in KxTickers |-> probability_for_contract(KxBrackets[t], d)]

-----------------------------------------------------------------------------
(* weather_kxhigh_paper.py: pricing and recording. *)

has_both_sides(q) == q.bid > 0 /\ q.ask < Dollar
twice_mid(q) == q.bid + q.ask

(* _bracket_center, in half degrees. *)
bracket_center(b) ==
    CASE b.type = "between" -> b.floor + b.cap
      [] b.type = "less" -> 2 * (b.cap - 2)
      [] b.type = "greater" -> 2 * (b.floor + 2)

(* The model's centre is far from the market's, or the model is much       *)
(* tighter than the market.                                                *)
day_bad(quotes, d, c) ==
    LET shown_at == {t \in KxTickers : has_both_sides(quotes[t])}
        center(t) == bracket_center(KxBrackets[t])
        den == MapThenSumSet(LAMBDA t : twice_mid(quotes[t]), shown_at)
        mc == MapThenSumSet(LAMBDA t : twice_mid(quotes[t]) * center(t), shown_at) \div den
        var == MapThenSumSet(LAMBDA t : twice_mid(quotes[t]) * (center(t) - mc) * (center(t) - mc), shown_at)
        gap == d.mean - mc
    IN  shown_at # {} /\ (Max({gap, -gap}) > c.sigma \/ 16 * c.sigma * c.sigma * den < 9 * var)

(* kalshi_fee: not rounded, so it is compared as a hundredth of a cent.    *)
clears_fee(edge, p) == 10000 * edge > 7 * p * (Dollar - p)
mid_clears_fee(fair, q) ==
    LET edge == 2 * fair - twice_mid(q)
    IN  20000 * Max({edge, -edge}) > 7 * twice_mid(q) * (2 * Dollar - twice_mid(q))

(* taker_decision: a sequence of at most one [side, price]. *)
edge_decision(fair, q) ==
    IF fair > q.ask /\ clears_fee(fair - q.ask, q.ask) THEN <<[side |-> "YES", price |-> q.ask]>>
    ELSE IF fair < q.bid /\ clears_fee(q.bid - fair, Dollar - q.bid)
         THEN <<[side |-> "NO", price |-> Dollar - q.bid]>>
    ELSE <<>>

(* kalshi_fee_realized, on the whole order. *)
kalshi_fee_realized(price) == (7 * price * (Dollar - price) * KxSize + 9999) \div 10000

kx_ledger == IF written("ledger") THEN files["ledger"] ELSE <<>>

(* main: same-day entries on brackets where the model and the market agree *)
(* about the day, one for a ticker and day however often it runs.          *)
kx_records(quotes, d, c) ==
    FlattenSeq(mapped(KxTickerSeq, LAMBDA t :
        LET fair == probability_for_contract(KxBrackets[t], d)
            decision == edge_decision(fair, quotes[t])
        IN  IF has_both_sides(quotes[t]) /\ mid_clears_fee(fair, quotes[t]) /\ today >= DayStart
                 /\ ~day_bad(quotes, d, c)
            THEN mapped(decision, LAMBDA k :
                     k @@ [ticker |-> t, at |-> today, fair |-> fair,
                           fee |-> kalshi_fee_realized(k.price), status |-> "open"])
            ELSE <<>>))

fresh_records(records) ==
    SelectSeq(records, LAMBDA r : r.ticker \notin {e.ticker : e \in Range(kx_ledger)})

kx_price ==
    /\ written("calibration") /\ today < DayEnd
    /\ \E quotes \in KxQuotes :
        LET d == high_distribution(files["calibration"])
            members == [h \in 1..2 |-> world.forecast[h]]
        IN  write_all(("ledger" :> (kx_ledger \o fresh_records(kx_records(quotes, d, files["calibration"]))))
                      @@ ("fairs" :> <<price_kxhigh_ladder(d),
                            price_kxhigh_ladder(ensemble_distribution(files["calibration"], members))>>))

-----------------------------------------------------------------------------
(* weather_s1_snipe.py *)

(* deterministic_settlement *)
locked(b, high) ==
    CASE b.type = "greater" -> IF high >= b.floor + 1 THEN "YES" ELSE "open"
      [] b.type = "less" -> IF high >= b.cap THEN "NO" ELSE "open"
      [] b.type = "between" -> IF high >= b.cap + 1 THEN "NO" ELSE "open"

(* s1_signal: at most one. *)
s1_signal(t, observed, q) ==
    LET side == locked(KxBrackets[t], rounded_high(observed))
        price == IF side = "YES" THEN q.ask ELSE Dollar - q.bid
    IN  IF side # "open" /\ price > 0 /\ price < Dollar /\ clears_fee(Dollar - price, price)
             /\ 10000 * (Dollar - price - KxMinEdge) >= 7 * price * (Dollar - price)
        THEN <<[ticker |-> t, side |-> side, price |-> price, at |-> today]>> ELSE <<>>

(* observed_daily_high_f: readings of the day, some of which are missing.  *)
kx_snipe ==
    /\ today \in TargetHours
    /\ \E quotes \in KxQuotes, seen \in SUBSET (DayStart..today) :
        LET observed == Max({world.high[h] : h \in seen})
        IN  /\ seen # {}
            /\ write("snipes", (IF written("snipes") THEN files["snipes"] ELSE <<>>)
                     \o FlattenSeq(mapped(KxTickerSeq, LAMBDA t : s1_signal(t, observed, quotes[t]))))

-----------------------------------------------------------------------------
(* _settle *)

(* closing_yes_mid: the last two-sided candle not after the close, twice.  *)
closing_mid ==
    LET fine == SelectSeq(KxCandles, LAMBDA k : k.at <= DayEnd /\ 0 < k.bid /\ k.bid <= k.ask /\ k.ask < Dollar)
    IN  IF fine = <<>> THEN Missing
        ELSE LET k == CHOOSE k \in Range(fine) : \A other \in Range(fine) : other.at <= k.at
             IN  k.bid + k.ask

clv(e) ==
    IF today < DayEnd \/ closing_mid = Missing THEN Missing
    ELSE (IF e.side = "YES" THEN closing_mid ELSE 2 * Dollar - closing_mid) - 2 * e.price

(* The climate office first, the venue while that is not out. *)
entry_outcome(e, token) ==
    IF token /\ world.published THEN <<yes_region(KxBrackets[e.ticker], round_high_to_int(final_high))>>
    ELSE IF world.determined THEN <<venue_result(e.ticker)>>
    ELSE <<>>

(* _entry_realized_pnl *)
realized_pnl(e, won) == KxSize * ((IF won THEN Dollar ELSE 0) - e.price) - e.fee

settled_entry(e, token) ==
    LET outcome == entry_outcome(e, token)
    IN  IF outcome = <<>> THEN [clv |-> clv(e), status |-> "pending"] @@ e
        ELSE [clv |-> clv(e), status |-> "settled", yes |-> outcome[1],
              pnl |-> realized_pnl(e, outcome[1] = (e.side = "YES"))] @@ e

kx_settle ==
    /\ written("ledger")
    /\ \E token \in BOOLEAN, out \in {"ledger", "settled"} :
        write(out, mapped(kx_ledger, LAMBDA e : settled_entry(e, token)))

-----------------------------------------------------------------------------
(* weather_settlement_reconcile.py *)

(* _kalshi_high_bounds: what the venue's results leave of the high. *)
kalshi_high_bounds ==
    LET lows == {KxBrackets[t].floor + 1 : t \in {t \in KxTickers : KxBrackets[t].type = "greater" /\ venue_result(t)}}
                \cup {KxBrackets[t].cap : t \in {t \in KxTickers : KxBrackets[t].type = "less" /\ ~venue_result(t)}}
                \cup {KxBrackets[t].floor : t \in {t \in KxTickers : KxBrackets[t].type = "between" /\ venue_result(t)}}
        highs == {KxBrackets[t].floor : t \in {t \in KxTickers : KxBrackets[t].type = "greater" /\ ~venue_result(t)}}
                 \cup {KxBrackets[t].cap - 1 : t \in {t \in KxTickers : KxBrackets[t].type = "less" /\ venue_result(t)}}
                 \cup {KxBrackets[t].cap : t \in {t \in KxTickers : KxBrackets[t].type = "between" /\ venue_result(t)}}
    IN  [low |-> Max(lows \cup {-999}), high |-> Min(highs \cup {999})]

kx_reconcile ==
    /\ world.published /\ world.determined
    /\ LET high == reconciled_high(final_high)
           bounds == kalshi_high_bounds
       IN  write("reconciled",
                 [bounds |-> bounds,
                  disagree |-> {t \in KxTickers : yes_region(KxBrackets[t], high) # venue_result(t)},
                  pin_mismatch |-> bounds.low = bounds.high /\ bounds.low # high])

-----------------------------------------------------------------------------

KxNext ==
    \/ time_passes
    \/ kx_determined
    \/ kx_published
    \/ kx_build_dataset
    \/ kx_calibrate
    \/ kx_price
    \/ kx_snipe
    \/ kx_settle
    \/ kx_reconcile

(* A side bought because the day's high has already decided it wins,       *)
(* whatever the rest of the day brings; entries are made on the day        *)
(* itself, before it is over.                                              *)
KxKnownInTime ==
    /\ written("snipes") => \A r \in Range(files["snipes"]) : venue_result(r.ticker) = (r.side = "YES")
    /\ \A e \in Range(kx_ledger) : e.at \in TargetHours

(* An entry is recorded once; it is settled as the venue settles it, from  *)
(* whichever source; the fair values of a ladder add up to one contract    *)
(* (an ensemble's to the rounding of its shares); the bounds the venue's   *)
(* results leave hold the high.                                            *)
KxBooks ==
    /\ \A i, j \in DOMAIN kx_ledger : kx_ledger[i].ticker = kx_ledger[j].ticker => i = j
    /\ \A e \in Range(kx_ledger) : e.status = "settled" => e.yes = venue_result(e.ticker)
    /\ written("fairs") =>
        \A ladder \in Range(files["fairs"]) :
            LET sum == MapThenSumSet(LAMBDA t : ladder[t], KxTickers)
            IN  Dollar - Cardinality(KxTickers) < sum /\ sum <= Dollar
    /\ written("reconciled") =>
        /\ files["reconciled"].bounds.low <= rounded_high(final_high)
        /\ rounded_high(final_high) <= files["reconciled"].bounds.high
=============================================================================
