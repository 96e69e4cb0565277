------------------------------ MODULE GolfStudy ------------------------------
(***************************************************************************)
(* research/golf_surface.py and research/golf_live_paper.py with their     *)
(* scripts: a tournament in progress is priced, the candidates become      *)
(* hypothetical intents, and these are marked out and "filled" on what the *)
(* recorder saw.  The sports models' signals are sent from the same state. *)
(*                                                                         *)
(* world: state of play (as_of, score, holes), raw (recorded book rows),   *)
(* trades (public ones), final (the last card, once there is one).         *)
(***************************************************************************)
EXTENDS GolfModels

CONSTANTS GolfMarkets,      \* ticker -> [family, subject, ...]
          GolfBooks,        \* ticker -> what a snapshot may hold: [yes, no], ladders price -> size
          GolfDeltas,       \* ticker -> what a delta may say: [side, price, delta]
          GolfTrades,       \* ticker -> what a trade may be: [side, price]
          GolfStarts,       \* the states of play a study may begin with
          GolfEdge, GolfQuoteAge, GolfSize,
          MaxGolfRows       \* bound: rows and trades recorded

GolfTickers == DOMAIN GolfMarkets
GolfTickerSeq == SetToSeq(GolfTickers)

GolfWorlds == {[state |-> x, raw |-> <<>>, trades |-> <<>>, final |-> <<>>] : x \in GolfStarts}

(* apply_surface_update: a round of play. *)
golf_play ==
    /\ \E p \in Golfers : world.state.holes[p] < AllHoles
    /\ \E card \in cards(world.state, AllHoles) :
        happens([world EXCEPT !.state =
            [as_of |-> today, score |-> card,
             holes |-> [p \in Golfers |-> Min({AllHoles, world.state.holes[p] + CutHoles})]]])

golf_ends ==
    /\ world.final = <<>> /\ \A p \in Golfers : world.state.holes[p] >= AllHoles
    /\ happens([world EXCEPT !.final = <<world.state.score>>])

(* External: scripts/kalshi_ws_capture.py and the public trades. *)
golf_record ==
    /\ Len(world.raw) + Len(world.trades) < MaxGolfRows
    /\ \E t \in GolfTickers :
        \/ \E b \in GolfBooks[t] : happens([world EXCEPT !.raw =
                Append(@, [kind |-> "snapshot", ticker |-> t, at |-> today, book |-> b])])
        \/ \E d \in GolfDeltas[t] : happens([world EXCEPT !.raw =
                Append(@, [kind |-> "delta", ticker |-> t, at |-> today, change |-> d])])

golf_trade ==
    /\ Len(world.raw) + Len(world.trades) < MaxGolfRows
    /\ \E t \in GolfTickers :
        \E x \in GolfTrades[t] :
            happens([world EXCEPT !.trades =
                Append(@, [ticker |-> t, at |-> today, side |-> x.side, price |-> x.price])])

-----------------------------------------------------------------------------
(* Recorded books. *)

(* A delta changes the size of a level; an empty level goes. *)
level_changed(ladder, price, delta) ==
    LET size == delta + IF price \in DOMAIN ladder THEN ladder[price] ELSE 0
    IN  IF size > 0 THEN (price :> size) @@ ladder
        ELSE Restrict(ladder, DOMAIN ladder \ {price})

(* _surface_quote_from_ws_state_row: a delta before a snapshot is dropped. *)
surface_book_after(kept, row) ==
    IF row.kind = "snapshot" THEN (row.ticker :> row.book) @@ kept
    ELSE IF row.ticker \notin DOMAIN kept THEN kept
    ELSE [kept EXCEPT ![row.ticker][row.change.side] =
            level_changed(@, row.change.price, row.change.delta)]

(* _surface_quote_from_book_state *)
surface_quote(kept, row) ==
    IF row.ticker \notin DOMAIN kept THEN <<>>
    ELSE LET b == kept[row.ticker]
         IN  IF DOMAIN b.yes = {} \/ DOMAIN b.no = {} THEN <<>>
             ELSE LET bid == Max(DOMAIN b.yes)
                      no == Max(DOMAIN b.no)
                  IN  IF Dollar - no < bid THEN <<>>
                      ELSE <<[ticker |-> row.ticker, at |-> row.at, bid |-> bid, ask |-> Dollar - no,
                              bid_size |-> b.yes[bid], ask_size |-> b.no[no]]>>

(* read_surface_ws_quote_timeline_jsonl *)
surface_timeline(raw) ==
    FoldLeft(LAMBDA acc, row :
                LET kept == surface_book_after(acc.kept, row)
                IN  [kept |-> kept, quotes |-> acc.quotes \o surface_quote(kept, row)],
             [kept |-> <<>>, quotes |-> <<>>], raw).quotes

(* _latest_quote_by_market, read_surface_ws_quotes_jsonl,                  *)
(* _latest_quotes_by_ticker: at most one quote.                            *)
latest_quote(timeline, t) ==
    LET mine == SelectSeq(timeline, LAMBDA q : q.ticker = t)
    IN  IF mine = <<>> THEN <<>> ELSE <<Last(mine)>>

-----------------------------------------------------------------------------
(* surface-once *)

(* _candidate_from_probability: the side is chosen before the fee. *)
surface_candidate(t, fair, q, as_of) ==
    LET yes_gross == fair - q.ask
        no_gross == (Dollar - fair) - (Dollar - q.bid)
        side == IF yes_gross >= no_gross THEN "YES" ELSE "NO"
        price == IF side = "YES" THEN q.ask ELSE Dollar - q.bid
        net == Max({yes_gross, no_gross}) - curve_fee(price)
    IN  [ticker |-> t, side |-> side, price |-> price, fee |-> curve_fee(price), net |-> net,
         fair |-> fair, decided_at |-> as_of,
         reason |-> verdict(<<<<as_of - q.at > GolfQuoteAge, "stale_quote">>,
                              <<net < GolfEdge, "fails_fee_spread_gate">>,
                              <<TRUE, "candidate">>>>)]

(* predict and scan_surface_candidates: a market without a quote is left   *)
(* out.                                                                    *)
surface_candidates(sample, timeline) ==
    FlattenSeq(mapped(GolfTickerSeq, LAMBDA t :
        mapped(latest_quote(timeline, t), LAMBDA q :
            surface_candidate(t, surface_probability(sample, GolfMarkets[t]), q, world.state.as_of))))

(* _decision_gate *)
surface_gate(candidates) ==
    IF \A c \in Range(candidates) : c.reason # "candidate" THEN "continue research"
    ELSE "continue shadow logging"

(* write_surface_outputs: the candidates are the intents. *)
golf_surface_once ==
    \E sample \in surface_sample(world.state) :
        LET found == surface_candidates(sample, surface_timeline(world.raw))
        IN  write_all([surface |->
                           [top |-> [n \in 1 .. Cardinality(Golfers) |->
                                        [p \in Golfers |-> top_probability(sample, n, p)]],
                            lines |-> [x \in {score_at_rank(d.cut, CutRule) : d \in Range(sample)} |->
                                        cut_line_probability(sample, x, "exact")],
                            gate |-> surface_gate(found)],
                       intents |-> SelectSeq(found, LAMBDA c : c.reason = "candidate")])

-----------------------------------------------------------------------------
(* markout *)

(* _surface_markout_row *)
surface_mark(c, timeline) ==
    LET mine == SelectSeq(timeline, LAMBDA q : q.ticker = c.ticker)
        found == first_at_or_after(mine, c.decided_at + Horizon)
        clv(q) == exit_price(c.side, q) - c.price
    IN  [intent |-> c,
         mark |-> mapped(found, LAMBDA q : [at |-> q.at, clv |-> clv(q), net |-> clv(q) - c.fee])]

(* _surface_markout_summary, _surface_markout_decision_gate *)
surface_markout_gate(rows) ==
    LET found == FlattenSeq(mapped(rows, LAMBDA r : r.mark))
    IN  verdict(<<<<rows = <<>>, "no candidates">>,
                  <<found = <<>>, "no future quotes">>,
                  <<mean_positive(mapped(found, LAMBDA x : x.net)), "continue paper">>,
                  <<mean_positive(mapped(found, LAMBDA x : x.clv)), "fee not earned">>,
                  <<TRUE, "kill or defer">>>>)

(* evaluate_surface_markouts *)
golf_markout ==
    /\ written("intents")
    /\ LET timeline == surface_timeline(world.raw)
           rows == mapped(files["intents"], LAMBDA c : surface_mark(c, timeline))
       IN  write("markouts", [rows |-> rows, gate |-> surface_markout_gate(rows)])

-----------------------------------------------------------------------------
(* topn-arb *)

(* _topn_arb_candidate: NO of the smaller group and YES of the larger one. *)
arb_row(low, high, as_of) ==
    LET cost == (Dollar - low.bid) + high.ask
        fees == curve_fee(Dollar - low.bid) + curve_fee(high.ask)
        floor == Dollar - cost - fees
    IN  [legs |-> <<<<low.ticker, "NO">>, <<high.ticker, "YES">>>>, floor |-> floor,
         reason |-> verdict(<<<<Max({as_of - low.at, as_of - high.at}) > GolfQuoteAge, "stale_quote">>,
                              <<Min({low.bid_size, high.ask_size}) < GolfSize, "insufficient_touch_size">>,
                              <<floor < 0, "fails_fee_net_floor_gate">>,
                              <<TRUE, "candidate">>>>)]

(* scan_golf_topn_arbitrage: pairs of one player with both quoted; as_of   *)
(* is the time of the latest quote.                                        *)
topn_pairs ==
    {pair \in GolfTickers \X GolfTickers :
        LET l == GolfMarkets[pair[1]]
            h == GolfMarkets[pair[2]]
        IN  /\ l.family = "top_n" /\ h.family = "top_n"
            /\ l.subject = h.subject /\ l.top_n < h.top_n}

topn_arb_rows(timeline) ==
    LET as_of == Max({q.at : q \in Range(timeline)} \cup {0})
        quoted == {pair \in topn_pairs : \A k \in 1 .. 2 : latest_quote(timeline, pair[k]) # <<>>}
    IN  {arb_row(latest_quote(timeline, pair[1])[1], latest_quote(timeline, pair[2])[1], as_of) :
            pair \in quoted}

(* _topn_arb_decision_gate *)
topn_arb_gate(rows) ==
    verdict(<<<<rows = {}, "no pairs">>,
              <<\E r \in rows : r.reason = "candidate", "continue paper">>,
              <<\E r \in rows : r.floor > 0, "continue capture">>,
              <<TRUE, "kill or defer">>>>)

golf_topn_arb ==
    LET rows == topn_arb_rows(surface_timeline(world.raw))
    IN  write("arb", [rows |-> rows, gate |-> topn_arb_gate(rows)])

-----------------------------------------------------------------------------
(* shadow-fill, bridge-once and summarize-shadow-fill *)

(* _later_fill: the first later trade at the limit or better, for whoever  *)
(* is in the queue.                                                        *)
later_fill(c, stale) ==
    LET reaches(x) == /\ x.ticker = c.ticker /\ x.at > c.decided_at
                      /\ (IF x.side = c.side THEN x.price ELSE Dollar - x.price) <= c.price
        found == SelectSeq(world.trades, reaches)
    IN  IF stale THEN <<>> ELSE SubSeq(found, 1, Min({1, Len(found)}))

(* _settlement_value *)
golf_settled_yes(m) ==
    CASE m.family = "top_n" -> m.subject \in within(world.final[1], m.top_n)
      [] m.family = "make_cut" -> m.subject \in within(world.final[1], CutRule)
      [] m.family = "cut_line" -> score_at_rank(world.final[1], CutRule) = m.line

(* evaluate_shadow_intent and _reject_reason; the age of a quote that came *)
(* after the decision counts as none.                                      *)
shadow_row(c, q) ==
    LET executable == IF c.side = "YES" THEN q.ask ELSE Dollar - q.bid
        fair == IF c.side = "YES" THEN c.fair ELSE Dollar - c.fair
        net == fair - executable - curve_fee(executable)
        stale == Max({0, c.decided_at - q.at}) > GolfQuoteAge
        fills_now == c.price >= executable /\ ~stale
        later == later_fill(c, stale)
        fill == IF fills_now THEN <<[at |-> c.decided_at, price |-> executable]>>
                ELSE mapped(later, LAMBDA x : [at |-> x.at, price |-> c.price])
    IN  [ticker |-> c.ticker, decided_at |-> c.decided_at, now |-> fills_now, fill |-> fill,
         settled |-> mapped(world.final, LAMBDA f : payoff(c.side, golf_settled_yes(GolfMarkets[c.ticker]))),
         reason |-> verdict(<<<<stale, "stale_quote">>,
                              <<fill = <<>>, "not_filled_by_shadow_rules">>,
                              <<net < GolfEdge, "fails_min_net_edge">>,
                              <<TRUE, "candidate">>>>)]

(* _shadow_reject_row *)
shadow_reject(c) ==
    [ticker |-> c.ticker, decided_at |-> c.decided_at, now |-> FALSE, fill |-> <<>>,
     settled |-> <<>>, reason |-> "missing_quote"]

(* write_shadow_fill_ledger; bridge-once writes a manifest beside it. *)
golf_shadow_fill ==
    /\ written("intents")
    /\ LET timeline == surface_timeline(world.raw)
           row(c) == LET q == latest_quote(timeline, c.ticker)
                     IN  IF q = <<>> THEN shadow_reject(c) ELSE shadow_row(c, q[1])
       IN  write("shadow", mapped(files["intents"], row))

(* summarize_shadow_fill_ledger, _shadow_summary_decision: the mark-out of *)
(* a row is its fill against the mid an intent brings along.               *)
shadow_decision(rows, marked) ==
    LET candidates == SelectSeq(rows, LAMBDA r : r.reason = "candidate")
        filled == SelectSeq(rows, LAMBDA r : r.fill # <<>>)
        outcomes == mapped(filled, LAMBDA r : marked - r.fill[1].price)
    IN  verdict(<<<<rows = <<>>, "no rows">>,
                  <<candidates = <<>>, "no candidates">>,
                  <<marked = Missing, "markout missing">>,
                  <<~mean_positive(outcomes), "kill or defer">>,
                  <<\A r \in Range(rows) : r.settled = <<>>, "settlement missing">>,
                  <<TRUE, "paper-only candidate">>>>)

golf_summarize ==
    /\ written("shadow")
    /\ \E marked \in {Missing, 50} : write("summary", shadow_decision(files["shadow"], marked))

-----------------------------------------------------------------------------
(* sports-golf-smoke: the cut-line model's prediction, stored as signals,  *)
(* and the winner and first-round models beside it.                        *)
golf_smoke ==
    \E cut \in draws(cards(world.state, CutHoles)), final \in draws(cards(world.state, AllHoles)),
       forecast \in {<<>>, <<[wave |-> (1 :> "pm"), wind |-> [am |-> 0, pm |-> 1]]>>} :
        \E first \in draws(round_cards(forecast, [p \in Golfers |-> 0])) :
            LET brackets == {world.state.score[p] : p \in Golfers}
                prediction == cut_prediction(cut, brackets)
            IN  write("signals",
                      [cut |-> prediction, told |-> cut_line_signal(prediction, brackets),
                       players |-> player_cut_signals(prediction),
                       winner |-> winner_prediction(final), first |-> first_round_prediction(first, 1)])

GolfNext ==
    \/ time_passes \/ golf_play \/ golf_ends \/ golf_record \/ golf_trade
    \/ golf_surface_once \/ golf_markout \/ golf_topn_arb
    \/ golf_shadow_fill \/ golf_summarize

(* The smoke test reads no recorded row. *)
GolfModelNext == golf_play \/ golf_smoke

-----------------------------------------------------------------------------

(* A mark is at least the horizon after the decision, a fill never before  *)
(* it.  The quote a shadow fill is judged on may be younger than the       *)
(* decision: evaluate_shadow_intent cuts its age at zero.                  *)
GolfKnownInTime ==
    /\ written("markouts") =>
        \A r \in Range(files["markouts"].rows) : \A x \in Range(r.mark) :
            x.at >= r.intent.decided_at + Horizon
    /\ written("shadow") =>
        \A r \in Range(files["shadow"]) : \A x \in Range(r.fill) : x.at >= r.decided_at

(* However the tournament ends, ties included, the pair of a top-N         *)
(* candidate pays at least what it costs.                                  *)
GolfCoherent ==
    /\ written("arb") =>
        \A r \in files["arb"].rows : r.reason = "candidate" =>
            \A card \in cards(world.state, AllHoles) :
                LET yes(t) == GolfMarkets[t].subject \in within(card, GolfMarkets[t].top_n)
                IN  total(mapped(r.legs, LAMBDA x : payoff(x[2], yes(x[1])))) >= Dollar - r.floor
    /\ written("surface") =>
        /\ adds_up(files["surface"].lines)
        /\ \A n \in 1 .. Cardinality(Golfers) - 1 :
            nested(files["surface"].top[n], files["surface"].top[n + 1])
    /\ written("signals") =>
        /\ adds_up(files["signals"].cut.pmf)
        /\ adds_up(files["signals"].winner)
        /\ adds_up(files["signals"].first.leader)
        /\ nested(files["signals"].first.leader, files["signals"].first.top)
=============================================================================
