------------------------------ MODULE RfiStudy ------------------------------
(***************************************************************************)
(* research/baseball_rfi.py and scripts/baseball_rfi_edge.py: is a Kalshi  *)
(* run-in-first-inning market far enough from the historical base rate?    *)
(* Commands: capture-kalshi, evaluate, capture-live, live-touch, markout   *)
(* and execution-filter.                                                   *)
(*                                                                         *)
(* world: tape, the trades of settled games; result, of each settled game, *)
(* and settled_at, when it was known (history: no command reads it);       *)
(* context, the context rows; live, the REST quotes; raw, the WebSocket    *)
(* rows recorded so far.  A ladder is the set of its prices.               *)
(***************************************************************************)
EXTENDS Studies

CONSTANTS RfiTapes,         \* the tapes of a settled game: sequences of [at, price, quantity]
          RfiContexts,      \* sequences of [market, as_of, delta] rows
          SettleDelay,      \* how long after its last trade a game is settled
          RfiLadders,       \* the sets of prices a ladder may hold
          MinTrain, EarlyTrades, EarlyWindow, Crosses, MinNetEdge, MaxContext, RfiQuoteAge,
          MinRows,          \* min_markout_rows, min_rows
          MaxRaw            \* bound: recorded rows

RfiSettled == {"g1", "g2"}
RfiLive == "g3"
RfiVoid == "g4"             \* settled without a yes or a no

(* When the result of a game is known: some time after its last trade. *)
settlement(tape) == SettleDelay + Max({0} \cup {t.at : t \in Range(tape)})

(* The recorder runs beside one history; the others are only evaluated. *)
RfiWorlds ==
    LET history(a, b, r, c, live) ==
            [tape |-> [g1 |-> a, g2 |-> b], result |-> r, context |-> c, live |-> live, raw |-> <<>>,
             settled_at |-> [g1 |-> settlement(a), g2 |-> settlement(b)]]
        any == CHOOSE a \in RfiTapes : a # <<>>
    IN  {history(a, b, r, c, FALSE) :
            a \in RfiTapes, b \in RfiTapes, r \in [RfiSettled -> BOOLEAN], c \in RfiContexts}
        \cup {history(any, any, [m \in RfiSettled |-> m = "g1"], c, TRUE) : c \in RfiContexts \ {<<>>}}

-----------------------------------------------------------------------------
(* Settled games. *)

(* capture_kalshi_rfi_inputs: pages of settled markets and their trades. *)
rfi_markets == SelectSeq(<<"g1", "g2", RfiVoid>>, LAMBDA m : m \in DOMAIN world.result)

rfi_capture ==
    write("settled", [m \in Range(rfi_markets) |-> [result |-> world.result[m], tape |-> world.tape[m]]])

(* The trades of the first minutes, weighed by quantity. *)
early_sample(m, game) ==
    LET ordered == sorted_by(game.tape, LAMBDA t : t.at)
        start == Head(ordered).at
        early == SelectSeq(ordered, LAMBDA t : t.at - start <= EarlyWindow)
        kept == SubSeq(early, 1, Min({EarlyTrades, Len(early)}))
        weight == total(mapped(kept, LAMBDA t : t.quantity))
        price == IF weight > 0
                 THEN total(mapped(kept, LAMBDA t : t.price * t.quantity)) \div weight
                 ELSE total(mapped(kept, LAMBDA t : t.price)) \div Len(kept)
    IN  [market |-> m, at |-> start, price |-> price, yes |-> game.result]

build_early_price_samples(settled) ==
    LET traded == SelectSeq(<<"g1", "g2">>, LAMBDA m : m \in DOMAIN settled /\ settled[m].tape # <<>>)
    IN  sorted_by(mapped(traded, LAMBDA m : early_sample(m, settled[m])), LAMBDA x : x.at)

(* _context_feature_by_market: the row with the latest as_of; a dated row  *)
(* replaces an undated one.                                                *)
rfi_feature(context, m) ==
    FoldSeq(LAMBDA f, best : IF f.market # m THEN best
                             ELSE IF best = <<>> THEN <<f>>
                             ELSE IF \/ best[1].as_of = Missing
                                     \/ f.as_of # Missing /\ f.as_of >= best[1].as_of
                             THEN <<f>> ELSE best,
            <<>>, context)

(* _context_delta_for_sample, _context_delta_for_quote: a later row raises. *)
too_late(feature, at) == feature # <<>> /\ feature[1].as_of > at
context_delta(feature) == IF feature = <<>> THEN 0 ELSE clip(-MaxContext, feature[1].delta, MaxContext)

base_rate(samples) ==
    (Dollar * Len(SelectSeq(samples, LAMBDA x : x.yes))) \div Len(samples)

(* Mutant of prior: the base rate is taken over the whole sample. *)
prior_of_all(samples, k) == samples

prior(samples, k) == SubSeq(samples, 1, k - 1)

(* _bet_row_from_sample *)
bet_rows(samples, k, cross) ==
    LET x == samples[k]
        feature == rfi_feature(world.context, x.market)
        fair == clip(0, base_rate(prior(samples, k)) + context_delta(feature), Dollar)
        t == taker_side(fair, Min({99, x.price + cross}), Min({99, Dollar - x.price + cross}))
    IN  IF t.edge < MinNetEdge THEN <<>>
        ELSE <<[market |-> x.market, at |-> x.at, cross |-> cross, side |-> t.side,
                net |-> payoff(t.side, x.yes) - t.price - t.fee,
                learnt_from |-> {y.market : y \in Range(prior(samples, k))},
                settled_at |-> {world.settled_at[y.market] : y \in Range(prior(samples, k))},
                learnt_at |-> {y.at : y \in Range(prior(samples, k))}
                                \cup {f.as_of : f \in Range(feature)}]>>

(* _summary_for_cross, as far as the gate reads it. *)
cross_summary(bets, cross) ==
    LET nets == mapped(SelectSeq(bets, LAMBDA b : b.cross = cross), LAMBDA b : b.net)
    IN  [bets |-> Len(nets), positive |-> mean_positive(nets), proven |-> ci_positive(nets)]

rfi_level_gate(summaries) ==
    LET enough == {x \in summaries : x.positive /\ x.bets >= MinTrain}
    IN  verdict(<<<<\E x \in enough : x.proven, "start live quote capture">>,
                  <<enough # {}, "not proven">>,
                  <<\E x \in summaries : x.positive, "too few bets">>,
                  <<\E x \in summaries : x.bets > 0, "kill or defer">>,
                  <<TRUE, "no candidates">>>>)

evaluate_rfi_level_edge(settled) ==
    LET samples == build_early_price_samples(settled)
        tested == [k \in 1 .. Max({0, Len(samples) - MinTrain}) |-> MinTrain + k]
        crosses == SetToSeq(Crosses)
        bets == FlattenSeq(mapped(crosses, LAMBDA c :
                    FlattenSeq(mapped(tested, LAMBDA k : bet_rows(samples, k, c)))))
    IN  [raised |-> \E k \in Range(tested) :
                        too_late(rfi_feature(world.context, samples[k].market), samples[k].at),
         bets |-> bets,
         gate |-> rfi_level_gate({cross_summary(bets, c) : c \in Crosses})]

rfi_evaluate ==
    /\ written("settled")
    /\ LET report == evaluate_rfi_level_edge(files["settled"])
       IN  ~report.raised /\ write("level", report)

-----------------------------------------------------------------------------
(* Live quotes. *)

(* External: the venue's book, as recorded by scripts/kalshi_ws_capture.py. *)
rfi_record ==
    /\ world.live /\ Len(world.raw) < MaxRaw
    /\ \E y \in RfiLadders, n \in RfiLadders, kind \in {"snapshot", "delta"}, side \in {"yes", "no"} :
        /\ kind = "snapshot" => side = "yes"
        /\ kind = "delta" => n = y
        /\ happens([world EXCEPT !.raw =
            Append(@, [kind |-> kind, market |-> RfiLive, at |-> today, yes |-> y, no |-> n, side |-> side])])

(* _live_quote_from_ws_state_row: a snapshot sets the book of a market, a  *)
(* delta puts a level in or takes it out, and is lost without a book.      *)
book_after(book, row) ==
    IF row.kind = "snapshot" THEN <<[yes |-> row.yes, no |-> row.no]>>
    ELSE IF book = <<>> THEN <<>>
    ELSE IF row.side = "yes" THEN <<[book[1] EXCEPT !.yes = SymDiff(@, row.yes)]>>
    ELSE <<[book[1] EXCEPT !.no = SymDiff(@, row.no)]>>

(* _quote_from_book_state: both sides, and not crossed. *)
quote_from_book(book, row) ==
    IF book = <<>> \/ book[1].yes = {} \/ book[1].no = {} THEN <<>>
    ELSE LET bid == Max(book[1].yes)
             ask == Dollar - Max(book[1].no)
         IN  IF ask < bid THEN <<>>
             ELSE <<[market |-> row.market, at |-> row.at, bid |-> bid, ask |-> ask,
                     verified |-> TRUE, delta |-> row.kind = "delta"]>>

(* read_ws_live_quote_timeline_jsonl *)
ws_timeline(raw) ==
    FoldLeft(LAMBDA acc, row :
                LET book == book_after(acc.book, row)
                IN  [book |-> book, quotes |-> acc.quotes \o quote_from_book(book, row)],
             [book |-> <<>>, quotes |-> <<>>], raw).quotes

(* read_ws_live_quotes_jsonl: the latest quote. *)
ws_latest(raw) ==
    LET timeline == ws_timeline(raw)
    IN  IF timeline = <<>> THEN <<>> ELSE <<Last(timeline)>>

(* capture_kalshi_rfi_live_quotes: the top of the book over REST, of the   *)
(* markets that are live; a market without both prices is skipped.         *)
rfi_capture_live ==
    LET top == ws_latest(world.raw)
    IN  write("live_quotes", mapped(top, LAMBDA q : [q EXCEPT !.at = today, !.verified = FALSE]))

(* _live_touch_candidate_from_quote *)
touch_reason(q, edge) ==
    verdict(<<<<today - q.at > RfiQuoteAge, "stale_quote">>,
              <<~q.verified, "needs_ws_book">>,
              <<edge < MinNetEdge, "fails_fee_spread_gate">>,
              <<TRUE, "candidate">>>>)

touch_candidate(q, base, feature) ==
    LET t == taker_side(clip(0, base + context_delta(feature), Dollar), q.ask, Dollar - q.bid)
    IN  [market |-> q.market, at |-> q.at, side |-> t.side, price |-> t.price, fee |-> t.fee,
         edge |-> t.edge, spread |-> q.ask - q.bid, age |-> Max({0, today - q.at}),
         delta |-> q.delta, reason |-> touch_reason(q, t.edge), decided_at |-> today]

live_touch_gate(rows) ==
    LET reasons == {r.reason : r \in Range(rows)}
    IN  verdict(<<<<rows = <<>>, "no quotes">>,
                  <<"candidate" \in reasons, "start markout capture">>,
                  <<"needs_ws_book" \in reasons, "need book depth">>,
                  <<reasons = {"stale_quote"}, "all stale">>,
                  <<TRUE, "no candidates">>>>)

(* evaluate_rfi_live_touch; with too few samples there are no candidates. *)
evaluate_rfi_live_touch(settled, quotes) ==
    LET samples == build_early_price_samples(settled)
        feature(q) == rfi_feature(world.context, q.market)
        rows == mapped(quotes, LAMBDA q : touch_candidate(q, base_rate(samples), feature(q)))
    IN  IF Len(samples) < MinTrain THEN [raised |-> FALSE, rows |-> <<>>, gate |-> "too few samples"]
        ELSE [raised |-> \E q \in Range(quotes) : too_late(feature(q), q.at),
              rows |-> rows, gate |-> live_touch_gate(rows)]

rfi_live_touch ==
    /\ written("settled")
    /\ \E quotes \in {ws_latest(world.raw)} \cup {files[f] : f \in {"live_quotes"} \cap DOMAIN files} :
        LET report == evaluate_rfi_live_touch(files["settled"], quotes)
        IN  ~report.raised /\ write("candidates", report.rows)

-----------------------------------------------------------------------------
(* Mark-outs. *)

(* _markout_row *)
markout_row(c, timeline) ==
    LET found == first_at_or_after(timeline, c.at + Horizon)
        clv(q) == exit_price(c.side, q) - c.price
    IN  [candidate |-> c,
         mark |-> mapped(found, LAMBDA q : [at |-> q.at, clv |-> clv(q), net |-> clv(q) - c.fee])]

marks(rows) == FlattenSeq(mapped(rows, LAMBDA r : r.mark))

(* _markout_summary and _markout_decision_gate, for one horizon. *)
markout_gate(rows) ==
    LET found == marks(rows)
    IN  verdict(<<<<rows = <<>>, "no candidates">>,
                  <<found = <<>>, "no future quotes">>,
                  <<Len(found) < MinRows, "too few rows">>,
                  <<mean_positive(mapped(found, LAMBDA x : x.net)), "continue paper">>,
                  <<mean_positive(mapped(found, LAMBDA x : x.clv)), "fee not earned">>,
                  <<TRUE, "kill or defer">>>>)

(* evaluate_rfi_live_markouts *)
evaluate_rfi_live_markouts(candidates, timeline) ==
    LET active == SelectSeq(candidates, LAMBDA c : c.reason = "candidate")
        rows == mapped(active, LAMBDA c : markout_row(c, timeline))
    IN  [rows |-> rows, gate |-> markout_gate(rows)]

rfi_markout ==
    /\ written("candidates")
    /\ write("markouts", evaluate_rfi_live_markouts(files["candidates"], ws_timeline(world.raw)))

(* _rfi_execution_filter_rules: floors and ceilings declared beforehand. *)
filter_rules ==
    {[edge |-> e, age |-> a, spread |-> x, source |-> d] :
        e \in {Missing, 3, 5}, a \in {Dollar, 0}, x \in {Dollar, 1}, d \in {FALSE}}
    \cup {[edge |-> Missing, age |-> Dollar, spread |-> Dollar, source |-> TRUE]}

filter_matches(rule, r) ==
    /\ r.candidate.edge >= rule.edge
    /\ r.candidate.age <= rule.age
    /\ r.candidate.spread <= rule.spread
    /\ rule.source => r.candidate.delta

(* _execution_filter_summary, _execution_filter_decision_gate *)
filter_gate(nets) ==
    LET eligible == {s \in nets : Len(s) >= MinRows}
    IN  verdict(<<<<\A s \in nets : s = <<>>, "no rows">>,
                  <<eligible = {}, "too few rows">>,
                  <<\E s \in eligible : ci_positive(s), "start paper candidate">>,
                  <<\E s \in eligible : mean_positive(s), "not proven">>,
                  <<TRUE, "kill or defer">>>>)

(* evaluate_rfi_execution_filters *)
rfi_execution_filter ==
    /\ written("markouts")
    /\ LET matched(rule) == SelectSeq(files["markouts"].rows, LAMBDA r : filter_matches(rule, r))
           nets(rule) == mapped(marks(matched(rule)), LAMBDA x : x.net)
       IN  write("filters", filter_gate({nets(rule) : rule \in filter_rules}))

RfiNext ==
    \/ world.live /\ time_passes
    \/ rfi_record
    \/ rfi_capture \/ rfi_evaluate
    \/ rfi_capture_live \/ rfi_live_touch
    \/ rfi_markout \/ rfi_execution_filter

-----------------------------------------------------------------------------

(* A bet of the level study learns from games first traded before its own   *)
(* and from a context row no later than its decision; what a game learnt   *)
(* from was settled as is not asked here (PriorSettled).  A mark comes a   *)
(* horizon after its candidate, and a candidate was decided on a quote no  *)
(* older than the limit.                                                   *)
RfiKnownInTime ==
    /\ written("level") =>
        \A b \in Range(files["level"].bets) :
            b.market \notin b.learnt_from /\ \A t \in b.learnt_at : t <= b.at
    /\ written("markouts") =>
        \A r \in Range(files["markouts"].rows) : \A x \in Range(r.mark) :
            /\ x.at >= r.candidate.at + Horizon
            /\ r.candidate.decided_at - r.candidate.at <= RfiQuoteAge

(* The base rate of a bet is of games whose results were known when it was *)
(* decided.  evaluate_rfi_level_edge takes every sample that started       *)
(* earlier, whether its game had been settled by then or not.              *)
(* The level study is leak-free (its docstring): the games whose results   *)
(* make the prior of a bet were settled when the bet was decided.  The     *)
(* code takes every game first traded earlier, settled or not.             *)
PriorSettled ==
    written("level") =>
        \A b \in Range(files["level"].bets) : \A t \in b.settled_at : t <= b.at
=============================================================================
