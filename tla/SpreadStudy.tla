----------------------------- MODULE SpreadStudy -----------------------------
(***************************************************************************)
(* research/nba_spread.py, scripts/nba_spread_edge.py and                  *)
(* scripts/mlb_spread_edge.py: Kalshi spread markets against a sportsbook  *)
(* anchor.  Commands: validate-once, markout, markout-horizons,            *)
(* annotate-markout, settle, timestamp-audit, bench and readiness; the NBA *)
(* script has the first, the second and settle.                            *)
(*                                                                         *)
(* world: price of the markets, depth (whose order book is served), game   *)
(* (state and home margin), anchor (what the odds feed serves).  The fair  *)
(* value of the fitted margin distribution is a constant per market.       *)
(***************************************************************************)
EXTENDS Studies

CONSTANTS SpreadMarkets,    \* ticker -> [game, role, threshold, fair]
          SpreadPrices,     \* the <<bid, ask>> pairs of a market
          SpreadEdge,       \* min_net_edge
          FinalMargins,     \* game -> the home margins it may end with
          MaxLedger         \* bound: rows of the mark-out ledger

Tickers == DOMAIN SpreadMarkets
Games == {SpreadMarkets[t].game : t \in Tickers}
TickerSeq == SetToSeq(Tickers)

(* An ESPN anchor carries no time of its own: parse_espn_live_odds_anchor  *)
(* labels it so.  A pick'em spread cannot be fitted, a bad row not parsed. *)
SpreadWorlds ==
    LET start(depth, other, board) ==
            [price |-> CHOOSE p \in SpreadPrices : TRUE, depth |-> depth, board |-> board,
             anchor |-> [g \in Games |-> IF g = "A" THEN "espn" ELSE other],
             game |-> [g \in Games |-> [over |-> FALSE, margin |-> 0]]]
    IN  {start(Tickers, other, "agrees") : other \in {"espn", "bad", "pick_em"}}
        \cup {start({}, "espn", "agrees"), start(Tickers, "espn", "disagrees")}

(* An earlier bench may have left its report. *)
SpreadFiles == {<<>>, [bench |-> [orderbooks |-> Cardinality(Tickers)]]}

(* External: the venue and the games. *)
spread_price_moves ==
    \E p \in SpreadPrices : happens([world EXCEPT !.price = p])

spread_game_ends ==
    \E g \in Games : \E m \in FinalMargins[g] :
        ~world.game[g].over /\ happens([world EXCEPT !.game[g] = [over |-> TRUE, margin |-> m]])

-----------------------------------------------------------------------------
(* Entries. *)

(* net_edge: the better side, if it is not negative. *)
net_edge(fair, bid, ask) ==
    LET yes == fair - ask - curve_fee(ask)
        no == (Dollar - fair) - (Dollar - bid) - curve_fee(Dollar - bid)
    IN  IF Max({yes, no}) < 0 THEN <<>>
        ELSE IF yes >= no THEN <<[side |-> "YES", price |-> ask, fee |-> curve_fee(ask), net |-> yes]>>
        ELSE <<[side |-> "NO", price |-> Dollar - bid, fee |-> curve_fee(Dollar - bid), net |-> no]>>

(* parse_kalshi_spread_market, merge_orderbook_touch: a market whose book  *)
(* is not served has no size.                                              *)
spread_quote(t, books) ==
    [ticker |-> t, bid |-> world.price[1], ask |-> world.price[2], sized |-> t \in books]

(* _reference_consistency_block_reason *)
blocked == world.board = "disagrees"

(* evaluate_spread_ladder: the age of an anchor without a time is unknown. *)
source_age(basis) == IF basis = "espn" THEN <<>> ELSE <<0>>

(* decide_spread_market: with require_source_timestamp a proxy is refused. *)
source_timestamp_ok(require, basis) == ~require \/ source_age(basis) # <<>>

(* value_spread_market, decide_spread_market; a displayed size is enough. *)
spread_decision(q, require, basis) ==
    LET fair == SpreadMarkets[q.ticker].fair
        edge == net_edge(fair, q.bid, q.ask)
    IN  [ticker |-> q.ticker, edge |-> edge, basis |-> basis,
         candidate |-> /\ edge # <<>> /\ edge[1].net >= SpreadEdge
                       /\ source_timestamp_ok(require, basis)
                       /\ ~blocked]

(* fit_margin_distribution raises on a pick'em. *)
unfittable(g) == world.anchor[g] = "pick_em"

(* evaluate_spread_ladder *)
spread_report(g, books, require) ==
    LET mine == SelectSeq(TickerSeq, LAMBDA t : SpreadMarkets[t].game = g)
    IN  [game |-> g, over |-> world.game[g].over, require |-> require,
         decisions |-> mapped(mine, LAMBDA t :
                            spread_decision(spread_quote(t, books), require, world.anchor[g]))]

candidates_of(reports) ==
    SelectSeq(FlattenSeq(mapped(reports, LAMBDA r : r.decisions)), LAMBDA d : d.candidate)

(* _build_live_reports: a finished game is no entry. *)
active_games == SelectSeq(SetToSeq(Games), LAMBDA g : ~world.game[g].over)

(* _evaluate_events: an anchor that does not parse skips the game. *)
evaluate_events(games, books, require) ==
    mapped(SelectSeq(games, LAMBDA g : world.anchor[g] # "bad"),
           LAMBDA g : spread_report(g, books, require))

(* With selective_orderbooks, only the books of the first pass's           *)
(* candidates are fetched.                                                 *)
books_for(selective, require) ==
    IF ~selective THEN world.depth
    ELSE LET first == candidates_of(evaluate_events(active_games, {}, require))
         IN  world.depth \cap {d.ticker : d \in Range(first)}

(* validate-once of the MLB script; a pick'em ends the command. *)
mlb_validate ==
    \E require \in BOOLEAN, selective \in BOOLEAN :
        /\ \A g \in Range(active_games) : ~unfittable(g)
        /\ write("entry", [at |-> today, reports |->
                evaluate_events(active_games, books_for(selective, require), require)])

(* validate-once of the NBA script: one game, finished or not. *)
nba_validate ==
    \E g \in Games :
        /\ world.anchor[g] = "espn"
        /\ write("nba_entry", [at |-> today, reports |-> <<spread_report(g, world.depth, FALSE)>>])

-----------------------------------------------------------------------------
(* Mark-outs. *)

(* markout_report_from_entry_report, _build_markout_payload *)
markout_rows(entry) ==
    LET mark(d) ==
            LET q == [bid |-> world.price[1], ask |-> world.price[2]]
                e == d.edge[1]
            IN  [ticker |-> d.ticker, entered |-> entry.at, marked |-> today,
                 net |-> exit_price(e.side, q) - e.price - e.fee]
    IN  mapped(candidates_of(entry.reports), mark)

nets_of(rows) == mapped(rows, LAMBDA r : r.net)

(* _markout_decision *)
mlb_markout_decision(rows) ==
    verdict(<<<<rows = <<>>, "no entries">>,
              <<mean_positive(nets_of(rows)), "positive">>,
              <<TRUE, "kill or defer">>>>)

(* _augment_markout_payload: the age of the entry at the mark. *)
markout_payload(entry) ==
    LET rows == markout_rows(entry)
    IN  [rows |-> rows, decision |-> mlb_markout_decision(rows), age |-> today - entry.at,
         entry |-> entry.at]

ledger == IF written("ledger") THEN files["ledger"] ELSE <<>>

(* _append_markout_ledger: one row for each mark; nothing looks whether a  *)
(* mark is there already.                                                  *)
append_markout_ledger(payload) == ledger \o payload.rows

write_markout(payload) ==
    /\ Len(append_markout_ledger(payload)) <= MaxLedger
    /\ write_all([markout |-> payload, ledger |-> append_markout_ledger(payload)])

mlb_markout == written("entry") /\ write_markout(markout_payload(files["entry"]))

(* markout-horizons: _wait_for_horizon sleeps until the entry is Horizon   *)
(* old, then the quotes are fetched.                                       *)
mlb_markout_horizons ==
    /\ written("entry")
    /\ files["entry"].at + Horizon <= today
    /\ write_markout(markout_payload(files["entry"]))

(* annotate-markout: an earlier mark-out against an entry, again to the    *)
(* ledger.                                                                 *)
mlb_annotate_markout ==
    /\ written("entry") /\ written("markout")
    /\ write_markout([files["markout"] EXCEPT !.entry = files["entry"].at])

nba_markout == written("nba_entry") /\ write("nba_markout", markout_payload(files["nba_entry"]))

-----------------------------------------------------------------------------
(* Settlement. *)

(* _settled_yes *)
settled_yes(t, margin) ==
    IF SpreadMarkets[t].role = "home" THEN margin > SpreadMarkets[t].threshold
    ELSE margin < -SpreadMarkets[t].threshold

(* settlement_report_from_entry_report: a game that is not over leaves its *)
(* rows pending.                                                           *)
settlement_rows(entry) ==
    LET over == SelectSeq(candidates_of(entry.reports),
                          LAMBDA d : world.game[SpreadMarkets[d.ticker].game].over)
        row(d) ==
            LET e == d.edge[1]
                yes == settled_yes(d.ticker, world.game[SpreadMarkets[d.ticker].game].margin)
            IN  [ticker |-> d.ticker, net |-> payoff(e.side, yes) - e.price - e.fee]
    IN  mapped(over, row)

(* _settlement_payload *)
settlement_payload(entry) ==
    LET rows == settlement_rows(entry)
    IN  [rows |-> rows, entry |-> entry.at,
         decision |-> verdict(<<<<Len(rows) < Len(candidates_of(entry.reports)), "pending">>,
                                <<mean_positive(nets_of(rows)), "supported">>,
                                <<TRUE, "kill">>>>)]

mlb_settle == written("entry") /\ write("settlement", settlement_payload(files["entry"]))
nba_settle == written("nba_entry") /\ write("nba_settlement", settlement_payload(files["nba_entry"]))

-----------------------------------------------------------------------------
(* Readiness. *)

(* timestamp-audit of a game that is not over. *)
mlb_timestamp_audit ==
    /\ active_games # <<>>
    /\ write("audit", IF world.anchor[active_games[1]] = "upstream" THEN "available" ELSE "proxy only")

(* bench: how many books a scan fetched. *)
mlb_bench == write("bench", [orderbooks |-> Cardinality(world.depth)])

(* _readiness_payload: the checks that pass. *)
readiness_checks(entry) ==
    LET found == candidates_of(entry.reports)
        markout == IF written("markout") THEN files["markout"].rows ELSE <<>>
        settled == IF written("settlement") THEN files["settlement"].rows ELSE <<>>
    IN  [fee_net_candidates_present |-> found # <<>>,
         entry_generation_point_in_time |->
            \A r \in Range(entry.reports) : r.over => candidates_of(<<r>>) = <<>>,
         source_timestamp_required_by_validation |->
            entry.reports # <<>> /\ \A r \in Range(entry.reports) : r.require,
         upstream_source_timestamps_present |->
            found # <<>> /\ \A d \in Range(found) : source_age(d.basis) # <<>>,
         external_signal_payload_compatible |-> TRUE,
         markout_horizon_covered |-> written("markout") /\ files["markout"].age >= Horizon,
         positive_markout |-> mean_positive(nets_of(markout)),
         positive_settlement |-> mean_positive(nets_of(settled)),
         executable_depth_bench_present |-> written("bench") /\ files["bench"].orderbooks > 0,
         latency_budget |-> written("bench")]

mlb_readiness ==
    /\ written("entry")
    /\ LET checks == readiness_checks(files["entry"])
       IN  write("readiness", {c \in DOMAIN checks : ~checks[c]})

SpreadNext ==
    \/ time_passes \/ spread_price_moves \/ spread_game_ends
    \/ mlb_validate \/ mlb_markout \/ mlb_markout_horizons \/ mlb_annotate_markout
    \/ mlb_settle \/ mlb_timestamp_audit \/ mlb_bench \/ mlb_readiness

NbaNext ==
    \/ time_passes \/ spread_price_moves \/ spread_game_ends
    \/ nba_validate \/ nba_markout \/ nba_settle

-----------------------------------------------------------------------------

(* The MLB script enters no game that is over, marks no row before its     *)
(* entry, and the odds feed's missing time keeps it from being ready.      *)
SpreadKnownInTime ==
    /\ written("entry") => \A r \in Range(files["entry"].reports) : ~r.over
    /\ \A r \in Range(ledger) : r.marked >= r.entered
    /\ written("readiness") => files["readiness"] # {}
=============================================================================
