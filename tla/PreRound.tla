------------------------------ MODULE PreRound ------------------------------
(***************************************************************************)
(* Golf before the first tee: research/golf_preround_data.py,              *)
(* research/golf_preround.py, the historical builder of                    *)
(* research/golf_live_paper.py and their scripts.  Captures of the venue   *)
(* and of bookmakers are joined with features and results into a dataset,  *)
(* the dataset is split by time, and models are compared on the later part.*)
(*                                                                         *)
(* world: features (subject -> when they were taken), results (subject ->  *)
(* made it or not).                                                        *)
(***************************************************************************)
EXTENDS GolfModels

CONSTANTS PreSubjects,      \* subject -> [event, start, player, top_n]
          PreQuotes,        \* what a capture may say of a market: [bid, ask, size]
          PreOdds,          \* what a bookmaker may offer, as the implied cents
          PreSources,       \* bookmakers
          PreFairs,         \* what a fitted model may predict
          MinPreRows,       \* rows the research asks for
          PreEdge, PreSize

Subjects == DOMAIN PreSubjects
SubjectSeq == SetToSeq(Subjects)
Start(x) == PreSubjects[x].start
Event(x) == PreSubjects[x].event

at_most_one(s) == SubSeq(s, 1, Min({1, Len(s)}))

PreWorlds == {[features |-> <<>>, results |-> <<>>]}

pre_features ==
    \E x \in Subjects \ DOMAIN world.features :
        happens([world EXCEPT !.features = (x :> today) @@ @])

pre_results ==
    \E x \in Subjects \ DOMAIN world.results, made \in {0, 1} :
        /\ today > Start(x)
        /\ happens([world EXCEPT !.results = (x :> made) @@ @])

-----------------------------------------------------------------------------
(* Captures. *)

(* _capture_kalshi_topn: the markets that are still open, whether or not   *)
(* play has begun; the file is replaced.                                   *)
pre_capture ==
    \E q \in PreQuotes :
        LET open == SelectSeq(SubjectSeq, LAMBDA x : x \notin DOMAIN world.results)
        IN  write("snapshots", mapped(open, LAMBDA x : [subject |-> x, at |-> today, quote |-> q]))

(* devig_decimal_odds: a board is scaled to one. *)
devig(board) ==
    LET sum == MapThenSumSet(LAMBDA x : board[x], DOMAIN board)
    IN  [x \in DOMAIN board |-> (Dollar * board[x]) \div sum]

(* normalize_decimal_odds_rows: a board is one event at one bookmaker. *)
normalize_odds(sources, odds) ==
    FlattenSeq(mapped(SetToSeq(sources), LAMBDA b :
        mapped(SubjectSeq, LAMBDA x :
            [subject |-> x, at |-> today, source |-> b,
             probability |-> devig(Restrict(odds, {y \in Subjects : Event(y) = Event(x)}))[x]])))

pre_fetch_odds ==
    \E sources \in SUBSET PreSources, odds \in [Subjects -> PreOdds] :
        write("odds", normalize_odds(sources, odds))

file_rows(name) == IF written(name) THEN files[name] ELSE <<>>

-----------------------------------------------------------------------------
(* The builders. *)

(* _latest_before of both builders: one row after the start and the whole  *)
(* build is refused.                                                       *)
late(rows, cutoff) == \E r \in Range(rows) : r.at > cutoff

latest_before(rows) ==
    at_most_one(SelectSeq(rows, LAMBDA r : \A other \in Range(rows) : other.at <= r.at))

(* build_preround_topn_dataset; a subject without a result is left out     *)
(* before its inputs are looked at.                                        *)
rows_about(name, x) == SelectSeq(file_rows(name), LAMBDA r : r.subject = x)
labelled == SelectSeq(SubjectSeq, LAMBDA x : x \in DOMAIN world.features \cap DOMAIN world.results)

build_refused(x, names) ==
    \/ world.features[x] > Start(x)
    \/ \E n \in names : late(rows_about(n, x), Start(x))

(* _build_row_from_inputs: at most one quote and one probability. *)
built_row(x, names) ==
    [subject |-> x, target |-> world.results[x], feature_at |-> world.features[x],
     quote |-> latest_before(rows_about("snapshots", x)),
     odds |-> IF "odds" \in names THEN latest_before(rows_about("odds", x)) ELSE <<>>]

built(names) == mapped(labelled, LAMBDA x : built_row(x, names))

pre_build ==
    LET names == {"snapshots", "odds"}
    IN  /\ labelled # <<>>
        /\ ~ \E x \in Range(labelled) : build_refused(x, names)
        /\ write("dataset", built(names))

(* build_historical_golf_dataset: the features are checked first, of       *)
(* subjects without a result too; no odds.                                 *)
pre_build_historical ==
    /\ labelled # <<>>
    /\ \A x \in DOMAIN world.features : world.features[x] <= Start(x)
    /\ ~ \E x \in Range(labelled) : build_refused(x, {"snapshots"})
    /\ write("historical", built({"snapshots"}))

-----------------------------------------------------------------------------
(* golf_preround_research.py *)

(* chronological_split: by date and tournament, about two thirds before;   *)
(* both parts keep one group when there are two.                           *)
split_at(groups) == Min({Max({1, (66 * Cardinality(groups) + 50) \div 100}), Cardinality(groups) - 1})

chronological_split(rows) ==
    LET group(r) == <<Start(r.subject), Event(r.subject)>>
        groups == {group(r) : r \in Range(rows)}
        before(g, h) == g[1] < h[1] \/ (g[1] = h[1] /\ g[2] < h[2])
        first == {g \in groups : Cardinality({h \in groups : before(h, g)}) < split_at(groups)}
    IN  [train |-> SelectSeq(rows, LAMBDA r : group(r) \in first),
         test |-> SelectSeq(rows, LAMBDA r : group(r) \notin first)]

(* _anchor_probability, _odds_probability *)
clip_probability(p) == clip(1, p, Dollar - 1)
odds_anchor(r, fallback) == clip_probability(IF r.odds # <<>> THEN r.odds[1].probability ELSE fallback)
market_anchor(r, fallback) ==
    IF r.quote # <<>> THEN clip_probability((r.quote[1].quote.bid + r.quote[1].quote.ask) \div 2)
    ELSE odds_anchor(r, fallback)

(* _metrics: Brier, in cents squared, summed. *)
brier(rows, p) == total([k \in DOMAIN rows |-> (p[k] - Dollar * rows[k].target)
                                               * (p[k] - Dollar * rows[k].target)])

(* _candidate_checks *)
pre_check(r, fair, actionable) ==
    LET q == r.quote[1].quote
        yes_gap == fair - q.ask
        no_gap == (Dollar - fair) - (Dollar - q.bid)
        price == IF yes_gap >= no_gap THEN q.ask ELSE Dollar - q.bid
        net == Max({yes_gap, no_gap}) - curve_fee(price)
    IN  net > PreEdge /\ q.size >= PreSize /\ actionable

(* _decision *)
pre_decision(best, market, some_candidate, fixture) ==
    verdict(<<<<fixture, "continue">>,
              <<best >= market, "kill">>,
              <<~some_candidate, "paper only">>,
              <<TRUE, "start tick logging">>>>)

(* run_preround_research: the baselines, and what the three fitted models  *)
(* make of the training part: any prediction, the same one for the same    *)
(* row.  fixture: every row comes from the built-in fixture.               *)
pre_research ==
    /\ written("dataset") /\ Len(files["dataset"]) >= MinPreRows
    /\ LET part == chronological_split(files["dataset"])
           test == part.test
           rate == (Dollar * total(mapped(part.train, LAMBDA r : r.target))) \div Len(part.train)
           market == mapped(test, LAMBDA r : market_anchor(r, rate))
       IN  /\ part.train # <<>> /\ test # <<>>
           /\ \E fitted \in [DOMAIN test -> PreFairs], fixture \in BOOLEAN :
                LET tried == {market, fitted, mapped(test, LAMBDA r : rate),
                              mapped(test, LAMBDA r : odds_anchor(r, rate))}
                    best == CHOOSE p \in tried : \A other \in tried : brier(test, p) <= brier(test, other)
                    some == \E k \in DOMAIN test : test[k].quote # <<>> /\ pre_check(test[k], best[k], TRUE)
                IN  write("research",
                          [train |-> {r.subject : r \in Range(part.train)},
                           test |-> {r.subject : r \in Range(test)},
                           decision |-> pre_decision(brier(test, best), brier(test, market), some, fixture)])

-----------------------------------------------------------------------------
(* golf_reference_topn.py *)

(* _reference_odds_strengths: who has a probability, from which books. *)
sources_of(x) == {r.source : r \in Range(rows_about("odds", x))}

(* The better side after its fee. *)
reference_side(fair, q) ==
    LET yes_edge == fair - q.ask - curve_fee(q.ask)
        no_edge == q.bid - fair - curve_fee(Dollar - q.bid)
    IN  IF yes_edge >= no_edge THEN [side |-> "YES", price |-> q.ask, edge |-> yes_edge]
        ELSE [side |-> "NO", price |-> Dollar - q.bid, edge |-> no_edge]

(* _reference_candidate_from_snapshot: decided when the snapshot was taken. *)
reference_candidate(r, fair) ==
    LET side == reference_side(fair, r.quote)
    IN  [subject |-> r.subject, decided_at |-> r.at, side |-> side.side, price |-> side.price,
         reason |-> verdict(<<<<r.quote.size < PreSize, "insufficient_touch_size">>,
                              <<Cardinality(sources_of(r.subject)) < 2, "insufficient_reference_sources">>,
                              <<side.edge < PreEdge, "fails_fee_spread_gate">>,
                              <<TRUE, "candidate">>>>)]

(* _reference_topn_decision_gate *)
reference_gate(filtered, rows) ==
    verdict(<<<<filtered = <<>>, "no markets">>,
              <<rows = <<>>, "not joined">>,
              <<\A r \in Range(rows) : r.reason # "candidate", "no candidates">>,
              <<TRUE, "start read-only markout">>>>)

(* evaluate_reference_topn *)
pre_reference ==
    LET field == {PreSubjects[x].player : x \in {s \in Subjects : sources_of(s) # {}}}
        snapshots == file_rows("snapshots")
        joined == SelectSeq(snapshots, LAMBDA r : sources_of(r.subject) # {})
    IN  \E sample \in draws(orders_of(field)) :
            LET fair(r) == clip_probability(reference_probability(sample, PreSubjects[r.subject].top_n,
                                                                  PreSubjects[r.subject].player))
                rows == mapped(joined, LAMBDA r : reference_candidate(r, fair(r)))
            IN  write("reference", [rows |-> rows, gate |-> reference_gate(snapshots, rows)])

(* summarize_kalshi_golf_markets, select_best_market_structure: nothing to *)
(* choose from without a quoted structure.                                 *)
pre_select ==
    LET quoted == {PreSubjects[r.subject].top_n : r \in Range(file_rows("snapshots"))}
    IN  \E chosen \in quoted : write("selection", chosen)

PreNext ==
    \/ time_passes \/ pre_features \/ pre_results \/ pre_capture \/ pre_fetch_odds
    \/ pre_build \/ pre_build_historical \/ pre_research \/ pre_reference \/ pre_select

-----------------------------------------------------------------------------

(* Nothing a dataset row holds was taken after the start, and no training  *)
(* event is later than an event a model is judged on.                      *)
PreKnownInTime ==
    /\ \A name \in {"dataset", "historical"} : written(name) =>
        \A r \in Range(files[name]) :
            /\ r.feature_at <= Start(r.subject)
            /\ \A x \in Range(r.quote) \cup Range(r.odds) : x.at <= Start(r.subject)
    /\ written("research") =>
        \A a \in files["research"].train, b \in files["research"].test :
            Start(a) <= Start(b) /\ Event(a) # Event(b)
=============================================================================
