----------------------------- MODULE TennisStudy -----------------------------
(***************************************************************************)
(* The tennis models (research/tennis_v2.py, tennis_xgboost.py): matches   *)
(* are replayed in the order of the data, each emits a snapshot of what    *)
(* was known of both players and then updates it; the snapshots are split  *)
(* by date, trained on and walked forward over (also                       *)
(* research/tennis_market_residual.py); the pipeline scores the matches to *)
(* come (scripts/tennis_pipeline.py), and a reference value is held        *)
(* against a quote (research/tennis_market_state.py).                      *)
(*                                                                         *)
(* The data dates a match by the first day of its tournament; TennisOrder  *)
(* is the order in which the matches are really played.                    *)
(***************************************************************************)
EXTENDS Studies

CONSTANTS TennisMatches,    \* match -> [date, tourney, num, day, players, surface, odds]
          TennisOrder,      \* the matches in the order they are played
          TennisQuotes,     \* <<yes bid, yes ask>>
          RecentWindow, SeasonLength, TennisEdge, TennisConfidence, TennisDisagreement

InitialElo == 150

TennisWorlds == {[results |-> <<>>]}

-----------------------------------------------------------------------------
(* Replaying. A player's log is the matches in his state, oldest first;    *)
(* his form, rest, fatigue, serve and surface records are read off it.     *)

NewPlayer == [elo |-> InitialElo, surface_elo |-> <<>>, log |-> <<>>]

player(state, x) == IF x \in DOMAIN state THEN state[x] ELSE NewPlayer
surface_elo_of(p, surface) == IF surface \in DOMAIN p.surface_elo THEN p.surface_elo[surface] ELSE InitialElo

(* The expected score, in cents; a logistic curve, here its middle part. *)
expected_score(a, b) == clip(5, 50 + (a - b), 95)

(* _dynamic_k: falls with the matches played, grows after a layoff. *)
dynamic_k(p, date) ==
    LET rest == IF p.log = <<>> THEN 0 ELSE date - Last(p.log).date
    IN  (40 \div (Len(p.log) + 2)) + Max({0, Min({rest - 1, 2})})

(* What a rating moves by; in _elo_update of the first model, the same for *)
(* everybody.                                                              *)
k_factor(version, p, date) == IF version = "v2" THEN dynamic_k(p, date) ELSE 8

(* _mov_multiplier, in per cent. *)
mov_multiplier(games) ==
    IF games[1] + games[2] <= 0 THEN 100 ELSE 100 + clip(-40, 7 * (games[1] - games[2]), 40)

(* _update_elo: overall and on the surface. *)
update_elo(state, r, version) ==
    LET w == player(state, r.winner)
        l == player(state, r.loser)
        mov == mov_multiplier(r.games)
        delta == (Dollar - expected_score(w.elo, l.elo)) * mov
        s_delta == (Dollar - expected_score(surface_elo_of(w, r.surface), surface_elo_of(l, r.surface))) * mov
        moved(p, sign) ==
            [p EXCEPT !.elo = @ + sign * ((k_factor(version, p, r.date) * delta) \div 10000),
                      !.surface_elo = (r.surface :> surface_elo_of(p, r.surface)
                                            + sign * ((k_factor(version, p, r.date) * s_delta) \div 10000)) @@ @]
    IN  (r.winner :> moved(w, 1)) @@ (r.loser :> moved(l, -1)) @@ state

(* _parse_score: a match over the distance. *)
long_match(games) == games[1] + games[2] >= 3

(* The state after a match. The form is judged with the ratings that       *)
(* already contain it.                                                     *)
after_match(state, r, version) ==
    LET rated == update_elo(state, r, version)
        surprise == Dollar - expected_score(rated[r.winner].elo, rated[r.loser].elo)
        entry(won, other) ==
            [match |-> r.match, date |-> r.date, won |-> won, against |-> other, surface |-> r.surface,
             games |-> r.games[1] + r.games[2], long |-> long_match(r.games),
             form |-> IF won THEN surprise ELSE -surprise]
    IN  [rated EXCEPT ![r.winner].log = Append(@, entry(TRUE, r.loser)),
                      ![r.loser].log = Append(@, entry(FALSE, r.winner))]

(* What a deque of the last matches says. *)
recent(p) == SubSeq(p.log, Max({1, Len(p.log) - RecentWindow + 1}), Len(p.log))

(* _days_since, _fatigue_window, _prev_long and _ServeSums.rates. *)
days_since(p, date) == IF p.log = <<>> THEN Missing ELSE Max({0, date - Last(p.log).date})
fatigue_window(p, date) ==
    LET near == SelectSeq(p.log, LAMBDA e : date - e.date \in 0 .. 1)
    IN  <<Len(near), total(mapped(near, LAMBDA e : e.games))>>
wins(s) == Len(SelectSeq(s, LAMBDA e : e.won))

(* _v2_snapshot, _snapshot_from_row: one side of it. knows is history.     *)
side_of(state, x, other, r) ==
    LET p == player(state, x)
        here == SelectSeq(p.log, LAMBDA e : e.surface = r.surface)
    IN  [id |-> x, elo |-> p.elo, surface_elo |-> surface_elo_of(p, r.surface),
         recent_wins |-> wins(recent(p)), recent_matches |-> Len(recent(p)),
         form |-> total(mapped(recent(p), LAMBDA e : e.form)),
         surface_wins |-> wins(here), surface_matches |-> Len(here),
         h2h |-> wins(SelectSeq(p.log, LAMBDA e : e.against = other)),
         rest |-> days_since(p, r.date), fatigue |-> fatigue_window(p, r.date),
         prev_long |-> p.log # <<>> /\ Last(p.log).long,
         knows |-> {e.match : e \in Range(p.log)}]

snapshot(state, r) ==
    [match |-> r.match, date |-> r.date, surface |-> r.surface, label |-> 1, odds |-> r.odds,
     p1 |-> side_of(state, r.winner, r.loser, r), p2 |-> side_of(state, r.loser, r.winner, r)]

(* _mirror_v2, _mirror_snapshot *)
mirror(s) == [s EXCEPT !.p1 = s.p2, !.p2 = s.p1, !.odds = Dollar - @, !.label = 1 - @]

(* (tourney_date, tourney_id, match_num) as one number. *)
data_key(r) == 10000 * r.date + 100 * r.tourney + r.num

in_data_order(rows) == sorted_by(rows, data_key)

(* _build_v2_snapshots, build_sackmann_training_frame: emit, then update. *)
replayed(rows, version) ==
    FoldLeft(LAMBDA acc, r : [state |-> after_match(acc.state, r, version),
                              out |-> Append(acc.out, snapshot(acc.state, r))],
             [state |-> <<>>, out |-> <<>>], in_data_order(rows)).out

with_mirrors(snaps) == FlattenSeq(mapped(snaps, LAMBDA s : <<s, mirror(s)>>))

(* A row of the data: the match as it ended. *)
data_row(m) ==
    LET x == TennisMatches[m]
        res == world.results[m]
    IN  [match |-> m, date |-> x.date, tourney |-> x.tourney, num |-> x.num, surface |-> x.surface,
         winner |-> x.players[res.won], loser |-> x.players[3 - res.won], games |-> res.games,
         odds |-> IF res.won = 1 THEN x.odds ELSE Dollar - x.odds]

history == mapped(SetToSeq(DOMAIN world.results), data_row)

v2_frame == with_mirrors(replayed(history, "v2"))
v1_frame == with_mirrors(replayed(history, "v1"))

-----------------------------------------------------------------------------
(* Training. A model is the rows it was fitted to; what it says is       *)
(* external: a rating gap, with a lean the fit happens to have.            *)

dates_of(frame) == SetToSortSeq({s.date : s \in Range(frame)}, <)
up_to(frame, d) == SelectSeq(frame, LAMBDA s : s.date <= d)

(* min over the ends of a range of whole dates, the earliest on a tie. *)
nearest_end(frame, dates, lo, hi, percent) ==
    LET off(k) == LET d == 100 * Len(up_to(frame, dates[k])) - percent * Len(frame)
                  IN  IF d < 0 THEN -d ELSE d
    IN  CHOOSE k \in lo .. hi : \A j \in lo .. hi : off(k) < off(j) \/ (off(k) = off(j) /\ k <= j)

slice(frame, a, b) == SubSeq(frame, a, b)

(* temporal_train_validation_test_split: by whole dates where there are    *)
(* three of them, by position otherwise.                                   *)
split(frame) ==
    LET dates == dates_of(frame)
        n == Len(frame)
        t == nearest_end(frame, dates, 1, Len(dates) - 2, 70)
        v == nearest_end(frame, dates, t + 1, Len(dates) - 1, 85)
        train_end == (70 * n) \div 100
        validation_end == train_end + (15 * n) \div 100
    IN  IF Len(dates) >= 3
        THEN [train |-> up_to(frame, dates[t]),
              validation |-> SelectSeq(up_to(frame, dates[v]), LAMBDA s : s.date > dates[t]),
              test |-> SelectSeq(frame, LAMBDA s : s.date > dates[v])]
        ELSE [train |-> slice(frame, 1, train_end),
              validation |-> slice(frame, train_end + 1, validation_end),
              test |-> slice(frame, validation_end + 1, n)]

(* External: what the fitted trees say. *)
fitted(train, s) ==
    LET lean == IF Len(train) % 4 = 0 THEN 3 ELSE 1
    IN  clip(1, expected_score(s.p1.elo, s.p2.elo) + lean, 99)

(* predict_v2_antisymmetric, _swap_features. *)
antisymmetric(train, s) == (fitted(train, s) + Dollar - fitted(train, mirror(s))) \div 2

scored(train, rows) ==
    mapped(rows, LAMBDA s : [match |-> s.match, p1 |-> s.p1.id, label |-> s.label,
                             probability |-> antisymmetric(train, s)])

(* tennis-xgboost-train: an empty part is an error. *)
tennis_train ==
    \E frame \in {v1_frame, v2_frame} :
        LET parts == split(frame)
        IN  /\ \A part \in {"train", "validation", "test"} : parts[part] # <<>>
            /\ write("bundle", [parts |-> parts, metrics |-> scored(parts.train, parts.test)])

(* rolling_origin_backtest *)
season(s) == s.date \div SeasonLength
fold(frame, y) ==
    [train |-> SelectSeq(frame, LAMBDA s : season(s) < y), test |-> SelectSeq(frame, LAMBDA s : season(s) = y)]

tennis_rolling ==
    LET frame == v2_frame
        years == SetToSortSeq({season(s) : s \in Range(frame)}, <)
        folds == SelectSeq(mapped(years, LAMBDA y : fold(frame, y)), LAMBDA f : f.train # <<>> /\ f.test # <<>>)
    IN  write("folds", mapped(folds, LAMBDA f : f @@ [metrics |-> scored(f.train, f.test)]))

(* executable_edge_gate: the net of taking the side the model favours.     *)
edge_gate(model, market, won) ==
    LET side == IF model > market THEN "YES" ELSE "NO"
        price == clip(1, (IF side = "YES" THEN market ELSE Dollar - market) + 2, 99)
    IN  IF (IF side = "YES" THEN model - market ELSE market - model) <= 3 THEN <<>>
        ELSE <<payoff(side, won) - price - taker_fee(price)>>

(* MarketResidualEvaluator.walk_forward and the gate after it: rows with   *)
(* odds only, a row in the order the data names the players.               *)
tennis_residual ==
    LET frame == SelectSeq(replayed(history, "v2"), LAMBDA s : s.odds # Missing)
        years == SetToSortSeq({season(s) : s \in Range(frame)}, <)
        folds == SelectSeq(mapped(years, LAMBDA y : fold(frame, y)), LAMBDA f : f.train # <<>> /\ f.test # <<>>)
        bets(f) == FlattenSeq(mapped(f.test, LAMBDA s :
                        edge_gate((s.odds + fitted(f.train, s)) \div 2, s.odds, s.label = 1)))
    IN  write("residual", [folds |-> folds, nets |-> FlattenSeq(mapped(folds, bets))])

-----------------------------------------------------------------------------
(* Matches to come. *)

coming == {m \in DOMAIN TennisMatches : m \notin DOMAIN world.results}

(* build_upcoming_snapshot: a synthetic row, dated the day of the match,   *)
(* that is meant to sort last; the last snapshot is returned.              *)
upcoming(m, p1) ==
    LET x == TennisMatches[m]
        synthetic == [match |-> m, date |-> x.day, tourney |-> 99, num |-> 99, surface |-> x.surface,
                      winner |-> x.players[p1], loser |-> x.players[3 - p1], games |-> <<0, 0>>,
                      odds |-> IF p1 = 1 THEN x.odds ELSE Dollar - x.odds]
    IN  Last(replayed(Append(history, synthetic), "v2"))

(* The favourite is the YES side. *)
favourite(m) == IF TennisMatches[m].odds >= 50 THEN 1 ELSE 2

(* build_bundle of the pipeline: matches with odds that have not started;  *)
(* without any no bundle is written.                                       *)
tennis_pipeline ==
    LET ready == {m \in coming : TennisMatches[m].odds # Missing /\ TennisMatches[m].day >= today}
    IN  /\ ready # {}
        /\ write("snapshots", [at |-> today,
                rows |-> [m \in ready |-> upcoming(m, favourite(m))]])

(* build_reference_valuation: the sharp odds and, with some weight, the    *)
(* model.                                                                  *)
valuation(m, model) ==
    LET sharp == TennisMatches[m].odds
        gap == IF model > sharp THEN model - sharp ELSE sharp - model
        fair == (35 * model + 65 * sharp) \div 100
    IN  [fair |-> fair, disagreement |-> gap,
         confidence |-> (Max({fair, Dollar - fair}) * (Dollar - gap)) \div 100]

(* evaluate_tennis_reference_candidate *)
reference_decision(v, q) ==
    LET best == taker_side(v.fair, q[2], Dollar - q[1])
    IN  verdict(<<
            <<v.disagreement > TennisDisagreement, [candidate |-> FALSE, reason |-> "disagreement"]>>,
            <<v.confidence < TennisConfidence, [candidate |-> FALSE, reason |-> "confidence"]>>,
            <<~(0 <= q[1] /\ q[1] <= q[2]), [candidate |-> FALSE, reason |-> "quote"]>>,
            <<best.edge < TennisEdge, [candidate |-> FALSE, reason |-> "edge"]>>,
            <<TRUE, [candidate |-> TRUE, reason |-> "candidate", side |-> best.side, price |-> best.price]>> >>)

(* A match of the pipeline's file, while is_tradeable_lifecycle says so.   *)
tennis_reference ==
    /\ written("snapshots")
    /\ \E m \in DOMAIN files["snapshots"].rows, q \in TennisQuotes :
        LET s == files["snapshots"].rows[m]
            v == valuation(m, IF favourite(m) = 1 THEN fitted(<<>>, s) ELSE Dollar - fitted(<<>>, s))
        IN  /\ TennisMatches[m].day - today \in 0 .. 3
            /\ write("reference", [match |-> m, at |-> today, quote |-> q, valuation |-> v,
                                   decision |-> reference_decision(v, q)])

(* A match is played on its day or after it, in turn. *)
tennis_play ==
    LET k == Cardinality(DOMAIN world.results) + 1
    IN  /\ k <= Len(TennisOrder)
        /\ TennisMatches[TennisOrder[k]].day <= today
        /\ \E won \in {1, 2} :
            happens([world EXCEPT !.results =
                (TennisOrder[k] :> [won |-> won, games |-> IF won = 1 THEN <<2, 0>> ELSE <<2, 1>>]) @@ @])

TennisNext ==
    \/ time_passes \/ tennis_play
    \/ tennis_train \/ tennis_rolling \/ tennis_residual
    \/ tennis_pipeline \/ tennis_reference

-----------------------------------------------------------------------------
turn(m) == CHOOSE k \in DOMAIN TennisOrder : TennisOrder[k] = m
before_all(a, b) == \A s \in Range(a) : \A r \in Range(b) : s.date < r.date
knows(s) == s.p1.knows \cup s.p2.knows

(* "State is updated only after emitting each match row": although the     *)
(* data dates a match by its tournament, what a snapshot knows of its two  *)
(* players are matches played before it; a match and its mirror, and a     *)
(* date, are in one part of the split, and the parts follow each other; a  *)
(* season is tested on a model of earlier ones; and a match to come is     *)
(* scored from its own row and from matches that are over.                 *)
TennisKnownInTime ==
    /\ written("bundle") =>
        LET p == files["bundle"].parts
        IN  /\ \A s \in Range(p.train \o p.validation \o p.test) : \A m \in knows(s) : turn(m) < turn(s.match)
            /\ Cardinality({s.date : s \in Range(p.train \o p.validation \o p.test)}) >= 3 =>
                before_all(p.train, p.validation) /\ before_all(p.validation, p.test)
    /\ written("folds") => \A f \in Range(files["folds"]) : before_all(f.train, f.test)
    /\ written("residual") => \A f \in Range(files["residual"].folds) : before_all(f.train, f.test)
    /\ written("snapshots") =>
        \A m \in DOMAIN files["snapshots"].rows :
            LET s == files["snapshots"].rows[m]
            IN  s.match = m /\ \A x \in knows(s) : turn(x) < turn(m)

(* "Enforces P(p1) + P(p2) = 1": a match and its mirror are given          *)
(* probabilities that add up, to the cent, and labels that differ.         *)
TennisCoherent ==
    \A f \in (IF written("folds") THEN Range(files["folds"]) ELSE {})
                \cup (IF written("bundle") THEN {files["bundle"]} ELSE {}) :
        \A a, b \in Range(f.metrics) :
            a.match = b.match /\ a.p1 # b.p1 =>
                a.probability + b.probability \in Dollar - 1 .. Dollar /\ a.label + b.label = 1
=============================================================================
