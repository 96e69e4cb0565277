----------------------------- MODULE GolfModels -----------------------------
(***************************************************************************)
(* The golf simulators: sports/golf.py, sports/golf_first_round.py, the    *)
(* surface of research/golf_surface.py and the top-N inference of          *)
(* research/golf_preround.py.                                              *)
(*                                                                         *)
(* A draw is one score card, player -> strokes to par, that the random     *)
(* generator may produce; a model is a sequence of draws, and a            *)
(* probability the share of its draws, in cents.                           *)
(***************************************************************************)
EXTENDS Studies

CONSTANTS Golfers,      \* the field, as integers: the order of player ids
          Luck,         \* what the holes that are left may add to a score
          CutRule,      \* cut_rule_size
          CutHoles, AllHoles,
          Simulations   \* draws of one model

(* _simulate_scores_to_hole: a player who is through keeps his score. *)
cards(state, target) ==
    {[p \in Golfers |-> state.score[p] + IF state.holes[p] < target THEN luck[p] ELSE 0] :
        luck \in [Golfers -> Luck]}

draws(set) == [1 .. Simulations -> set]

share(hits, sample) == (Dollar * Len(hits)) \div Len(sample)

(* _rank_cut_score: the score at a rank, the last one in a small field. *)
score_at_rank(card, n) ==
    LET k == Min({n, Cardinality(Golfers)})
    IN  Min({x \in Range(card) : Cardinality({p \in Golfers : card[p] <= x}) >= k})

(* Who is at or under that score: ties are in. *)
within(card, n) == {p \in Golfers : card[p] <= score_at_rank(card, n)}

-----------------------------------------------------------------------------
(* GolfCutLineMonteCarloModel.predict; with the lines a market exists for. *)
cut_prediction(sample, brackets) ==
    LET line(c) == score_at_rank(c, CutRule)
        lines == {line(c) : c \in Range(sample)} \cup brackets
    IN  [pmf |-> [x \in lines |-> share(SelectSeq(sample, LAMBDA c : line(c) = x), sample)],
         make |-> [p \in Golfers |-> share(SelectSeq(sample, LAMBDA c : p \in within(c, CutRule)), sample)]]

(* to_cut_line_signal, to_player_cut_signals: what the plugins are told. *)
cut_line_signal(prediction, brackets) == [x \in brackets |-> prediction.pmf[x]]
player_cut_signals(prediction) == mapped(SetToSeq(Golfers), LAMBDA p : <<p, prediction.make[p]>>)

(* GolfWinnerMonteCarloModel.predict: a tie goes to the smaller id. *)
winner(card) == Min({p \in Golfers : card[p] = Min(Range(card))})
winner_prediction(sample) == [p \in Golfers |-> share(SelectSeq(sample, LAMBDA c : winner(c) = p), sample)]

(* TeeTimeWaveForecast.penalty_for and _round_mean: the wind of the wave   *)
(* less what the player loses in wind; without a forecast the player's own *)
(* weather delta, without an assignment nothing.                           *)
wave_penalty(forecast, p, own) ==
    IF forecast = <<>> THEN own
    ELSE IF p \notin DOMAIN forecast[1].wave THEN 0
    ELSE forecast[1].wind[forecast[1].wave[p]]

round_cards(forecast, own) ==
    {[p \in Golfers |-> wave_penalty(forecast, p, own[p]) + luck[p]] : luck \in [Golfers -> Luck]}

(* GolfFirstRoundMonteCarloModel.predict: the leaders of a draw share it.  *)
leaders(card) == {p \in Golfers : card[p] = Min(Range(card))}

first_round_prediction(sample, n) ==
    [leader |-> [p \in Golfers |->
        total(mapped(sample, LAMBDA c : IF p \in leaders(c) THEN Dollar \div Cardinality(leaders(c)) ELSE 0))
            \div Len(sample)],
     top |-> [p \in Golfers |-> share(SelectSeq(sample, LAMBDA c : p \in within(c, n)), sample)]]

-----------------------------------------------------------------------------
(* GolfMultiOutcomeSurfaceModel.predict: a draw is a card at the cut and a *)
(* card at the end, drawn independently.                                   *)
surface_sample(state) == draws([cut : cards(state, CutHoles), final : cards(state, AllHoles)])

top_probability(sample, n, p) == share(SelectSeq(sample, LAMBDA d : p \in within(d.final, n)), sample)
make_probability(sample, p) == share(SelectSeq(sample, LAMBDA d : p \in within(d.cut, CutRule)), sample)

(* _cut_line_market_probability *)
cut_line_probability(sample, line, relation) ==
    share(SelectSeq(sample, LAMBDA d : LET x == score_at_rank(d.cut, CutRule)
                             IN  CASE relation = "or_better" -> x <= line
                                   [] relation = "or_worse" -> x >= line
                                   [] relation = "exact" -> x = line), sample)

(* _probability_for_market *)
surface_probability(sample, m) ==
    CASE m.family = "top_n" -> top_probability(sample, m.top_n, m.subject)
      [] m.family = "make_cut" -> make_probability(sample, m.subject)
      [] m.family = "cut_line" -> cut_line_probability(sample, m.line, m.relation)

-----------------------------------------------------------------------------
(* _plackett_luce_topn_probabilities: an order of the field per draw; the  *)
(* first n of it, so no ties.                                              *)
orders_of(field) == {o \in [1 .. Cardinality(field) -> field] : IsInjective(o)}

reference_probability(sample, n, p) ==
    share(SelectSeq(sample, LAMBDA o : \E k \in 1 .. Min({n, Len(o)}) : o[k] = p), sample)

-----------------------------------------------------------------------------

(* A distribution adds up, to a cent per outcome; and being among the      *)
(* first n implies being among the first n + 1.                            *)
adds_up(d) ==
    LET sum == MapThenSumSet(LAMBDA x : d[x], DOMAIN d)
    IN  sum <= Dollar /\ Dollar - sum < Cardinality(DOMAIN d)
nested(low, high) == \A p \in Golfers : low[p] <= high[p]
=============================================================================
