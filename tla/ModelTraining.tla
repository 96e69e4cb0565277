--------------------------- MODULE ModelTraining ---------------------------
(***************************************************************************)
(* From stored events to a model in use: features/builders.py, models/     *)
(* {dataset, labelers, trainer, evaluation, artifacts, registry, runner,   *)
(* onnx_export, parity}.py and the commands train, model-train and sweep.  *)
(*                                                                         *)
(* world of the training commands: stream (the events in the order the     *)
(* store replays them), stored (how many are stored yet), memory (the      *)
(* in-memory registry: version -> digest), promoted (its pointer) and      *)
(* loaded (what the runner predicts with).  The digest of a file stands    *)
(* for itself: it is the content.                                          *)
(*                                                                         *)
(* Mids are in half cents.  An instrument that is not given is None.       *)
(***************************************************************************)
EXTENDS Studies

CONSTANTS MtStreams,        \* what the store may hold, in replay order
          MtFilters,        \* the instrument a feature builder is for, or None
          MtVersions,       \* the model versions the configurations name
          MtEnd,            \* the end of the training window
          RollingWindow,    \* the trades a vwap is over
          MtScores,         \* predictions to evaluate: sequences of [label, score]
          MtFrames,         \* tables of rows: sequences of dates
          MtBins,           \* calibration bins
          ExportDeltas, ExportTolerance,    \* how far an export is off, and may be
          ParityRows,       \* parity cases at most
          GridParams,       \* the parameter combinations of a sweep: hashes
          GridWindows,      \* its time windows: names, which are numbers here
          GridWorkers       \* the processes of the pool

NoInstrument == "none"
Labelers == {"next_mid_change", "profitable", "settlement"}

ASSUME MtAssumption ==
    /\ RollingWindow \in Nat \ {0} /\ MtBins \in Nat \ {0} /\ GridWorkers \in Nat \ {0}
    /\ \A s \in MtStreams : \A k \in DOMAIN s : s[k].at \in Nat

MtWorlds ==
    {[stream |-> s, stored |-> 0, memory |-> <<>>, promoted |-> <<>>, loaded |-> <<>>] : s \in MtStreams}

(* Another event is captured and normalized. *)
mt_stored ==
    /\ world.stored < Len(world.stream)
    /\ happens([world EXCEPT !.stored = @ + 1])

-----------------------------------------------------------------------------
(* Feature vectors: DeterministicFeatureBuilder and its rolling builder.   *)

(* _mid_from_quote: one side will do; Missing without any. *)
any_mid(e) ==
    CASE e.bid # Missing /\ e.ask # Missing -> e.bid + e.ask
      [] e.bid # Missing /\ e.ask = Missing -> 2 * e.bid
      [] e.bid = Missing /\ e.ask # Missing -> 2 * e.ask
      [] OTHER -> Missing

priced(e) == e.kind \in {"quote", "book"}
both_sides(e) == priced(e) /\ e.bid # Missing /\ e.ask # Missing

(* _ewma_step, with a half-life of one: of two samples at the same time    *)
(* the second is ignored.                                                  *)
ewma_step(previous, sample, previous_at, at) ==
    IF previous = Missing THEN sample
    ELSE IF at <= previous_at THEN previous
    ELSE (previous + (2 ^ (at - previous_at) - 1) * sample) \div 2 ^ (at - previous_at)

vwap(trades) ==
    LET quantity == total(mapped(trades, LAMBDA t : t.quantity))
    IN  IF quantity = 0 THEN 0 ELSE total(mapped(trades, LAMBDA t : t.price * t.quantity)) \div quantity

NewRolling == [mid |-> Missing, mid_at |-> Missing, trades |-> <<>>, imbalance |-> Missing]

(* _initial_state *)
NewFeatures == [as_of |-> 0, vector |-> <<>>, builder |-> <<>>]

(* The part of _compute that the kind of event decides. *)
rolled(per, e) ==
    CASE priced(e) ->
            [mid |-> IF any_mid(e) = Missing THEN per.mid
                     ELSE ewma_step(per.mid, any_mid(e), per.mid_at, e.at),
             mid_at |-> IF any_mid(e) = Missing THEN per.mid_at ELSE e.at,
             imbalance |-> IF e.kind = "book" /\ both_sides(e) /\ e.bids + e.asks > 0
                           THEN (100 * (e.bids - e.asks)) \div (e.bids + e.asks) ELSE per.imbalance,
             trades |-> per.trades]
      [] e.kind = "trade" ->
            [per EXCEPT !.trades = SelectSeq(Append(@, e), LAMBDA t : t.at >= e.at - RollingWindow)]
      [] OTHER -> per

(* _emit_vector: what is not known yet is zero. *)
emit_vector(instrument, at, per) ==
    [instrument |-> instrument, at |-> at, mid |-> Max({0, per.mid}), vwap |-> vwap(per.trades),
     imbalance |-> IF per.imbalance = Missing THEN 0 ELSE per.imbalance]

(* _compute: an event of another instrument moves the clock and leaves the *)
(* last vector where it is.                                                *)
compute(state, filter, e) ==
    IF filter # NoInstrument /\ e.instrument # filter THEN [state EXCEPT !.as_of = e.at]
    ELSE LET known == IF e.instrument \in DOMAIN state.builder THEN state.builder[e.instrument]
                      ELSE NewRolling
             per == rolled(known, e)
         IN  [as_of |-> e.at, vector |-> <<emit_vector(e.instrument, e.at, per)>>,
              builder |-> (e.instrument :> per) @@ state.builder]

(* update raises FeatureLeakageError. *)
leaks(state, e) == e.at < state.as_of

-----------------------------------------------------------------------------
(* Labels.  A label is a sequence of at most one: none, and the example is *)
(* censored.                                                               *)

(* _first_mid_after *)
first_mid_after(future, threshold, instrument) ==
    LET fits(e) == /\ e.at >= threshold /\ both_sides(e)
                   /\ instrument = NoInstrument \/ e.instrument = instrument
        later == SelectSeq(future, fits)
    IN  IF later = <<>> THEN Missing ELSE any_mid(later[1])

label_next_mid_change(mid, future_mid) == <<(10000 * (future_mid - mid)) \div mid>>

(* The fee of one contract at the mid, up to the cent, in half cents. *)
label_profitable(mid, future_mid) ==
    LET fee == 2 * ((7 * mid * (2 * Dollar - mid) + 39999) \div 40000)
    IN  <<IF future_mid - mid - fee > 0 THEN 1 ELSE 0>>

(* SettlementProbabilityLabeler.label: the first settlement in the buffer. *)
label_settlement(instrument, future) ==
    LET mine == SelectSeq(future, LAMBDA e : /\ e.kind = "settled"
                                             /\ instrument = NoInstrument \/ e.instrument = instrument)
    IN  IF mine = <<>> \/ mine[1].side = "void" THEN <<>>
        ELSE <<IF mine[1].side = "yes" THEN 1 ELSE 0>>

label(labeler, v, mid, future) ==
    LET future_mid == first_mid_after(future, v.at + Horizon, v.instrument)
    IN  IF labeler = "settlement" THEN label_settlement(v.instrument, future)
        ELSE IF mid <= 0 \/ future_mid = Missing THEN <<>>
        ELSE IF labeler = "profitable" THEN label_profitable(mid, future_mid)
        ELSE label_next_mid_change(mid, future_mid)

-----------------------------------------------------------------------------
(* TrainingExampleBuilder *)

NewBuilder == [features |-> NewFeatures, pending |-> <<>>, mids |-> <<>>, out |-> <<>>, raised |-> FALSE]

(* _update_mid_cache: the last two-sided mid, or the first trade. *)
update_mid_cache(mids, e) ==
    CASE both_sides(e) -> (e.instrument :> any_mid(e)) @@ mids
      [] e.kind = "trade" -> mids @@ (e.instrument :> 2 * e.price)
      [] OTHER -> mids

(* The vectors that can be labelled give an example, or are dropped. *)
completed(labeler, entries) ==
    FlattenSeq(mapped(entries, LAMBDA p :
        mapped(label(labeler, p.vector, p.mid, p.future),
               LAMBDA l : [features |-> p.vector, label |-> l, mid |-> p.mid])))

feed(builder, filter, labeler, e) ==
    IF builder.raised \/ leaks(builder.features, e) THEN [builder EXCEPT !.raised = TRUE]
    ELSE LET mids == update_mid_cache(builder.mids, e)
             features == compute(builder.features, filter, e)
             mid_of(v) == IF v.instrument \in DOMAIN mids THEN mids[v.instrument] ELSE Missing
             queued == builder.pending
                       \o mapped(features.vector, LAMBDA v : [vector |-> v, mid |-> mid_of(v), future |-> <<>>])
             seen == mapped(queued, LAMBDA p : [p EXCEPT !.future = Append(@, e)])
             due(p) == e.at - p.vector.at >= Horizon
         IN  [builder EXCEPT !.features = features, !.mids = mids,
                             !.out = @ \o completed(labeler, SelectSeq(seen, due)),
                             !.pending = SelectSeq(seen, LAMBDA p : ~due(p))]

(* flush: what is left may still have a label. *)
flushed_examples(builder, labeler) ==
    [builder EXCEPT !.out = @ \o completed(labeler, builder.pending), !.pending = <<>>]

(* build *)
build_examples(events, filter, labeler) ==
    LET fed == FoldLeft(LAMBDA b, e : feed(b, filter, labeler, e), NewBuilder, events)
        done == flushed_examples(fed, labeler)
    IN  [raised |-> done.raised, examples |-> sorted_by(done.out, LAMBDA x : x.features.at)]

-----------------------------------------------------------------------------
(* Training. *)

(* ChronologicalSplit.split: a fifth is for validation, and neither part   *)
(* is empty unless there is a single example.                              *)
split_in_time(examples) ==
    LET n == Len(examples)
        cutoff == clip(1, (4 * n) \div 5, n - 1)
    IN  IF n < 2 THEN <<examples, <<>>>>
        ELSE <<SubSeq(examples, 1, cutoff), SubSeq(examples, cutoff + 1, n)>>

(* LinearRegressionModel, LogisticRegressionModel: what is fitted depends  *)
(* on the training rows; the logistic one refuses labels other than 0, 1.  *)
fit(kind, rows) == [kind |-> kind, rows |-> rows]

fits_labels(kind, rows) ==
    rows # <<>> /\ (kind = "logistic" => \A r \in Range(rows) : r.label \in {0, 1})

(* A prediction, in some unit: the nearest row the model was fitted on. *)
predicted(model, v) ==
    LET gap(r) == Max({r.features.mid - v.mid, v.mid - r.features.mid})
        nearest == CHOOSE k \in DOMAIN model.rows :
                       \A j \in DOMAIN model.rows : gap(model.rows[k]) <= gap(model.rows[j])
    IN  model.rows[nearest].label

(* _safe_auc: the positives come first, so of equal scores they rank lower. *)
safe_auc(scored) ==
    LET pos == SelectSeq(scored, LAMBDA r : r.label = 1)
        neg == SelectSeq(scored, LAMBDA r : r.label # 1)
        combined == pos \o neg
        rank(k) == Cardinality({j \in DOMAIN combined : \/ combined[j].score < combined[k].score
                                                        \/ combined[j].score = combined[k].score /\ j <= k})
    IN  IF pos = <<>> \/ neg = <<>> THEN Missing
        ELSE MapThenSumSet(rank, DOMAIN pos) - (Len(pos) * (Len(pos) + 1)) \div 2

(* _compute_metrics: on the training rows when there are no others. *)
compute_metrics(kind, model, train, validate) ==
    LET rows == IF validate # <<>> THEN validate ELSE train
        scored == mapped(rows, LAMBDA r : [label |-> r.label, score |-> predicted(model, r.features)])
        errors == mapped(scored, LAMBDA r : r.score - r.label)
    IN  [mse |-> total(mapped(errors, LAMBDA d : d * d)), on |-> Len(rows),
         auc |-> IF kind = "logistic" THEN safe_auc(scored) ELSE Missing]

(* ModelTrainer.train: the payload of the artifact. *)
trained(version, kind, parts) ==
    LET model == fit(kind, parts[1])
    IN  [version |-> version, created |-> today, model |-> model, train |-> parts[1],
         validate |-> parts[2], metrics |-> compute_metrics(kind, model, parts[1], parts[2])]

file(name, otherwise) == IF written(name) THEN files[name] ELSE otherwise

(* write_artifact to the one path of the configurations, and the handle    *)
(* with its digest that the caller keeps.                                  *)
write_artifact(payload) ==
    write_all(("artifact" :> payload)
              @@ ("handles" :> ((payload.version :> payload) @@ file("handles", <<>>))))

(* The events of the window. *)
train_events == SelectSeq(SubSeq(world.stream, 1, world.stored), LAMBDA e : e.at < MtEnd)

(* cli/train.py *)
mt_train ==
    \E filter \in MtFilters, labeler \in Labelers :
        LET built == build_examples(train_events, filter, labeler)
            parts == split_in_time(built.examples)
        IN  /\ left.commands > 0 /\ ~built.raised /\ built.examples # <<>>
            /\ \E kind \in {"linear", "logistic"}, v \in MtVersions :
                /\ fits_labels(kind, parts[1])
                /\ write_artifact(trained(v, kind, parts) @@ [labeler |-> labeler])

-----------------------------------------------------------------------------
(* The registries and the runner. *)

(* InMemoryModelRegistry.register: a version keeps its digest. *)
no_conflict(handle) ==
    handle.version \in DOMAIN world.memory => world.memory[handle.version] = handle

handles == file("handles", <<>>)

mt_register ==
    \E v \in DOMAIN handles :
        /\ no_conflict(handles[v])
        /\ calls([world EXCEPT !.memory = (v :> handles[v]) @@ @])

mt_promote ==
    \E v \in DOMAIN handles :
        /\ no_conflict(handles[v])
        /\ calls([world EXCEPT !.memory = (v :> handles[v]) @@ @, !.promoted = <<v>>])

(* LocalFileModelRegistry.promote: the file is copied as it is now, over   *)
(* what the registry has, and only then does the pointer move.             *)
mt_promote_file ==
    \E v \in DOMAIN handles :
        write_all(("registry" :> ((v :> files["artifact"]) @@ file("registry", <<>>)))
                  @@ ("promotions" :> <<v>>))

(* current: a handle with the digest of the file as it is. *)
current_of_file == IF written("promotions") THEN <<files["registry"][files["promotions"][1]]>> ELSE <<>>

(* load_artifact *)
digest_matches(content, digest) == content = digest

(* InProcessModelRunner.load, from a handle kept since the training ... *)
mt_load ==
    \E v \in DOMAIN handles :
        /\ digest_matches(files["artifact"], handles[v])
        /\ calls([world EXCEPT !.loaded = <<[handle |-> handles[v], model |-> files["artifact"].model]>>])

(* ... or from the promoted file. *)
mt_load_current ==
    /\ current_of_file # <<>>
    /\ LET content == current_of_file[1]
       IN  calls([world EXCEPT !.loaded = <<[handle |-> content, model |-> content.model]>>])

-----------------------------------------------------------------------------
(* models/evaluation.py, on predictions somebody made. *)

(* _roc_auc: equal scores share the average of their ranks; twice.         *)
average_rank(scored, k) ==
    LET below == Cardinality({j \in DOMAIN scored : scored[j].score < scored[k].score})
        level == Cardinality({j \in DOMAIN scored : scored[j].score = scored[k].score})
    IN  2 * below + 1 + level

roc_auc(scored) ==
    LET pos == {k \in DOMAIN scored : scored[k].label = 1}
    IN  MapThenSumSet(LAMBDA k : average_rank(scored, k), pos) - Cardinality(pos) * (Cardinality(pos) + 1)

(* _calibration_bins: the last is closed on the right. *)
in_bin(b, score) ==
    /\ b * Dollar <= score * MtBins
    /\ IF b = MtBins - 1 THEN score <= Dollar ELSE score * MtBins < (b + 1) * Dollar

calibration_bins(scored) ==
    [b \in 0..(MtBins - 1) |-> LET rows == SelectSeq(scored, LAMBDA r : in_bin(b, r.score))
                               IN  [count |-> Len(rows),
                                    predicted |-> total(mapped(rows, LAMBDA r : r.score)),
                                    observed |-> Dollar * total(mapped(rows, LAMBDA r : r.label))]]

(* _expected_calibration_error, a sum over the rows. *)
expected_calibration_error(bins) ==
    MapThenSumSet(LAMBDA b : Max({bins[b].predicted - bins[b].observed, bins[b].observed - bins[b].predicted}),
                  DOMAIN bins)

(* _skill, in percent. *)
skill(metric, baseline) == IF baseline <= 0 THEN 0 ELSE 100 - (100 * metric) \div baseline

(* evaluate_classification, every mean as a sum.  The baseline is the      *)
(* base rate's own score, n p (1 - p).                                     *)
evaluate_classification(scored) ==
    LET n == Len(scored)
        positives == total(mapped(scored, LAMBDA r : r.label))
        brier == total(mapped(scored, LAMBDA r : (r.score - Dollar * r.label) * (r.score - Dollar * r.label)))
    IN  [samples |-> n, positives |-> positives, auc |-> roc_auc(scored),
         correct |-> Len(SelectSeq(scored, LAMBDA r : (r.score >= 50) = (r.label = 1))),
         bins |-> calibration_bins(scored),
         ece |-> expected_calibration_error(calibration_bins(scored)),
         skill |-> skill(brier, (Dollar * Dollar * positives * (n - positives)) \div n)]

(* evaluate_regression, against the mean; sums, and n times the mean.      *)
evaluate_regression(scored) ==
    LET n == Len(scored)
        sum == total(mapped(scored, LAMBDA r : Dollar * r.label))
        squares(Error(_)) == total(mapped(scored, LAMBDA r : Error(r) * Error(r)))
        baseline == squares(LAMBDA r : n * Dollar * r.label - sum)
    IN  [samples |-> n, mse |-> squares(LAMBDA r : r.score - Dollar * r.label), baseline |-> baseline,
         skill |-> skill(n * n * squares(LAMBDA r : r.score - Dollar * r.label), baseline)]

mt_evaluate ==
    \E scored \in MtScores :
        write("evaluation", [scored |-> scored, metrics |-> evaluate_classification(scored),
                             regression |-> evaluate_regression(scored)])

-----------------------------------------------------------------------------
(* cli/model_train.py *)

(* The value of a range that comes closest to a target; the first of two.  *)
closest(values, range, target) ==
    LET off(k) == Max({values[k] - target, target - values[k]})
    IN  CHOOSE k \in range : \A j \in range : off(k) < off(j) \/ (off(k) = off(j) /\ k <= j)

(* _temporal_split: 70 % and 15 % of the rows, whole dates together when   *)
(* there are three of them.  The parts as sequences of dates.              *)
temporal_split(frame) ==
    LET ordered == sorted_by(frame, LAMBDA d : d)
        n == Len(frame)
        dates == SetToSortSeq(Range(frame), <)
        cumulative == [k \in DOMAIN dates |-> 100 * Len(SelectSeq(frame, LAMBDA d : d <= dates[k]))]
        train_groups == closest(cumulative, 1..(Len(dates) - 2), 70 * n)
        validation_groups == closest(cumulative, (train_groups + 1)..(Len(dates) - 1), 85 * n)
        train_end == (70 * n) \div 100
        validation_end == train_end + (15 * n) \div 100
    IN  IF Len(dates) >= 3
        THEN <<SelectSeq(ordered, LAMBDA d : d <= dates[train_groups]),
               SelectSeq(ordered, LAMBDA d : dates[train_groups] < d /\ d <= dates[validation_groups]),
               SelectSeq(ordered, LAMBDA d : d > dates[validation_groups])>>
        ELSE <<SubSeq(ordered, 1, train_end), SubSeq(ordered, train_end + 1, validation_end),
               SubSeq(ordered, validation_end + 1, n)>>

(* verify_export_parity raises. *)
parity_holds(delta) == delta <= ExportTolerance

(* _train: the rows a family fits on.  Only xgboost looks at the           *)
(* validation rows, to know when to stop.                                  *)
fitted_on(family, parts) == IF family = "xgboost" THEN parts[1] \o parts[2] ELSE parts[1]

(* write_parity_cases: the first test rows. *)
parity_cases(rows) == SubSeq(rows, 1, Min({ParityRows, Len(rows)}))

(* _handle: the staged schema and model are on disk before the export is   *)
(* compared with the model; the bundle's directory may exist, and then     *)
(* there is no report.                                                     *)
mt_model_train ==
    \E frame \in MtFrames, delta \in ExportDeltas, family \in {"sklearn", "xgboost"} :
        LET parts == temporal_split(frame)
            staged == "staging" :> [delta |-> delta]
            report == [frame |-> frame, parts |-> parts, delta |-> delta,
                       fitted_on |-> fitted_on(family, parts), cases |-> parity_cases(parts[3])]
        IN  /\ parts[1] # <<>> /\ parts[3] # <<>>
            /\ write_all(IF ~parity_holds(delta) \/ written("bundle") THEN staged
                         ELSE staged @@ ("bundle" :> [delta |-> delta]) @@ ("report" :> report))

-----------------------------------------------------------------------------

MtNext ==
    \/ mt_stored
    \/ mt_train
    \/ mt_register
    \/ mt_promote
    \/ mt_promote_file
    \/ mt_load
    \/ mt_load_current

ExportNext == mt_evaluate \/ mt_model_train

(* The mid label of an example is the change to the mid that the first     *)
(* event at or after its horizon brought, and its entry was known at its   *)
(* time; a settlement label comes from a settlement not before it.         *)
LabelledFromTheFuture(x, labeler, events) ==
    LET at == x.features.at
        mine(e) == x.features.instrument \in {NoInstrument, e.instrument}
        due == {k \in DOMAIN events : events[k].at >= at + Horizon}
        first == events[Min(due)]
    IN  IF labeler = "settlement"
        THEN \E k \in DOMAIN events :
                events[k].kind = "settled" /\ mine(events[k]) /\ events[k].at >= at
                    /\ x.label = IF events[k].side = "yes" THEN 1 ELSE 0
        ELSE /\ due # {} /\ both_sides(first) /\ mine(first)
             /\ \E k \in DOMAIN events :
                    events[k].at <= at /\ mine(events[k])
                        /\ x.mid = IF priced(events[k]) THEN any_mid(events[k]) ELSE 2 * events[k].price
             /\ x.label = IF labeler = "profitable" THEN label_profitable(x.mid, any_mid(first))[1]
                          ELSE label_next_mid_change(x.mid, any_mid(first))[1]

(* The features a model is fitted on are no later than those it is judged  *)
(* on, and a label comes from an event at or after its horizon.  The label *)
(* of a training example may come from the time of the validation rows:    *)
(* the split is by the time of the features.                               *)
MtKnownInTime ==
    written("artifact") =>
        LET a == files["artifact"]
        IN  /\ \A t \in Range(a.train), v \in Range(a.validate) : t.features.at <= v.features.at
            /\ \A x \in Range(a.train) \cup Range(a.validate) :
                  LabelledFromTheFuture(x, a.labeler, world.stream)

(* The same of a table's parts; whole dates stay on one side of a split of *)
(* three or more.                                                          *)
ExportKnownInTime ==
    written("report") =>
        LET parts == files["report"].parts
            dates == Range(files["report"].frame)
        IN  /\ \A i, j \in 1..3 : i < j =>
                \A d \in Range(parts[i]), later \in Range(parts[j]) :
                    d <= later /\ (Cardinality(dates) >= 3 => d < later)
            /\ \A d \in Range(files["report"].fitted_on), later \in Range(files["report"].cases) : d <= later

(* What the runner predicts with is what its handle names, and a promoted  *)
(* version is registered.                                                  *)
MtBooks ==
    /\ world.loaded # <<>> => world.loaded[1].model = world.loaded[1].handle.model
    /\ Range(world.promoted) \subseteq DOMAIN world.memory

(* No row is lost in a split, and an exported bundle is as good as its     *)
(* model; the two areas under the curve count the pairs in the right       *)
(* order, the bins hold every prediction once, and the mean predictor's    *)
(* error is the base rate's.                                               *)
ExportBooks ==
    /\ written("report") =>
        LET r == files["report"]
        IN  /\ sorted_by(r.frame, LAMBDA d : d) = FlattenSeq(r.parts)
            /\ r.delta <= ExportTolerance /\ files["bundle"].delta = r.delta
    /\ written("evaluation") =>
        LET s == files["evaluation"].scored
            m == files["evaluation"].metrics
            pairs == {k \in DOMAIN s : s[k].label = 1} \X {k \in DOMAIN s : s[k].label = 0}
            above == {p \in pairs : s[p[1]].score > s[p[2]].score}
            level == {p \in pairs : s[p[1]].score = s[p[2]].score}
        IN  /\ m.auc = 2 * Cardinality(above) + Cardinality(level)
            /\ pairs # {} => safe_auc(s) = Cardinality(above)
            /\ MapThenSumSet(LAMBDA b : m.bins[b].count, DOMAIN m.bins) = Len(s)
            /\ files["evaluation"].regression.baseline
                 = Dollar * Dollar * Len(s) * m.positives * (Len(s) - m.positives)

-----------------------------------------------------------------------------
(* cli/sweep.py.  world: waiting (the runs no process has), running (those *)
(* a process has) and rows (the results, as they come in).                 *)

(* _cartesian, and the worker arguments in the order they are made. *)
grid_tasks ==
    FlattenSeq(mapped(GridParams, LAMBDA p : mapped(GridWindows, LAMBDA w : [params |-> p, window |-> w])))

GridWorlds == {[waiting |-> grid_tasks, running |-> {}, rows |-> <<>>]}

(* The pool hands out the runs in order. *)
grid_take ==
    /\ world.waiting # <<>> /\ Cardinality(world.running) < GridWorkers
    /\ happens([world EXCEPT !.waiting = Tail(@), !.running = @ \cup {Head(world.waiting)}])

(* _sweep_worker: a run that raises is a row too. *)
grid_row(task, error) ==
    [params |-> task.params, window |-> task.window, error |-> error,
     pnl |-> IF error THEN 0 ELSE 10 * task.params + task.window]

(* imap_unordered: whichever ends. *)
grid_done ==
    \E task \in world.running, error \in BOOLEAN :
        happens([world EXCEPT !.running = @ \ {task}, !.rows = Append(@, grid_row(task, error))])

(* rows.sort by window and hash *)
in_order(rows) == sorted_by(sorted_by(rows, LAMBDA r : r.params), LAMBDA r : r.window)

(* _handle ends once the pool is through. *)
grid_write ==
    /\ world.waiting = <<>> /\ world.running = {}
    /\ write("sweep", in_order(world.rows))

GridNext == grid_take \/ grid_done \/ grid_write

(* Whatever the order in which the runs end, and whichever of them fail,   *)
(* the table has one row for every run, with that run's result, in an      *)
(* order that does not depend on it.                                       *)
GridBooks ==
    written("sweep") =>
        LET rows == files["sweep"]
        IN  /\ mapped(rows, LAMBDA r : [params |-> r.params, window |-> r.window])
                 = sorted_by(sorted_by(grid_tasks, LAMBDA r : r.params), LAMBDA r : r.window)
            /\ \A r \in Range(rows) : r.error \/ r.pnl = 10 * r.params + r.window
=============================================================================
