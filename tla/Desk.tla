-------------------------------- MODULE Desk --------------------------------
(***************************************************************************)
(* What the Python side runs, one job at a time: a strategy plugin over a  *)
(* stream of events, the weather plugin on live data, the commands of a    *)
(* research study, or one of the services around them.                     *)
(***************************************************************************)
EXTENDS LivePaper, RfiStudy, SpreadStudy, GolfStudy, PreRound, TennisStudy, WeatherSweep, ModelTraining,
        BackOffice, Lake, Recorders

CONSTANTS StudyJobs,    \* the studies and services among the jobs
          Days,         \* bound: how long each is followed
          Runs          \* bound: the commands each runs

ASSUME DeskAssumption ==
    /\ StudyJobs \subseteq Jobs
    /\ Days \in [StudyJobs -> Nat]
    /\ Runs \in [StudyJobs -> Nat]

vars == <<run_vars, live_vars, lab_vars>>

Idle == {<<>>}

StudyInit ==
    /\ today = 0
    /\ left = IF job \in StudyJobs THEN [days |-> Days[job], commands |-> Runs[job]]
              ELSE [days |-> 0, commands |-> 0]
    /\ world \in CASE job = "baseball_rfi" -> RfiWorlds
                   [] job \in {"mlb_spread", "nba_spread"} -> SpreadWorlds
                   [] job \in {"golf_surface", "golf_models"} -> GolfWorlds
                   [] job = "golf_preround" -> PreWorlds
                   [] job = "tennis_models" -> TennisWorlds
                   [] job = "weather_kxhigh" -> KxWorlds
                   [] job = "weather_sweep" -> SweepWorlds
                   [] job = "model_training" -> MtWorlds
                   [] job = "param_sweep" -> GridWorlds
                   [] job = "event_lake" -> LakeWorlds
                   [] job = "ws_capture" -> WsWorlds
                   [] job = "btc_recorder" -> BtcWorlds
                   [] job = "capital" -> CapitalWorlds
                   [] job = "dry_gateway" -> GatewayWorlds
                   [] job = "settlement_ledger" -> LedgerWorlds
                   [] job = "book_replay" -> ReplayWorlds
                   [] job = "bundles" -> BundleWorlds
                   [] OTHER -> Idle
    /\ files \in IF job = "mlb_spread" THEN SpreadFiles ELSE Idle

Init == RunInit /\ LiveInit /\ StudyInit

OneJob(j, step) == job = j /\ step /\ UNCHANGED <<run_vars, live_vars>>

StudyNext ==
    \/ OneJob("baseball_rfi", RfiNext)
    \/ OneJob("mlb_spread", SpreadNext)
    \/ OneJob("nba_spread", NbaNext)
    \/ OneJob("golf_surface", GolfNext)
    \/ OneJob("golf_models", GolfModelNext)
    \/ OneJob("golf_preround", PreNext)
    \/ OneJob("tennis_models", TennisNext)
    \/ OneJob("weather_kxhigh", KxNext)
    \/ OneJob("weather_sweep", SweepNext)
    \/ OneJob("model_training", MtNext)
    \/ OneJob("model_export", ExportNext)
    \/ OneJob("param_sweep", GridNext)
    \/ OneJob("event_lake", LakeNext)
    \/ OneJob("ws_capture", WsNext)
    \/ OneJob("btc_recorder", BtcNext)
    \/ OneJob("capital", CapitalNext)
    \/ OneJob("dry_gateway", GatewayNext)
    \/ OneJob("settlement_ledger", LedgerNext)
    \/ OneJob("book_replay", ReplayNext)
    \/ OneJob("bundles", BundleNext)

Next ==
    \/ job \notin StudyJobs /\ RunNext /\ UNCHANGED <<live_vars, lab_vars>>
    \/ LiveNext /\ UNCHANGED lab_vars
    \/ StudyNext

Spec == Init /\ [][Next]_vars
-----------------------------------------------------------------------------
(* Properties. *)

Pending == {todo[k] : k \in DOMAIN todo}
Buys == {d \in Pending : d.do = "place" /\ d.order_side = "BUY"}
sum(f) == SumOver(f, DOMAIN f)

(* What the prices of a plugin presuppose and the code does not check: a   *)
(* venue that quotes whole ticks and whose best prices do not cross, and a *)
(* second primary to trade.                                                *)
Whole == {Tick * c : c \in 1 .. (One \div Tick) - 1}
VenueQuotes ==
    \A p \in QuotePrices :
        /\ p[1] # None => p[1] \in Whole
        /\ p[2] # None => p[2] \in Whole
        /\ p[1] # None /\ p[2] # None => p[1] <= p[2]
TwoStates == "politics_primary_momentum" \in Jobs => Cardinality(Markets) > 1

(* A plugin that looks at the side of its quotes (TwoSided, 17 of them)     *)
(* buys a side at a price of that side of the market as the last quote     *)
(* left it, whichever side the quote was for: a quote of the NO book       *)
(* turned the wrong way (quote_mid, snapshot_for) prices an order off the  *)
(* market.  The plugins that take any quote for one of YES, macro_cpi and  *)
(* macro_fed among them, do price off the market and are not in TwoSided.  *)
(* The legs of the no-arbitrage scanner leave the edge it asks for after   *)
(* the fee of every leg.                                                   *)
PricedFromTheMarket ==
    /\ job \in TwoSided =>
        \A d \in Buys :
            LET level == snapshot_for(with(market[d.market], "side", "YES"), d.side)
            IN  level.bid <= d.price /\ d.price <= level.ask
    /\ job = "kalshi_noarb_scanner" /\ todo # <<>> =>
        sum([k \in DOMAIN todo |-> todo[k].price + contract_fee(todo[k].price)]) <= One - MinEdge

(* An order of the weather plugin that is waiting for its last look is for  *)
(* a market that still has the minimum time to go now, not when the signal  *)
(* it came from was made: _near_close compares with the context's clock.    *)
NoTradeAtTheClose ==
    job \in Weathers =>
        \A d \in Buys : d.closes # None => d.closes - now >= s.own.params.min_close

(* The totals a plugin keeps up to date as things come and go equal what    *)
(* they add up: the cascade's score, the evader's volume, the tennis        *)
(* plugin's position (as far as its fills were not those of an exit sent    *)
(* twice) and the weather plugin's notionals and counts, which also stay    *)
(* within the ladder's limit.                                               *)
RunningTotals ==
    CASE job = "politics_legislative_cascade" ->
            s.own.total = score_total(s.own, known_scores(s.own))
      [] job = "microstructure_queue_evader" ->
            \A k \in DOMAIN s.own : s.own[k].volume = sum(s.own[k].history)
      [] job = "sports_tennis_xgboost" ->
            ~oversold => s.own.held = bought(orders) - sold(orders)
      [] job \in Weathers ->
            /\ s.own.active = sum(s.own.instrument)
            /\ \A l \in Ladders :
                LET mine == {i \in DOMAIN s.own.accepted : s.own.accepted[i].ladder = l}
                IN  /\ s.own.ladder[l] =
                            sum([i \in mine |-> s.own.accepted[i].notional])
                    /\ s.own.ladder[l] <= s.own.params.ladder_notional
                    /\ s.own.ladder_orders[l] = Cardinality(mine)
      [] OTHER -> TRUE

(* What the rows of each study were taken from, and when, in whatever      *)
(* order the commands ran.  First inning: bets learn from games and        *)
(* context observed no later, marks are a horizon after.  Spreads: no game *)
(* is entered that is over, no row marked before its entry.  Golf: marks   *)
(* are a horizon after the decision, fills not before it; a pre-round row  *)
(* holds nothing from after the start.  Tennis: ratings come from earlier  *)
(* matches, parts of a split follow each other.  Weather: a side bought as *)
(* decided wins, a contract is settled after its last price.  Training:    *)
(* the features fitted on are no later than those judged on, labels come   *)
(* from their horizon.  Index: the components of a candidate were received *)
(* before the print it leads.  When a result that a row learns from was    *)
(* settled is not in it: that is PriorSettled.                             *)
KnownInTime ==
    CASE job = "baseball_rfi" -> RfiKnownInTime
      [] job \in {"mlb_spread", "nba_spread"} -> SpreadKnownInTime
      [] job \in {"golf_surface", "golf_models"} -> GolfKnownInTime
      [] job = "golf_preround" -> PreKnownInTime
      [] job = "tennis_models" -> TennisKnownInTime
      [] job = "weather_kxhigh" -> KxKnownInTime
      [] job = "weather_sweep" -> SweepKnownInTime
      [] job = "model_training" -> MtKnownInTime
      [] job = "model_export" -> ExportKnownInTime
      [] job = "btc_recorder" -> BtcKnownInTime
      [] OTHER -> TRUE

(* What a service or a study has written down adds up: reserved capital,    *)
(* commands sent, settlements paid, reconstructed books, promoted bundles,  *)
(* captured and migrated partitions, recorded envelopes, a sweep's table,   *)
(* the model a runner holds, and probabilities that belong together (a      *)
(* player's finishing places, the two sides of a match, a ladder).          *)
BooksReconcile ==
    CASE job = "capital" -> CapitalBooks
      [] job = "dry_gateway" -> GatewayBooks
      [] job = "settlement_ledger" -> LedgerBooks
      [] job = "book_replay" -> ReplayBooks
      [] job = "bundles" -> BundleBooks
      [] job = "event_lake" -> LakeBooks
      [] job \in {"golf_surface", "golf_models"} -> GolfCoherent
      [] job = "tennis_models" -> TennisCoherent
      [] job = "weather_kxhigh" -> KxBooks
      [] job = "weather_sweep" -> SweepBooks
      [] job = "model_training" -> MtBooks
      [] job = "model_export" -> ExportBooks
      [] job = "param_sweep" -> GridBooks
      [] job = "ws_capture" -> WsBooks
      [] job = "btc_recorder" -> BtcBooks
      [] OTHER -> TRUE
=============================================================================
