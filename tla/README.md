# TLA+ models of eventcontracts

This directory models two halves of eventcontracts. The Rust crates under
`rust/crates/` trade live; the Python package under `python/` captures market
data, replays it, backtests and paper-trades strategies, and runs research
studies over what was captured. Module names follow the components, operator
names follow the functions they translate, and `PROJECT.json` maps every
definition to its lines.

## The system

### Live trading (Rust)

| Part | State | Operations | Talks to |
|---|---|---|---|
| order store `oms` | orders by client id, applied fill keys, running open count | `open_order`, `adopt_order`, `transition`, `set_venue_order_id`, `apply_fill` | called by the gateway only |
| scheduler (`gateway`) | a cancel lane, three tier lanes, shed counter | `enqueue`, `pop_next` | gateway, runner |
| order path (`gateway`) | sleeve state, market states, cached BBO, rate budget, idempotency store | `prepare_one`, `finalize_place`, `finalize_cancel`, `apply_fill`, `apply_order_update`, `apply_market_state` | order store, risk, venue |
| sleeve accounting (`gateway`) | positions, daily loss bucket, cash | the tail of `apply_fill`, `update_position_for_fill` | read by risk |
| risk (`risk`) | limits only; reads the sleeve state | `evaluate`, BBO recording | gateway, runner |
| portfolio guard, toxicity breaker (`gateway`) | reservations; recent fills | `sync_open_orders`, `evaluate`; `record_fill` | order path |
| live runner | attempt counter, kill switch, deadline | one `select!` loop over signals, a timer and the socket queue | everything |
| socket reader task | socket, reconnect attempts, sequence numbers | read, reconnect | runner, by a bounded channel |
| reconciliation | none; runs at start | cancel or adopt resting orders, seed positions and cash | venue, gateway |
| strategy runner, feature builder, model runtime | strategy internals | `on_event` | produce intents |

### Capture, simulation and research (Python)

| Part | State | Operations | Talks to |
|---|---|---|---|
| paper simulator `backtest/market_simulator.py` | book, pending orders with the queue ahead, in-flight commands | submit, cancel, events, `flush_inflight` | runner |
| sleeve account `runner/context.py`, `risk/` | cash, reservations, positions, P&L by day | reserve, consume, apply a fill, evaluate a limit | runner, simulator |
| backtest and sleeve runner | lifecycle, seen ids | the replay loop, last look, feedback | strategy, simulator, account |
| strategy plugins | scores, histories, ladders, notionals | `on_event`, `on_fill`, `on_order_update` | runner |
| live paper `cli/live_paper.py` | event queue, discovered markets, balances | four tasks over one queue, shutdown | venue, forecasts, runner |
| capture and event store | buffers, sequence cache, `seen_trades` | session, poll, append, flush, read | venue, files |
| event lake | raw, normalized and reject partitions | normalize, migrate, expire | files |
| studies (first inning, spread, golf, tennis, weather) | ledgers, models, quotes seen | command-line jobs run in any order | files, venue |
| model training, registry, sweeps | fitted models, versions | fit, save, load, export, sweep | files |
| allocation, dry gateway, ledger, book replay, bundles | reservations, sent ids, entries, books, promotions | one call at a time, across restarts | files |
| recorders | queues, writer thread, venue components | read, put, write shards, compute an index | venues, files |

### What is hard here

Rust: one task owns the gateway, so handlers do not race each other, but every
submit is an await during which the venue moves on. A submit that fails locally
may have reached the venue. Order updates and fills are separate channels: either
overtakes the other, fills are redelivered, a reconnect loses messages. Counts and
quotes are cached copies of something else. Budgets (open orders, rate, queue
capacity, attempts) are enforced at one point and spent at another. Rounding
accumulates in averages.

Python: a backtest has two clocks (submission and cancellation latencies) and two
books of account (cash and P&L) fed by the same fills. Capture writes files that
outlive it: a flush can fail part of the way, a process can die with a buffer, a
replay sorts by other times than arrival. A study is a handful of commands a
person runs in any order, days apart, over files they share: the danger is to
decide with something that was not yet known, or to write the same thing twice.
Live paper trading and the recorders are tasks around bounded queues.

`PROJECT.json` lists the hazards at their lines, with the properties aimed at them.

What makes each part correct:

* order store: the open count is the number of open orders; no overfill; a fill
  is taken once; terminal orders stay terminal;
* scheduler: capacity is never passed; nothing is lost silently; cancels first;
* order path: nothing the venue can execute is unknown to the store; no self
  cross; the open-order cap holds at the venue; positions follow the venue;
  orders only on fresh quotes; finished orders give back their slot;
* accounting: money is neither created nor lost; the loss the gate reads is the
  right day's;
* runner: kill switches and caps take effect; restart counts nothing twice;
* simulator: no level of a ladder is sold twice, the queue is respected, nothing
  stays in flight;
* sleeve account: live buys are funded, cash agrees with positions and P&L;
* capture and lake: what was appended can be read; a replayed book is the venue's
  unless a gap is marked; trades are not counted twice;
* strategies: orders priced from the market as it is, totals that add up;
* studies and models: no look-ahead; what they record reconciles.

## Modules

| Module | Models | Used by |
|---|---|---|
| `OrderLifecycle` | abstract: what the order store promises | refined by `Oms` |
| `Sums` | totals over finite sets, for properties about books | `Oms`, `Accounting`, `SleeveAccount`; laws in `Lists_proofs` |
| `Lists` | sorting, filtering and totals of lists, as the Python side does them | `PaperSimulator`, `SignalStrategies`; laws in `Lists_proofs` |
| `Oms` | `InMemoryOms` | `MCOms`, `Gateway`, `Gateway_proofs` |
| `Scheduler` | `PriorityScheduler` | `MCScheduler`, `Scheduler_proofs` |
| `Gateway` | order path and runner loop over `Oms`, with an external venue | `MCGateway`, `Gateway_proofs` |
| `Accounting` | the sleeve state changes of `apply_fill` | `MCAccounting`, `Accounting_proofs` |
| `PaperSimulator` | the simulator as functions of its state | `Backtest`, `PaperSimulator_proofs` |
| `SleeveAccount` | cash, reservations, positions, limits, likewise | `Backtest`, `Backtest_proofs` |
| `Backtest` | the replay loop that composes the two, with a free strategy | `MCBacktest`, `Backtest_proofs` |
| `Capture` | websocket and REST capture, the store, replay, crashes | `MCCapture`, `Capture_proofs` |
| `SignalStrategies`, `OrderStrategies`, `WeatherStrategy` | the plugins that only read the market; those that follow their orders; the temperature ladder | `StrategyRun` |
| `StrategyRun` | the event loop around one plugin | `LivePaper` |
| `LivePaper` | the tasks and the queue of the live paper command | `Desk` |
| `Studies` | the clock, the prices and the fees every study shares | the studies |
| `RfiStudy`, `SpreadStudy`, `TennisStudy`, `PreRound` | the studies of their names | `Desk` |
| `GolfModels`, `GolfStudy` | simulated cards and cuts; candidates, shadow fills, top-N arbitrage | `Desk` |
| `WeatherStudy`, `WeatherSweep` | calibration, ladders, recording, settlement; the sweep over past markets and the historical run | `Desk` |
| `ModelTraining` | features, labels, split, registry, export, parameter sweep | `Desk` |
| `BackOffice` | capital, dry gateway, settlement ledger, book replay, bundles | `Desk` |
| `Lake`, `Recorders` | the event lake's files; the capture with a writer thread and the synthetic index | `Desk` |
| `Desk` | any one of the jobs above | `MCDesk`, `Desk_proofs` |

**Oms.** One action per method. A call that errors without effect is a stutter.
`apply_fill_torn` is the error return that has already written
`filled_quantity`. Decimals are naturals; the venue id is a flag.

**Scheduler.** `enqueue` is split by outcome; `enqueue_unknown_tier` is the error
that comes after the oldest intent was shed. An intent is its lane, its second
and a serial number; `drained` and `shed` are history.

**Gateway.** `place` is `prepare_one` up to the send, `finalize_*` the three ends
of the awaited submit; between the two only venue actions are enabled, because
the loop is awaiting. `apply_order_update` and `apply_fill_event` are the private
events, with the error exits of the runner (`exited`). Every market has one of
three states: unknown, tradable, suspended. A quote is its second and whether it
left an executable BBO. The last-look gate is configured as by
`--live-submit` (a mark and an executable BBO are required); `RequireMarketState`
is the gateway's `require_market_state`, which `--live-submit` also sets, and is
true in every run. The venue is external: it accepts, refuses (with
an update or silently), executes, ends and redelivers, and tells of it by the
statuses of `VenueStatuses`: those `map_venue_state` has an arm for, and Kalshi's
`executed`, which it has none for. Checks on amounts can only refuse; `refuse_place`
stands for them.

**Accounting.** Position arithmetic in integer ticks with the truncation of the
average. `paid`, `earned`, `rounding` and `loss_by_day` are history. The UTC day
of a fill is the loop's day, since the runner stamps fills when it normalizes them.

**PaperSimulator, SleeveAccount, Backtest.** The simulator and the account are
plain objects called by one loop, so each is a record and each method an operator
from record to record; `Backtest` has one action per event type and runs the whole
handler, feedback included. There are two times: the clock, the gate and the
decisions go by the exchange's, which orders the replay; simulator and tracker go by the
time of receipt, which may be up to `MaxSkew` off and go back. The gate refuses what was
received after the decision or more than `MaxMarketDataAge` before. A snapshot may lack
what the gate asks for, whatever the event. Prices are cents. `took`, `shown`, `printed` and
`joined` are history, and so are the account's `cut_*`, `uncredited` and
`oversold`, which count what the code drops.

**Capture.** The venue changes its book and prints trades, and numbers the messages of
a subscription; it may fail to deliver one, and a connection that breaks loses what is
under way, but messages on one connection stay in order. A flush writes partition
after partition and may fail at any of them; a crash forgets the buffer. A row keeps
the venue's book at its time as history. The replay order compares sequence numbers as
text in base `Radix` (10 in the code); rows of equal keys come in any order their
files' random names can have.

**Strategies.** What a plugin keeps is `s.own`, what it decides is `todo`: the
decisions of one event wait there for their last look, as in the runner. A fitted
model is any probability of a small set. Prices are half cents, so that a mid is
exact.

**Studies and services.** `files` is what a job has on disk, `world` what it reads,
`today` its clock and `left` the days and commands that remain. A command is one
action; where it sleeps, downloads or runs tasks, it is several. Statistical fits
are replaced by what is kept of them: which rows they read, and a number computed
from those rows in integers. `Desk` runs one job per behaviour, because the jobs
share nothing but code.

## Runs

| Run | Result | What it shows |
|---|---|---|
| `oms` | pass | count, overfill, no lost fill, refinement of `OrderLifecycle` |
| `oms_torn_fill` | violated | a refused fill has changed its order |
| `scheduler` | pass | capacity, accounting of every intent, priority, FIFO, oldest shed |
| `gateway` | pass | no orphan, no self cross, count in sync, position follows the venue |
| `gateway_market` | pass | open-order cap at the venue, fresh quotes only, slots released (liveness) |
| `lifecycle_cancels` | violated | cancels over the per-second budget are dropped at a suspension |
| `accounting` | pass | books balance, bucket holds its day, cash losses are recorded |
| `daily_loss_midnight` | violated | yesterday's loss is still read after midnight |
| `backtest` | pass | `LiquidityNotReused`, `QueueRespected`, `CashPartition`, `LiveBuysFunded`, `CashMatchesBooks`, `FlushResolvesInflight` |
| `capture` | pass | `AppendedIsKept`, `ReplayedBookIsTheVenues`, `TradesNotInflated` |
| `desk` | pass | `PricedFromTheMarket`, `NoTradeAtTheClose`, `RunningTotals`, `KnownInTime`, `BooksReconcile` |
| `rfi_prior` | violated | a first-inning bet counts a result that was not settled when it was decided |

The violated runs are findings, each with the comment or document line it
contradicts in `PROJECT.json`.

`KnownInTime` and `BooksReconcile` are one property each over all jobs: by job, they
name the part the job's module states (`RfiKnownInTime`, `LakeBooks`, ...), with its
own comment there. `KnownInTime` says from which rows, and rows of which time, a
decision was taken. It does not say that nothing leaks: each part's comment names what
the code does use too early (a first-inning prior, checked by `rfi_prior`; ratings
after the match; labels past a split; the younger quote of a golf shadow fill).

### Bounds

Two orders suffice for the order path, where every property relates at most two
orders; one of them is filled in two parts, so partial fills, updates after fills and
redelivery all occur. `gateway` gives both orders room and makes them cross;
`gateway_market` gives two orders one slot, three lifecycle events around a quote and
two seconds; `gateway` has every status, one second and room in it for both orders and
a refused one, since none of its properties reads the clock. One reconnect per
behaviour, losing any suffix of either channel. `scheduler` uses capacities 0 to 2,
five intents and two clock values, for ties and repeated shedding. `accounting` uses
prices 3 and 4 (averages that do not divide), fills of 0, 1 and 3 contracts, four
fills, three days. Fill ids are symmetric in `gateway`.

`backtest`: two orders that compete for one book (`ClientOrderIds`, symmetric), one
three deep and one where a single level holds both, a trade of two at a price where
orders rest, a quote, a pause and a close, an order on the mirror of a ladder, one
without expiry and an unpriced one for the gate to refuse, four events over three
clock values, received up to one earlier or later (`MaxSkew`), evidence good for one
(`MaxMarketDataAge`), and a submission latency above the cancellation latency, so that
a cancel overtakes its order. Cash covers the first order and not both, so that limits
refuse and balances are cut.

`capture`: three websocket messages and four REST rows in batches of two, one price,
three changes at the venue, one midnight, a second process after a crash. A batch
spans the midnight, so one flush writes two partitions and can fail between them; the
sequence cache just holds both subscriptions; a trade page of two overlaps its
successor. `Radix` is 3, so that the third number of a connection sorts before the
second, as 10 does before 9 in the code.

`rfi_prior` runs one study on its own: two games whose tapes overlap, settled one unit of
time after the last trade (`SettleDelay`).

`desk`: every plugin sees four events (`Budget`; the tennis plugin seven, for an
entry, an exit and its rejection; the weather plugin two or three, each with many
outcomes) on two markets. `Days` and `Runs` bound each study to the length at which
every command has run before and after every other: three or four commands over one
day, or two to three days where a later day reads what an earlier one wrote.
`MaxLedger`, `MaxGolfRows`, `MaxReceived` and `MaxTicks` bound rows; queues, caches,
stores, shards and pools (`MaxQueue`, `StoreSize`, `MaxBooks`, `QueueSize`,
`Concurrency`, `GridWorkers`) hold one or two entries, so that they are full while
something still waits.

Deadlock is not checked: all bounded models stop when their bounds are spent, and
the loops may exit.

### Fairness

`LoopFairness` of `Gateway`: weak fairness on reading the two channels and on the
end of a submit: the loop reads its queue as long as it runs, and the HTTP client
has a timeout. Nothing is assumed of the venue. `DoneOrdersReleased` therefore
exempts behaviours in which the loop has exited or messages were lost. The Python
runs check safety only and assume no fairness: several of the loops there really
stop (see below), and a command runs when a person runs it.

## Proofs

For every value of the constants, from the named assumptions of the modules:

* `Lists_proofs`: the laws of `SumOver`, the fold of the community modules behind
  every total: it exists on every finite set, any element can be taken out of it,
  disjoint sets add up, equal or greater values give equal or greater sums. And the
  laws of lists: a finite set with a strict order can be listed in it (`Ranked`,
  `ByRank`), filtering keeps the chosen elements and their order (`Kept`), totals
  follow appending, filtering and changing one element (`TotalKept`), and a left fold
  goes through a sequence of states, one step per element (`FoldRuns`), which is how a
  loop of the code is followed. The provers cannot instantiate an induction theorem,
  so each law is proved from a minimal counterexample (`Minimal`), which needs no
  operator parameter.
* `Gateway_proofs`, the order store: `TypeOK`, `OpenCountMatches`,
  `FilledWithinQuantity`, `AppliedFillsCounted` and `ImplementsLifecycle`. The
  invariant adds to the types that the count equals the cardinality of the open
  orders, which needs finiteness of the ids: each action adds, removes or keeps one
  element. The fill totals need that the applied fills are finitely many.
* `Scheduler_proofs`: `NonCancelBounded`, `CancelsNeverShed`, `ShedsTheOldest`, and
  `TypeOK`, `EveryIntentAccountedFor`, `LanesAreFifo`, `CancelsDrainFirst`.
  `ShedsTheOldest` needs every lane to be ordered by emission time and no stamp to be
  in the future, so that the oldest head is the oldest intent. The order of the lanes
  rests on the serial numbers (`OrderInv`): each number up to `emitted` is in exactly
  one of waiting, drained and shed, a lane is ordered by number, and what was drained
  of a lane came before what waits in it.
* `Gateway_proofs`, the order path: `GatewayTypeOK`, `NoOrphanOrders`, `NoSelfCross`,
  `VenueOrdersBounded`, `OpenOrdersSynced`, `PositionTracksVenue`,
  `PlacedOnFreshQuote` and `ImplementsLifecycle`. The argument of `GatewayInv`: the
  loop makes an order terminal only on the venue's word (a queued cancel or refusal is
  about an order the venue has ended, however late it is read; an ack says what the
  venue holds) or when it has counted all its fills, each once and all of them
  executed. So whatever the venue may execute is open in the store, and what risk and
  the self-cross check established for the store's open orders holds at the venue. A
  torn fill breaks the count, but it ends the loop. A quote that was seen was read
  since the last halt, because both edges of a halt wipe it. For positions,
  `PositionInv` adds that a position is the net of the applied fills, and that every
  other fill of the venue is still queued unless the loop exited or messages were
  lost.
* `Accounting_proofs`: `AccountingTypeOK`, `BooksBalance`, `DailyLossIsOfItsDay` and
  `CashLossIsRecorded`. `FillBalances` settles each arm of `update_position_for_fill`
  on integers; `Truncation` bounds what an average loses. The bucket needs
  `LaterDaysClean`: a day the bucket has not reached has no loss yet, so rolling to
  zero is right. The cash needs `CashAccountedFor`: what is gone went into the keys or
  into the recorded losses.
* `Capture_proofs`: `CaptureTypeOK`, `AppendedIsKept`, `TradesNotInflated` and
  `ReplayedBookIsTheVenues`. First the operators: a finite set of positions can be
  listed in order (`InOrder`), the partitions of a flush contain exactly its rows and
  one day each (`Partitioned`), the sequence cache keeps its bound (`Remembered`),
  sequence numbers have a place as text (`RankOfSequence`) and files one for every
  order of their names (`PathOrder`). `StoreInv` adds to the types that a full buffer
  is about to be flushed and that no process means no buffer; a flush that fails keeps
  its buffer, so every identity stays in the buffer or on file. `IdInv` gives every
  stored row its own identity, which makes a partition written twice count once.
  `TradeInv` is what the memory of a poller is for: a living process that has not seen
  a trade has not used its copy of it, and what is still to be appended of an answer
  is distinct and unseen. `ReplayedBookIsTheVenues` is far from inductive: it speaks
  of the normalized store, which one step writes. Four invariants carry it.
  `CacheInv`: the sequence cache has one entry for each subscription, so a number
  forgotten never hides a gap. `WireInv`: every message under way fits a history of
  the venue's book on this connection, and either the snapshot is still to come or the
  last book envelope stored shows the book at the number the client remembers.
  `ChainInv`: an unmarked delta in the store has an envelope that it continues, with
  no book envelope between the two, and what is on file is never without it, because a
  flush writes the buffer's days in order (`EarlierWritten`, `ChainWritten`); so it
  stands through crashes and flushes that fail part of the way, where an envelope that
  follows may be lost but not the one it follows. `SnapshotInv`: a stored snapshot
  shows the venue's book. `ReadAll` then shows that the replay order is a strict order
  of the stored rows that leaves none out, and `KeepsUp` takes the first row at which
  the normalizer would disagree with the venue to a contradiction.
* `PaperSimulator_proofs`: what each method of the simulator does, for any book, trade
  and order (`FillMarketable`, `ActivateDueOrders`, `Advance`, `Flush`, `ApplyTrade`,
  `Submit`, `Cancel`, `OnLifecycle`, `OnBook`). Every loop over orders keeps `Sane`:
  an order is kept under its own id and not overfilled; what a live buy has spent in
  this call and may still spend is reserved (`Funded`); an order at rest is filled by
  no more than what was printed beyond its queue (`Waits`); and takers have taken from
  the book exactly what it no longer shows (`SameLiquidity`). `FillMarketable` is the
  step that needs most: the levels a taker walks, the fills it gets and the levels
  that stay are three lists with one total.
* `Backtest_proofs`: all seven properties of the run. First the account: what
  `apply_fill_cash` and `track_fill` do to cash, reservations and books for one fill
  (`OnFill`) and for the list of a call (`OnFills`). `BacktestInv` then joins both
  sides. `Standing` says that simulator and account stand together between two calls:
  with no fill pending, `Sane` of the account's reservations and of the orders that
  rest, cash and books in agreement. `LiveBuysFunded` is not inductive without it: a
  fill is paid from the reservation only after the simulator has returned, so during a
  call reservation and spending have to be weighed together (`Booked`). `Balanced`
  adds what takers took of a ladder since the book event to what it still shows.
  `QueueRespected` needs that an order joins the queue once, when it comes to rest
  (`Rests`), and that a trade's volume, which the loop shares out, is printed in full
  for each order (`ApplyTrade`). `CashPartition` is proved for `AllowMarketOrders =
  FALSE`, the default of `config.py:135` and `domain/spec.py:59`. The hypothesis is
  needed: a market buy pays what the book asks, which can be more than its price times
  its quantity, for which cash was reserved; the difference leaves the total and not
  the available cash. With market orders allowed and a market buy of three at 50, TLC
  finds `CashPartition` violated by the first such fill. All else is proved with
  market orders too.
* `Desk_proofs`: `NoTradeAtTheClose`, `RunningTotals` and `PricedFromTheMarket`. The
  close of a signal travels from the forecast task through the two queues into the
  plugin, stays there while quotes price it again, and ends in a decision that waits
  for its verdict. `CloseInv` follows it: every event under way carries a close of its
  own (`Way`), the plugin remembers no other, and what waits left enough time when it
  was decided, which no later step may change (`Mind`): only the handler of an event
  reads the clock between the two, so a decision is never older than the clock it was
  checked with. `RunningTotals` is four invariants, one for each plugin that keeps a
  total. `Cascade`: the total is the sum of the scores that are known, through
  replacement and expiry. `Evader`: the volume is the sum of a history that drops its
  oldest entry. `Position`: the numbers of the orders the tennis plugin sent as exits
  are the sells of the venue's record, so every own fill moves `held` the way it moved
  the record, until an exit is sent twice. `Booked`: an order enters the weather
  totals with its acceptance; only the one order that waits for its verdict may be
  pending, under an id not accepted before, and it fits its ladder (`Fits`), because
  nothing is accepted between its decision and its verdict. `Knows` gives the notional
  its bounds: a mid comes with both prices. `PricedFromTheMarket` is about 17 plugins
  and four ways to remember a market. `PriceInv` sets each against what the market
  last showed: a cached mid lies between bid and ask in YES terms (`Mids`), whichever
  side the quote was for; a kept quote, turned to either side, is the market's
  (`Quotes`, `Looked`); the plugin of the next primary keeps quotes of the second
  state only (`Second`). A decision stays at a price of its market (`OnMarket`) while
  it waits, because nothing is shown before the last verdict, and the scanner's legs
  that still wait cost less than all of them (`Locked`). `Floored` is why a price
  rounded down to a tick does not fall below the bid. The theorem assumes
  `VenueQuotes`, a venue that quotes whole ticks and does not cross, and `TwoStates`,
  a second market where `politics_primary_momentum` runs. The code checks neither, and
  both are needed: no price fits a crossed market, a mid of 61 half cents between 61
  and 61 is rounded down to 60, below the bid, and without a second market the plugin
  of the next primary has nothing to buy. `MCDesk` assumes both, so the run and the
  theorem speak of the same venues.

The assumptions are those the modules name: order ids and position keys are finite
sets, because a process is configured with finitely many instruments and sends
finitely many orders; amounts are natural numbers; limits are natural numbers, and
batches, days and pages of trades are not empty. `BacktestAssumption` says that
intents, books, quotes and trades have the shapes their classes check on construction:
prices between 0 and 1 (in cents), quantities that are natural numbers.
`OrderAssumption`, `RunAssumption` and `LiveAssumption` do so for the plugins:
finitely many senators, a history that keeps at least one trade (the code keeps 20),
prices between 0 and 1 or missing, parameters of a weather spec that are numbers,
discoveries that find markets, and a spec of a live run that holds its orders back
before the close (`min_seconds_to_close`, 300 in
`weather-temperature-arbitrage-live.toml`; with 0 the guard is off).

Only model-checked: the liveness property `DoneOrdersReleased` (fairness is out of
the prover's reach), and of `Desk` the properties `KnownInTime`
and `BooksReconcile`. These are one property per job, and the studies share no state: a
proof is as many proofs as there are jobs, each from an invariant of its own.

## What the code does that a reader might not expect

The models follow the code here; the properties are stated so that they hold
around these behaviours, and `PROJECT.json` has the lines.

* Order path. Cancels of a suspension beyond the budget of the second are dropped; an
  order of unknown outcome that the venue never got stays unknown and keeps its slot;
  an intent of an unknown tier may have an older one shed before it is refused.
* Backtest. A fill is taken off the ladder that was walked and not off the other
  outcome's, which shows the same offer (a buy of YES asks and a sale to the NO bids
  take the same contracts; `LiquidityNotReused` is about one ladder); evidence
  received after the exchange time of its event is refused as from the future. Order
  updates never reach the context, so the reservation of a cancelled or killed order
  is never released and every `ReplaceOrder` is refused. An order on a paused market
  raises after its cash was reserved and ends the run. A settlement payout is never
  credited; balances are cut off at zero; a market buy that costs more than its
  reservation takes the excess from the total only; a sale beyond the position closes
  the position and credits all the cash. Orders in flight activate while the market is
  paused. A sleeve stopped from HALTED never reaches DISPOSED.
* Live paper. A discovery that fails otherwise than by timeout ends the market-data
  task and nobody notices; a full queue delays signals; shutdown drops the queue.
* Capture and lake. Snapshots are replayed by receipt and deltas by exchange time; the
  gap mark is dropped before normalization; a flush that fails part of the way writes
  its first partitions again; REST trades seen before a restart are stored again;
  normalizing twice duplicates; a migration stamps files of a newer build too, where
  its docstring speaks of missing or older markers, and they are refused as mixed from
  then on (`LakeBooks` has them unreadable throughout); rejects of a private channel
  that a sweep of their source deleted come back when the normalizer runs again;
  sequence numbers sort as text, and ties by the random names of files.
* Strategies. Plugins that do not look at the side of a quote take a NO mid for a YES
  mid; a rejected exit of the tennis plugin blocks its stop, a partly filled one
  oversells; the queue evader forgets an order whose cancel was rejected.
* Studies. The first-inning prior counts markets that are not settled yet
  (`rfi_prior`); mark-outs and annotations repeated append again; a golf shadow fill
  may be judged by a quote younger than the decision; opponent-adjusted tennis form
  reads ratings from after the match; the weather settlement replaces a ledger it read
  before slow requests; labels of a training split reach past the split.
* Services. Capital is released on FILLED; the idempotency store evicts by size, so an
  evicted id is sent again; a restarted ledger appends its settlements again; a trade
  of unknown side debits both; a promoted bundle is loaded with only the model's
  checksum compared.
* Recorders. The end mark blocks for ever when the writer died with the queue full;
  the index readers do not reconnect, and a Kraken price never ages out.

## Not modelled

Rust: strategies, features, models and pricing (numeric choices, free to the order
path); JSON, signing and HTTP; metrics and logs; the sleeve and market
configuration files. Kill switches, the attempt cap, shutdown, reconciliation at
start, sequence tracking of the socket, portfolio reservations and the toxicity
breaker are planned below.

Python: statistical fitting, gradient steps and one-off estimates (floating point
without a protocol); reading of rows, rendering, reports and command lines (input
and output only); value types and schemas; the order types of `oms/state.py`,
the buses and ports, which are protocols without a caller that changes state;
`replace` in the simulator, which no run reaches; the edge check of the risk
policy, which a backtest leaves inert; the equal-weight allocator.

## Plan

1. done: `Oms`, `Scheduler`, `Gateway`, `Accounting` and their first theorems;
2. done: the Python side, from the simulator to the studies;
3. proofs: done for every invariant and action property the runs check, except
   `KnownInTime` and `BooksReconcile` of `Desk`; open are its
   jobs, first of them the capital reservations of `BackOffice`;
4. `LiveRunner`: kill-switch file against continuous traffic (liveness), attempt
   cap, exits and bulk cancel; `WsFeed`: bounded channel, sequence tracking across
   reconnects; `Reconcile`: crash, restart, adoption, double counting;
5. `Portfolio`: reservations of open orders against the gross limit; risk
   arithmetic with cash and drawdown in `Accounting`; the toxicity breaker.
