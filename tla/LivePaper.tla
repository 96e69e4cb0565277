------------------------------ MODULE LivePaper ------------------------------
(***************************************************************************)
(* cli/live_paper.py: the weather plugin on live data.  One asyncio loop   *)
(* runs a market-data task, a forecast task, a balance task and a strategy *)
(* task, with one bounded queue of events between the first two and the    *)
(* last.  An action is what a task does between two awaits, so none runs   *)
(* while the decisions of an event are judged.                             *)
(*                                                                         *)
(* External: the Kalshi endpoints, Open-Meteo, and the clock.  The other   *)
(* plugins run under StrategyRun's own loop and leave these variables be.  *)
(***************************************************************************)
EXTENDS StrategyRun

CONSTANTS KxHigh,       \* the daily-high markets; the others are thresholds
          Closes,       \* close_time of a daily-high market, or None
          Discoveries,  \* the sets of markets a discovery may find
          LivePrices,   \* the <<bid, ask>> pairs of live messages
          MaxQueue,     \* maxsize of event_queue
          MaxNow        \* bound: the clock

(* A close is a time; a live spec holds its last orders back before it     *)
(* (min_seconds_to_close = 300).                                           *)
ASSUME LiveAssumption ==
    /\ Discoveries \subseteq SUBSET Markets
    /\ {"high", "threshold"} \subseteq Ladders
    /\ \A m \in KxHigh : Closes[m] \in Int
    /\ \A j \in LiveJobs : WeatherParams[j].min_close \in Nat \ {0}

VARIABLES ws,           \* the market-data task: discovering, waiting, streaming, dead
          catalog,      \* WeatherMarketCatalog
          last_found,   \* last_tickers, last_contracts
          wire,         \* events of one message not yet in the queue
          forecast,     \* the forecast task: its as_of and the contracts left
          queue,        \* event_queue
          cash          \* _ContextProvider.cash_balance

live_vars == <<ws, catalog, last_found, wire, forecast, queue, cash>>

(* The loops run, and the strategy task is not inside process_event.  A    *)
(* run is followed for Budget events.                                      *)
looping == job \in LiveJobs /\ runner = "running" /\ todo = <<>> /\ events < Budget[job]

LiveInit ==
    /\ ws = "discovering"
    /\ catalog = {}
    /\ last_found = {}
    /\ wire = <<>>
    /\ forecast = [as_of |-> None, left |-> <<>>]
    /\ queue = <<>>
    /\ cash \in IF job \in LiveJobs THEN CashLevels ELSE {0}      \* _initial_cash_balance

-----------------------------------------------------------------------------
(* _ws_loop and _stream_ws *)

subscribe(found) == IF found = {} THEN "waiting" ELSE "streaming"

(* _discover_weather_markets *)
discover ==
    /\ looping /\ ws = "discovering"
    /\ \E found \in Discoveries :
        /\ catalog' = found
        /\ last_found' = IF found = {} THEN last_found ELSE found
        /\ ws' = subscribe(found)
    /\ UNCHANGED <<run_vars, wire, forecast, queue, cash>>

discover_times_out ==
    /\ looping /\ ws = "discovering"
    /\ catalog' = last_found
    /\ ws' = subscribe(last_found)
    /\ UNCHANGED <<run_vars, last_found, wire, forecast, queue, cash>>

(* Any other exception ends the task; nobody looks at it before the end. *)
discover_raises ==
    /\ looping /\ ws = "discovering"
    /\ ws' = "dead"
    /\ UNCHANGED <<run_vars, catalog, last_found, wire, forecast, queue, cash>>

rediscover ==
    /\ looping /\ ws = "waiting"
    /\ ws' = "discovering"
    /\ UNCHANGED <<run_vars, catalog, last_found, wire, forecast, queue, cash>>

(* A ticker message is normalized into a YES and a NO quote, a message of  *)
(* the book channel into a book; others are skipped.                       *)
ws_message ==
    /\ looping /\ ws = "streaming" /\ wire = <<>>
    /\ \E q \in {r \in quotes : r.side = "YES" /\ r.market \in catalog
                              /\ <<r.bid, r.ask>> \in LivePrices} :
        \/ wire' = <<q, [q EXCEPT !.side = "NO", !.bid = flip(q.ask), !.ask = flip(q.bid)]>>
        \/ wire' = <<[q EXCEPT !.kind = "book"]>>
    /\ UNCHANGED <<run_vars, ws, catalog, last_found, forecast, queue, cash>>

ws_put ==
    /\ looping /\ wire # <<>> /\ Len(queue) < MaxQueue
    /\ queue' = Append(queue, Head(wire))
    /\ wire' = Tail(wire)
    /\ UNCHANGED <<run_vars, ws, catalog, last_found, forecast, cash>>

(* The session's deadline or an error of the stream: the task is canceled, *)
(* with what it had not put yet.                                           *)
ws_session_ends ==
    /\ looping /\ ws = "streaming"
    /\ ws' = "discovering"
    /\ wire' = <<>>
    /\ UNCHANGED <<run_vars, catalog, last_found, forecast, queue, cash>>

-----------------------------------------------------------------------------
(* _forecast_loop *)

(* A forecast has come: its contracts are read from the catalog once. *)
forecast_tick ==
    /\ looping /\ forecast.left = <<>> /\ catalog # {}
    /\ forecast' = [as_of |-> now, left |-> SetToSeq(catalog)]
    /\ UNCHANGED <<run_vars, ws, catalog, last_found, wire, queue, cash>>

(* _kxhigh_external_signal: a closed market is not priced. *)
suppressed(m, as_of) == m \in KxHigh /\ Closes[m] # None /\ Closes[m] <= as_of

forecast_signal(m, as_of, probability) ==
    [kind |-> "signal", market |-> m, probability |-> probability,
     lead |-> IF m \in KxHigh THEN 0 ELSE None,
     ladder |-> IF m \in KxHigh THEN "high" ELSE "threshold",
     closes |-> IF m \in KxHigh THEN Closes[m] ELSE None, at |-> as_of]

(* One contract of the tick: suppressed, not predictable, or sent. *)
forecast_skip ==
    /\ looping /\ forecast.left # <<>>
    /\ forecast' = [forecast EXCEPT !.left = Tail(@)]
    /\ UNCHANGED <<run_vars, ws, catalog, last_found, wire, queue, cash>>

forecast_put ==
    /\ looping /\ forecast.left # <<>> /\ Len(queue) < MaxQueue
    /\ ~suppressed(Head(forecast.left), forecast.as_of)
    /\ \E p \in Probabilities \cap 0 .. One :
        queue' = Append(queue, forecast_signal(Head(forecast.left), forecast.as_of, p))
    /\ forecast' = [forecast EXCEPT !.left = Tail(@)]
    /\ UNCHANGED <<run_vars, ws, catalog, last_found, wire, cash>>

-----------------------------------------------------------------------------

(* _balance_loop; a failed request leaves the balance. *)
balance_refresh ==
    /\ looping
    /\ cash' \in CashLevels
    /\ UNCHANGED <<run_vars, ws, catalog, last_found, wire, forecast, queue>>

(* _strategy_loop *)
strategy_get ==
    /\ looping /\ queue # <<>>
    /\ hand_over(Head(queue), [now |-> now, cash |-> cash])
    /\ queue' = Tail(queue)
    /\ UNCHANGED <<now, ws, catalog, last_found, wire, forecast, cash>>

clock ==
    /\ looping /\ now < MaxNow
    /\ now' = now + 1
    /\ UNCHANGED <<job, runner, s, todo, events, market, orders, oversold, live_vars>>

(* A signal or the deadline: every task is canceled, the runner stops, and *)
(* what is in the queue is dropped.                                        *)
shutdown ==
    /\ job \in LiveJobs /\ runner = "running" /\ todo = <<>>
    /\ runner' = "disposed"
    /\ ws' = "dead"
    /\ catalog' = {} /\ last_found' = {} /\ queue' = <<>> /\ wire' = <<>>
    /\ forecast' = [as_of |-> None, left |-> <<>>]
    /\ UNCHANGED <<job, s, todo, now, events, market, orders, oversold, cash>>

LiveNext ==
    \/ discover \/ discover_times_out \/ discover_raises \/ rediscover
    \/ ws_message \/ ws_put \/ ws_session_ends
    \/ forecast_tick \/ forecast_skip \/ forecast_put
    \/ balance_refresh \/ strategy_get \/ clock \/ shutdown
=============================================================================
