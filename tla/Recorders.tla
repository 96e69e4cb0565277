----------------------------- MODULE Recorders -----------------------------
(***************************************************************************)
(* Two recorders that run beside the desk.                                 *)
(*                                                                         *)
(* scripts/kalshi_ws_capture.py: an event loop that receives and a thread  *)
(* that writes, with a queue between them and files that are rolled before *)
(* they are too large.  world: phase, queue, shards (the lines of every    *)
(* file), writer, received (how many envelopes have come, each is its      *)
(* number) and stats, which both sides update.                             *)
(*                                                                         *)
(* scripts/btc_clead_recorder.py with research/btc_lead.py: readers of two *)
(* exchanges and of the official index put ticks in a queue, and a loop    *)
(* keeps a synthetic index and measures how far it leads the official one. *)
(* world: readers, queue, ticks (venue -> the last), reference, snapshot,  *)
(* points (for the volatility) and row (the last of the ledger).           *)
(***************************************************************************)
EXTENDS Studies

CONSTANTS QueueSize, ShardSize,     \* of the capture: envelopes, lines of a file
          MaxReceived,              \* bound: the envelopes that come
          BtcPrices, BtcLags,       \* reader -> what a tick may show, how late it may be
          BtcStrike, BtcQuote,      \* the contract the recorder is given
          MaxComponentAge, MinVenues, VolPoints, BtcQueueSize,
          ResidualLatency, BtcMinEdge,
          MaxTicks                  \* bound: the ticks that come

Stop == 0       \* the sentinel

ASSUME RecorderAssumption ==
    /\ {QueueSize, ShardSize, MinVenues, BtcQueueSize} \subseteq Nat \ {0}
    /\ VolPoints \in Nat /\ VolPoints >= 3
    /\ ResidualLatency \in Nat

-----------------------------------------------------------------------------
(* kalshi_ws_capture.py *)

WsWorlds ==
    {[phase |-> "discover", queue |-> <<>>, shards |-> <<<<>>>>, writer |-> "running", received |-> 0,
      stats |-> [rows |-> 0, dropped |-> 0, write_errors |-> 0, shards |-> 0, finished |-> FALSE]]}

ws_in(phase) == world.phase = phase

(* The loop: no tickers, a session, the deadline; discovery or the         *)
(* manifest may raise, outside the try, and then the run ends.             *)
ws_discover ==
    /\ ws_in("discover")
    /\ \E next \in {"session", "closing"} : happens([world EXCEPT !.phase = next])

(* put_nowait, or the envelope is dropped and counted. *)
ws_receive ==
    /\ ws_in("session") /\ world.received < MaxReceived
    /\ LET n == world.received + 1
       IN  happens(IF Len(world.queue) < QueueSize
                   THEN [world EXCEPT !.received = n, !.queue = Append(@, n)]
                   ELSE [world EXCEPT !.received = n, !.stats.dropped = @ + 1])

(* The session's time is up, or the stream failed and is tried again. *)
ws_session_over == ws_in("session") /\ happens([world EXCEPT !.phase = "discover"])

(* finally: the sentinel waits for room in the queue. *)
ws_close ==
    /\ ws_in("closing") /\ Len(world.queue) < QueueSize
    /\ happens([world EXCEPT !.phase = "joining", !.queue = Append(@, Stop)])

(* join, for thirty seconds at most; the last manifest. *)
ws_joined ==
    /\ ws_in("joining")
    /\ happens([world EXCEPT !.phase = "done", !.stats.finished = TRUE, !.stats.shards = Len(world.shards)])

(* _writer_thread dies with the process. *)
writer_runs == world.writer = "running" /\ ~ws_in("done") /\ world.queue # <<>>

ws_writer_stops ==
    /\ writer_runs /\ Head(world.queue) = Stop
    /\ happens([world EXCEPT !.queue = Tail(@), !.writer = "ended"])

(* The next file when the line would not fit. *)
rolled_over(shards) == IF Len(Last(shards)) + 1 > ShardSize THEN Append(shards, <<>>) ELSE shards

(* An envelope is counted, then written; a write may fail and is counted.  *)
(* The next file may fail to open, outside the try, and the thread ends.   *)
ws_write ==
    /\ writer_runs /\ Head(world.queue) # Stop
    /\ LET n == Head(world.queue)
           shards == rolled_over(world.shards)
           taken == [world EXCEPT !.queue = Tail(@), !.stats.rows = @ + 1, !.shards = shards]
       IN  \/ happens([taken EXCEPT !.shards = Append(Front(shards), Append(Last(shards), n))])
           \/ happens([taken EXCEPT !.stats.write_errors = @ + 1])
           \/ /\ shards # world.shards
              /\ happens([taken EXCEPT !.shards = world.shards, !.writer = "dead"])

WsNext ==
    \/ ws_discover
    \/ ws_receive
    \/ ws_session_over
    \/ ws_close
    \/ ws_joined
    \/ ws_writer_stops
    \/ ws_write

(* What was received is in the queue, in a file, or in the count of what   *)
(* was dropped or could not be written, but for the one envelope a thread  *)
(* had that died; the files hold it in the order of arrival, and no file   *)
(* is too large.  A run whose writer ended on the sentinel left nothing    *)
(* behind.                                                                 *)
WsBooks ==
    LET lines == FlattenSeq(world.shards)
        waiting == SelectSeq(world.queue, LAMBDA n : n # Stop)
        lost == IF world.writer = "dead" THEN 1 ELSE 0
    IN  /\ world.received = world.stats.rows + world.stats.dropped + Len(waiting)
        /\ world.stats.rows = Len(lines) + world.stats.write_errors + lost
        /\ \A i, j \in DOMAIN (lines \o waiting) : i < j => (lines \o waiting)[i] < (lines \o waiting)[j]
        /\ \A k \in DOMAIN world.shards : Len(world.shards[k]) <= ShardSize
        /\ world.writer = "ended" => waiting = <<>>

-----------------------------------------------------------------------------
(* btc_clead_recorder.py *)

Exchanges == {"coinbase", "kraken"}

BtcWorlds ==
    {[readers |-> readers, configured |-> "cfb" \in readers, queue |-> <<>>, ticks |-> <<>>, reference |-> <<>>,
      snapshot |-> <<>>, points |-> <<>>, row |-> <<>>, seen |-> 0] :
        readers \in {Exchanges, Exchanges \cup {"cfb"}}}

(* The readers, which wait while the queue is full: Kraken's ticker has no *)
(* time of its own.                                                        *)
btc_tick ==
    /\ world.seen < MaxTicks /\ Len(world.queue) < BtcQueueSize
    /\ \E reader \in world.readers :
        \E price \in BtcPrices[reader], lag \in BtcLags[reader] :
            LET tick == [venue |-> reader, price |-> price, received |-> today,
                         exchange |-> IF reader = "kraken" THEN Missing ELSE today - lag]
            IN  happens([world EXCEPT !.queue = Append(@, tick), !.seen = @ + 1])

(* A reader that loses its connection does not come back; of interest      *)
(* while there are ticks to lose.                                          *)
btc_disconnect ==
    world.seen < MaxTicks /\ \E reader \in world.readers : happens([world EXCEPT !.readers = @ \ {reader}])

(* SyntheticIndexState.snapshot: at most one.  Equal weights.  What has no *)
(* exchange time is never too old.                                         *)
fresh_enough(tick, now_at) == tick.exchange = Missing \/ Max({0, now_at - tick.exchange}) <= MaxComponentAge

as_of(components) == Max({t.received : t \in components})

index_snapshot(ticks, now_at) ==
    LET components == {ticks[v] : v \in {v \in DOMAIN ticks : fresh_enough(ticks[v], now_at)}}
    IN  IF Cardinality(components) < MinVenues THEN <<>>
        ELSE <<[price |-> MapThenSumSet(LAMBDA t : t.price, components) \div Cardinality(components),
                as_of |-> as_of(components), at |-> now_at, components |-> components]>>

(* RollingRealizedVol.update: time moves forward, and the oldest go. *)
vol_update(points, snapshot) ==
    IF points # <<>> /\ snapshot.as_of <= Last(points).at THEN points
    ELSE LET longer == Append(points, [at |-> snapshot.as_of, price |-> snapshot.price])
         IN  SubSeq(longer, Max({1, Len(longer) - VolPoints + 1}), Len(longer))

(* sigma_per_second, as the variance of the changes. *)
sigma(points) ==
    LET n == Len(points) - 1
        change == [k \in 1..n |-> (points[k + 1].price - points[k].price) \div (points[k + 1].at - points[k].at)]
        mean == total(change) \div n
    IN  IF Len(points) < 3 THEN Missing
        ELSE total(mapped(change, LAMBDA c : (c - mean) * (c - mean))) \div (n - 1)

(* measure_reference_lead *)
measure_reference_lead(snapshot, reference) == reference.exchange - snapshot.as_of

(* forecast_at and prob_above: a straight line for the normal one. *)
fair_above(price, spread) ==
    IF spread = 0 THEN IF price > BtcStrike THEN Dollar ELSE 0
    ELSE clip(0, 50 + (25 * (price - BtcStrike)) \div spread, Dollar)

(* evaluate_btc15m_timing_candidate *)
timing_candidate(snapshot, spread, lead) ==
    /\ lead # Missing /\ lead > ResidualLatency
    /\ taker_side(fair_above(snapshot.price, spread), BtcQuote.ask, Dollar - BtcQuote.bid).edge >= BtcMinEdge

(* _decision_from_args, whose quote and time to go are those of the        *)
(* command line.                                                           *)
decision_from_args(snapshot, points, lead) ==
    sigma(points) # Missing /\ timing_candidate(snapshot, sigma(points), lead)

(* A row of the ledger. *)
btc_row(type, snapshot, reference, points) ==
    LET lead == IF reference = <<>> THEN Missing ELSE measure_reference_lead(snapshot, reference[1])
    IN  [type |-> type, at |-> today, snapshot |-> snapshot, reference |-> reference, lead |-> lead,
         label |-> IF reference # <<>> THEN "official_rti"
                   ELSE IF world.configured THEN "waiting" ELSE "proxy_only",
         candidate |-> decision_from_args(snapshot, points, lead)]

btc_reference(tick) ==
    LET row == mapped(world.snapshot, LAMBDA s : btc_row("official_rti_lead", s, <<tick>>, world.points))
    IN  [world EXCEPT !.queue = Tail(@), !.reference = <<tick>>, !.row = IF row = <<>> THEN @ ELSE row]

btc_component(tick) ==
    LET ticks == (tick.venue :> tick) @@ world.ticks
        snapshot == index_snapshot(ticks, today)
        points == vol_update(world.points, snapshot[1])
    IN  IF snapshot = <<>> THEN [world EXCEPT !.queue = Tail(@), !.ticks = ticks]
        ELSE [world EXCEPT !.queue = Tail(@), !.ticks = ticks, !.snapshot = snapshot, !.points = points,
                           !.row = <<btc_row("synthetic_index", snapshot[1], world.reference, points)>>]

(* _record_live takes the next tick, however long it has waited. *)
btc_record ==
    /\ world.queue # <<>>
    /\ LET tick == Head(world.queue)
       IN  happens(IF tick.venue = "cfb" THEN btc_reference(tick) ELSE btc_component(tick))

BtcNext ==
    \/ time_passes
    \/ btc_tick
    \/ btc_disconnect
    \/ btc_record

(* A candidate's lead is real: everything its index was made of had been   *)
(* received, by more than the latency that is left, before the time of the *)
(* official print; and no component that tells its time is too old.        *)
BtcKnownInTime ==
    \A r \in Range(world.row) :
        /\ r.candidate =>
            \A t \in r.snapshot.components : r.reference[1].exchange - t.received > ResidualLatency
        /\ \A t \in r.snapshot.components :
            t.exchange # Missing => r.snapshot.at - t.exchange <= MaxComponentAge

(* The volatility is over a bounded number of points, strictly in time,    *)
(* up to the index last recorded or, when that lost its newest component,  *)
(* beyond; a lead is labelled official only when                           *)
(* the official index had been read.                                       *)
BtcBooks ==
    /\ Len(world.points) <= VolPoints
    /\ \A i, j \in DOMAIN world.points : i < j => world.points[i].at < world.points[j].at
    /\ world.snapshot # <<>> => Last(world.points).at >= world.snapshot[1].as_of
    /\ \A r \in Range(world.row) : r.label = "official_rti" => world.configured /\ r.lead # Missing
=============================================================================
